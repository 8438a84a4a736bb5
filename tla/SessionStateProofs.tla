------------------------ MODULE SessionStateProofs --------------------------
(***************************************************************************)
(* Proofs about SessionState: the types, that a turn is counted once       *)
(* however the two copies of its events mix, and that the worker submits   *)
(* once for it.                                                            *)
(*                                                                         *)
(* That a count is right is a statement about the past, and the memory     *)
(* does not say which events it holds.  The invariant therefore claims     *)
(* that there is a ledger: a set of applied events, and for each entry of  *)
(* the memory the event it remembers.  An applied event whose other copy   *)
(* is still to come is remembered, under the channel it came over.         *)
(* Entries leave at the far end, and by the time one does, its event is    *)
(* done: the entries behind it and the one that pushes it out are of       *)
(* events close to it, and DedupMemory of them do not fit into the 2 *     *)
(* (Skew - 1) places there are (the pigeonhole principle, in               *)
(* OldestIsDone).                                                          *)
(***************************************************************************)
EXTENDS SessionState, FiniteSetTheorems, TLAPS

Channel == {"http", "osc"}

\* The events of which the copy over ch is still to come.
Due(ch) == {n \in Emitted : IF ch = "http" THEN http[n] = "posted" ELSE n \in hooks \/ InStream(n)}

\* An event that was not emitted was not posted.
PostsWereEmitted == \A n \in Event \ Emitted : http[n] = "none"

\* An event has one mark: its hook has yet to write it, or it is in the output once.
OneMark ==
    /\ \A i, j \in DOMAIN stream : stream[i] = stream[j] => i = j
    /\ \A i \in DOMAIN stream : stream[i] \notin hooks

\* While a copy of an event is on its way, few events come after it.
CloseTogether == \A ch \in Channel : \A o \in Due(ch) : Len(kind) < o + Skew

\* A hook that nothing disturbs writes its mark after its post was served.
PostComesFirst == faults = 0 => \A n \in Due("http") : n \in hooks

\* A ledger of the applied events: src[i] is the event that memory[i] remembers.
Ledger(applied, src) ==
    /\ turnSeq = Cardinality({n \in applied : kind[n] = "end"})
    /\ \A i \in DOMAIN memory : memory[i].kind = kind[src[i]]
    /\ \A i, j \in DOMAIN memory : i < j => src[i] # src[j] /\ src[i] < src[j] + Skew
    /\ \A ch \in Channel : \A n \in applied \cap Due(ch) :
          \E i \in DOMAIN memory : src[i] = n /\ memory[i].channel # ch
    /\ faults = 0 => /\ \A n \in Emitted \ Due("http") : n \in applied
                     /\ \A i \in DOMAIN memory : memory[i].channel = "http"

\* No event was applied twice, and an applied one is remembered as long as its
\* other copy may come.
AppliedOnce ==
    \E applied \in SUBSET Emitted : \E src \in [DOMAIN memory -> applied] : Ledger(applied, src)

\* Every submit used up an observation, and every observation of an Idle session
\* is an end of a turn or one of the events that `rearmed' counts.
SubmitsArePaid ==
    /\ submits <= turnSeq + rearmed
    /\ observed /\ machine = "Idle" /\ worker = "ready" => submits < turnSeq + rearmed

IInv == /\ TypeOK /\ PostsWereEmitted /\ OneMark /\ CloseTogether /\ PostComesFirst
        /\ AppliedOnce /\ SubmitsArePaid

-----------------------------------------------------------------------------
(* Types.                                                                  *)

LEMMA Bounds ==
  /\ MaxEvents \in Nat /\ MaxFaults \in Nat /\ DedupMemory \in Nat \ {0} /\ Skew \in Nat \ {0}
  /\ 2 * (Skew - 1) < DedupMemory
  BY BoundsAssumption, MemoryAssumption

LEMMA Types ==
  ASSUME TypeOK
  PROVE  /\ Len(kind) \in 0..MaxEvents /\ Emitted = 1..Len(kind) /\ DOMAIN kind = Emitted
         /\ Emitted \subseteq Event /\ Reader \in Thread /\ Event \subseteq Thread
         /\ \A n \in Emitted : kind[n] \in Kind
         /\ Len(stream) \in Nat /\ DOMAIN stream = 1..Len(stream)
         /\ \A i \in DOMAIN stream : stream[i] \in Emitted
         /\ Len(memory) \in 0..DedupMemory /\ DOMAIN memory = 1..Len(memory)
         /\ \A i \in DOMAIN memory : memory[i].kind \in Kind /\ memory[i].channel \in Channel
  <1>1. Len(kind) \in 0..MaxEvents /\ Emitted = 1..Len(kind) /\ DOMAIN kind = Emitted
    BY Bounds DEF TypeOK, Emitted
  <1>2. Emitted \subseteq Event /\ Reader \in Thread /\ Event \subseteq Thread
    BY <1>1, Bounds DEF Event, Thread
  <1>3. \A n \in Emitted : kind[n] \in Kind
    BY <1>1 DEF TypeOK
  <1>4. /\ Len(stream) \in Nat /\ DOMAIN stream = 1..Len(stream)
        /\ \A i \in DOMAIN stream : stream[i] \in Emitted
    BY DEF TypeOK
  <1>5. Len(memory) \in 0..DedupMemory /\ DOMAIN memory = 1..Len(memory)
    BY Bounds DEF TypeOK
  <1>6. \A i \in DOMAIN memory : memory[i].kind \in Kind /\ memory[i].channel \in Channel
    <2> DEFINE E == [kind : Kind, channel : Channel]
    <2>1. \A e \in E : e.kind \in Kind /\ e.channel \in Channel
      OBVIOUS
    <2>2. memory \in Seq(E)
      BY DEF TypeOK, Channel
    <2> HIDE DEF E
    <2>3. \A i \in 1..Len(memory) : memory[i] \in E
      BY <2>2
    <2> QED BY <1>5, <2>1, <2>3
  <1> QED BY <1>1, <1>2, <1>3, <1>4, <1>5, <1>6

\* What has been emitted is what is due, and what is due was emitted.
LEMMA DueIs ==
  ASSUME TypeOK, PostsWereEmitted
  PROVE  /\ Outstanding = Due("http") \cup Due("osc")
         /\ \A n \in Event : http[n] = "posted" <=> n \in Due("http")
         /\ \A n : n \in Due("osc") <=> n \in hooks \/ InStream(n)
         /\ \A ch \in Channel : Due(ch) \subseteq Emitted
  <1>1. Outstanding = Due("http") \cup Due("osc")
    BY DEF Outstanding, Due
  <1>2. \A n \in Event : http[n] = "posted" <=> n \in Due("http")
    BY DEF Due, PostsWereEmitted
  <1>3. hooks \subseteq Emitted /\ \A n : InStream(n) => n \in Emitted
    BY Types DEF TypeOK, InStream
  <1>4. \A n : n \in Due("osc") <=> n \in hooks \/ InStream(n)
    BY <1>3 DEF Due
  <1>5. \A ch \in Channel : Due(ch) \subseteq Emitted
    BY DEF Due
  <1> QED BY <1>1, <1>2, <1>4, <1>5

\* The event is a copy and nothing changes, or it is applied and remembered.
Drop == UNCHANGED <<memory, machine, observed, stale, turnSeq, writes, rearmed>>

Take(k, ch, t) ==
    /\ memory' = Remembered(k, ch)
    /\ machine' = Moved(k)
    /\ observed' = TRUE
    /\ stale' = FALSE
    /\ turnSeq' = IF k = "end" THEN turnSeq + 1 ELSE turnSeq
    /\ writes' = [writes EXCEPT ![t] =
                     IF Moved(k) # machine \/ k = "toolBefore" THEN Moved(k) ELSE "nothing"]
    /\ rearmed' = IF k # "end" /\ Moved(k) = "Idle" THEN rearmed + 1 ELSE rearmed

LEMMA ApplyIs ==
  ASSUME NEW k, NEW ch, NEW t, Apply(k, ch, t)
  PROVE  \/ IsCopy(k, ch) /\ Drop
         \/ ~IsCopy(k, ch) /\ Take(k, ch, t)
  <1>1. CASE IsCopy(k, ch)
    <2>1. Drop
      BY <1>1 DEF Apply, Drop
    <2> QED BY <1>1, <2>1
  <1>2. CASE ~IsCopy(k, ch)
    BY <1>2, Zenon DEF Apply, Take
  <1> QED BY <1>1, <1>2

LEMMA MovedType ==
  ASSUME machine \in Status, NEW k \in Kind
  PROVE  Moved(k) \in Status
  BY DEF Moved, Status, Kind

\* The memory with the new event at its end; the oldest has gone when it was full.
LEMMA RememberedIs ==
  ASSUME TypeOK, NEW k \in Kind, NEW ch \in Channel
  PROVE  \E gone \in {0, 1} :
            /\ gone = 1 => Len(memory) = DedupMemory
            /\ Len(memory) - gone < DedupMemory /\ gone <= Len(memory)
            /\ Remembered(k, ch) \in Seq([kind : Kind, channel : Channel])
            /\ Len(Remembered(k, ch)) = Len(memory) - gone + 1
            /\ \A i \in 1..Len(memory) - gone : Remembered(k, ch)[i] = memory[i + gone]
            /\ Remembered(k, ch)[Len(memory) - gone + 1] = [kind |-> k, channel |-> ch]
  <1> DEFINE e == [kind |-> k, channel |-> ch]
             E == [kind : Kind, channel : Channel]
  <1>1. e \in E /\ memory \in Seq(E) /\ Len(memory) \in 0..DedupMemory
    BY Types DEF TypeOK, Channel
  <1>2. DedupMemory \in Nat \ {0}
    BY Bounds
  <1>3. Remembered(k, ch) = Append(IF Len(memory) >= DedupMemory THEN Tail(memory) ELSE memory, e)
    BY DEF Remembered
  <1> HIDE DEF e, E
  <1>4. CASE Len(memory) >= DedupMemory
    <2>1. Remembered(k, ch) = Append(Tail(memory), e) /\ Len(memory) = DedupMemory
      BY <1>1, <1>2, <1>3, <1>4
    <2>2. /\ Tail(memory) \in Seq(E) /\ Len(Tail(memory)) = Len(memory) - 1
          /\ \A i \in 1..Len(memory) - 1 : Tail(memory)[i] = memory[i + 1]
      BY <1>1, <1>2, <2>1
    <2> WITNESS 1 \in {0, 1}
    <2>3. /\ Append(Tail(memory), e) \in Seq(E)
          /\ Len(Append(Tail(memory), e)) = Len(memory) - 1 + 1
          /\ \A i \in 1..Len(memory) - 1 : Append(Tail(memory), e)[i] = Tail(memory)[i]
          /\ Append(Tail(memory), e)[Len(memory) - 1 + 1] = e
      BY <1>1, <2>2
    <2> QED BY <1>1, <1>2, <2>1, <2>2, <2>3 DEF e, E
  <1>5. CASE ~(Len(memory) >= DedupMemory)
    <2>1. Remembered(k, ch) = Append(memory, e)
      BY <1>3, <1>5
    <2> WITNESS 0 \in {0, 1}
    <2>2. /\ Append(memory, e) \in Seq(E) /\ Len(Append(memory, e)) = Len(memory) - 0 + 1
          /\ \A i \in 1..Len(memory) - 0 : Append(memory, e)[i] = memory[i + 0]
          /\ Append(memory, e)[Len(memory) - 0 + 1] = e
      BY <1>1
    <2> QED BY <1>1, <1>2, <1>5, <2>1, <2>2 DEF e, E
  <1> QED BY <1>4, <1>5

LEMMA ApplyTypes ==
  ASSUME TypeOK, NEW k \in Kind, NEW ch \in Channel, NEW t \in Thread, Apply(k, ch, t)
  PROVE  /\ memory' \in Seq([kind : Kind, channel : Channel]) /\ Len(memory') <= DedupMemory
         /\ machine' \in Status /\ observed' \in BOOLEAN /\ stale' \in BOOLEAN
         /\ turnSeq' \in Nat /\ rearmed' \in Nat
         /\ writes' \in [Thread -> Status \cup {"nothing"}]
         /\ \A u \in Thread \ {t} : writes'[u] = writes[u]
  <1>1. CASE Drop
    BY <1>1, Bounds DEF Drop, TypeOK, Channel
  <1>2. CASE Take(k, ch, t)
    <2>1. Moved(k) \in Status
      BY MovedType DEF TypeOK
    <2>2. memory' \in Seq([kind : Kind, channel : Channel]) /\ Len(memory') <= DedupMemory
      <3>1. memory' = Remembered(k, ch)
        BY <1>2 DEF Take
      <3>2. PICK gone \in {0, 1} :
                /\ Len(memory) - gone < DedupMemory
                /\ Remembered(k, ch) \in Seq([kind : Kind, channel : Channel])
                /\ Len(Remembered(k, ch)) = Len(memory) - gone + 1
        BY RememberedIs
      <3> QED BY <3>1, <3>2, Types, Bounds
    <2>3. machine' \in Status /\ observed' \in BOOLEAN /\ stale' \in BOOLEAN
      BY <1>2, <2>1 DEF Take
    <2>4. turnSeq' \in Nat /\ rearmed' \in Nat
      BY <1>2 DEF Take, TypeOK
    <2>5. /\ writes' \in [Thread -> Status \cup {"nothing"}]
          /\ \A u \in Thread \ {t} : writes'[u] = writes[u]
      <3> DEFINE w == IF Moved(k) # machine \/ k = "toolBefore" THEN Moved(k) ELSE "nothing"
      <3>1. w \in Status \cup {"nothing"} /\ writes' = [writes EXCEPT ![t] = w]
        BY <1>2, <2>1 DEF Take
      <3> HIDE DEF w
      <3> QED BY <3>1 DEF TypeOK
    <2> QED BY <2>2, <2>3, <2>4, <2>5
  <1> QED BY <1>1, <1>2, ApplyIs

\* A longer list of events keeps what was said of the events in it.
LEMMA EmitIs ==
  ASSUME TypeOK, PostsWereEmitted, NEW k \in Kind, Emit(k)
  PROVE  LET n == Len(kind) + 1 IN
         /\ n \in Event /\ n \notin Emitted
         /\ kind' \in Seq(Kind) /\ Len(kind') = n /\ Emitted' = Emitted \cup {n}
         /\ kind'[n] = k /\ \A m \in Emitted : kind'[m] = kind[m]
         /\ http' \in [Event -> {"none", "posted", "writing", "done"}]
         /\ http'[n] = "posted" /\ \A m \in Event \ {n} : http'[m] = http[m]
         /\ hooks' = hooks \cup {n}
  <1> DEFINE n == Len(kind) + 1
  <1>1. n \in Event /\ kind' = Append(kind, k) /\ hooks' = hooks \cup {n}
        /\ http' = [http EXCEPT ![n] = "posted"]
    BY DEF Emit
  <1>2. kind \in Seq(Kind) /\ Len(kind) \in Nat /\ Emitted = 1..Len(kind)
    BY Types DEF TypeOK
  <1>3. /\ kind' \in Seq(Kind) /\ Len(kind') = n /\ kind'[n] = k
        /\ \A m \in 1..Len(kind) : kind'[m] = kind[m]
    BY <1>1, <1>2
  <1>4. Emitted' = Emitted \cup {n} /\ n \notin Emitted
    BY <1>2, <1>3 DEF Emitted
  <1>5. /\ http' \in [Event -> {"none", "posted", "writing", "done"}]
        /\ http'[n] = "posted" /\ \A m \in Event \ {n} : http'[m] = http[m]
    BY <1>1 DEF TypeOK
  <1> QED BY <1>1, <1>2, <1>3, <1>4, <1>5

LEMMA WrittenTypes ==
  ASSUME TypeOK, NEW t \in Thread, Written(t)
  PROVE  /\ status' \in Status /\ writes' \in [Thread -> Status \cup {"nothing"}]
         /\ writes'[t] = "nothing" /\ \A u \in Thread \ {t} : writes'[u] = writes[u]
  <1>1. /\ writes' \in [Thread -> Status \cup {"nothing"}]
        /\ writes'[t] = "nothing" /\ \A u \in Thread \ {t} : writes'[u] = writes[u]
    BY DEF Written, TypeOK
  <1>2. status' \in Status
    BY DEF Written, TypeOK
  <1> QED BY <1>1, <1>2

LEMMA EmitTypes ==
  ASSUME TypeOK, PostsWereEmitted, NEW k \in Kind, Emit(k), agent' \in {"idle", "busy", "tool"}
  PROVE  TypeOK' /\ PostsWereEmitted'
  <1> DEFINE n == Len(kind) + 1
  <1>1. /\ n \in Event /\ n \notin Emitted
        /\ kind' \in Seq(Kind) /\ Len(kind') = n /\ Emitted' = Emitted \cup {n}
        /\ http' \in [Event -> {"none", "posted", "writing", "done"}]
        /\ http'[n] = "posted" /\ \A m \in Event \ {n} : http'[m] = http[m]
        /\ hooks' = hooks \cup {n}
    BY EmitIs
  <1>2. UNCHANGED <<stream, memory, machine, observed, stale, turnSeq, writes, status, worker,
                    submits, rearmed, faults>>
    BY DEF Emit
  <1>3. Len(kind') <= MaxEvents
    BY <1>1, Bounds DEF Event
  <1>4. stream' \in Seq(Emitted')
    <2>1. stream \in Seq(Emitted) /\ Emitted \subseteq Emitted'
      BY <1>1 DEF TypeOK
    <2> QED BY <1>2, <2>1
  <1>5. hooks' \subseteq Emitted'
    BY <1>1 DEF TypeOK
  <1>6. \A m \in Event : writes'[m] # "nothing" => http'[m] = "writing"
    <2>1. writes[n] = "nothing"
      <3>1. http[n] = "none"
        BY <1>1 DEF PostsWereEmitted
      <3> QED BY <1>1, <3>1 DEF TypeOK
    <2> QED BY <1>1, <1>2, <2>1 DEF TypeOK
  <1>7. TypeOK'
    BY <1>1, <1>2, <1>3, <1>4, <1>5, <1>6 DEF TypeOK
  <1>8. PostsWereEmitted'
    BY <1>1 DEF PostsWereEmitted
  <1> QED BY <1>7, <1>8

LEMMA NextTypes ==
  ASSUME TypeOK, PostsWereEmitted, [Next]_vars
  PROVE  TypeOK' /\ PostsWereEmitted'
  <1>1. CASE Prompt \/ ToolBefore \/ ToolAfter \/ TurnEnd
    <2>1. PICK k \in Kind : Emit(k) /\ agent' \in {"idle", "busy", "tool"}
      BY <1>1 DEF Prompt, ToolBefore, ToolAfter, TurnEnd, Kind
    <2> QED BY <2>1, EmitTypes
  <1>2. ASSUME NEW n \in Event, HookEnds(n)
        PROVE  TypeOK' /\ PostsWereEmitted'
    <2>1. /\ n \in Emitted /\ hooks' \subseteq hooks /\ stream' = Append(stream, n)
          /\ faults' \in 0..MaxFaults
      BY <1>2, Bounds DEF HookEnds, Fault, TypeOK
    <2>2. UNCHANGED <<agent, kind, http, memory, machine, observed, stale, turnSeq, writes,
                      status, worker, submits, rearmed>>
      BY <1>2 DEF HookEnds
    <2>3. Emitted' = Emitted
      BY <2>2 DEF Emitted
    <2>4. stream' \in Seq(Emitted)
      BY <2>1 DEF TypeOK
    <2> QED BY <2>1, <2>2, <2>3, <2>4 DEF TypeOK, PostsWereEmitted
  <1>3. ASSUME NEW n \in Event, PostFails(n)
        PROVE  TypeOK' /\ PostsWereEmitted'
    <2>1. /\ http[n] = "posted" /\ http' = [http EXCEPT ![n] = "done"]
          /\ faults' \in 0..MaxFaults
      BY <1>3, Bounds DEF PostFails, Fault, TypeOK
    <2>2. UNCHANGED <<agent, kind, hooks, stream, memory, machine, observed, stale, turnSeq,
                      writes, status, worker, submits, rearmed>>
      BY <1>3 DEF PostFails
    <2>3. Emitted' = Emitted /\ n \in Emitted
      BY <2>1, <2>2 DEF Emitted, PostsWereEmitted
    <2>4. /\ http' \in [Event -> {"none", "posted", "writing", "done"}]
          /\ \A m \in Event \ {n} : http'[m] = http[m]
      BY <2>1 DEF TypeOK
    <2>5. \A m \in Event : writes'[m] # "nothing" => http'[m] = "writing"
      BY <2>1, <2>2, <2>4 DEF TypeOK
    <2> QED BY <2>1, <2>2, <2>3, <2>4, <2>5 DEF TypeOK, PostsWereEmitted
  <1>4. ASSUME NEW n \in Event, ServePost(n)
        PROVE  TypeOK' /\ PostsWereEmitted'
    <2>1. /\ http[n] = "posted" /\ http' = [http EXCEPT ![n] = "writing"]
          /\ Apply(kind[n], "http", n)
          /\ UNCHANGED <<agent, kind, hooks, stream, status, worker, submits, faults>>
      BY <1>4 DEF ServePost
    <2>2. Emitted' = Emitted /\ n \in Emitted
      BY <2>1 DEF Emitted, PostsWereEmitted
    <2>3. kind[n] \in Kind /\ "http" \in Channel /\ n \in Thread
      BY <2>2, Types DEF Channel
    <2>4. /\ http' \in [Event -> {"none", "posted", "writing", "done"}]
          /\ http'[n] = "writing" /\ \A m \in Event \ {n} : http'[m] = http[m]
      BY <2>1 DEF TypeOK
    <2>5. /\ memory' \in Seq([kind : Kind, channel : Channel]) /\ Len(memory') <= DedupMemory
          /\ machine' \in Status /\ observed' \in BOOLEAN /\ stale' \in BOOLEAN
          /\ turnSeq' \in Nat /\ rearmed' \in Nat
          /\ writes' \in [Thread -> Status \cup {"nothing"}]
          /\ \A u \in Thread \ {n} : writes'[u] = writes[u]
      BY <2>1, <2>3, ApplyTypes
    <2>6. \A m \in Event : writes'[m] # "nothing" => http'[m] = "writing"
      BY <2>4, <2>5, Types DEF TypeOK
    <2> QED BY <2>1, <2>2, <2>4, <2>5, <2>6 DEF TypeOK, PostsWereEmitted, Channel
  <1>5. CASE ReadMark
    <2> DEFINE n == Head(stream)
    <2>1. /\ stream # <<>> /\ stream' = Tail(stream) /\ Apply(kind[n], "osc", Reader)
          /\ UNCHANGED <<agent, kind, hooks, http, status, worker, submits, faults>>
      BY <1>5 DEF ReadMark
    <2>2. Emitted' = Emitted /\ n \in Emitted /\ stream' \in Seq(Emitted)
      BY <2>1 DEF Emitted, TypeOK
    <2>3. kind[n] \in Kind /\ "osc" \in Channel /\ Reader \in Thread
      BY <2>2, Types DEF Channel
    <2>4. /\ memory' \in Seq([kind : Kind, channel : Channel]) /\ Len(memory') <= DedupMemory
          /\ machine' \in Status /\ observed' \in BOOLEAN /\ stale' \in BOOLEAN
          /\ turnSeq' \in Nat /\ rearmed' \in Nat
          /\ writes' \in [Thread -> Status \cup {"nothing"}]
          /\ \A u \in Thread \ {Reader} : writes'[u] = writes[u]
      BY <2>1, <2>3, ApplyTypes
    <2>5. \A m \in Event : writes'[m] # "nothing" => http'[m] = "writing"
      <3>1. \A m \in Event : m \in Thread \ {Reader}
        BY Types DEF Reader, Event
      <3>2. \A m \in Event : writes'[m] = writes[m] /\ http'[m] = http[m]
        BY <2>1, <2>4, <3>1
      <3> QED BY <3>2 DEF TypeOK
    <2> QED BY <2>1, <2>2, <2>4, <2>5 DEF TypeOK, PostsWereEmitted, Channel
  <1>6. ASSUME NEW n \in Event, PostWritten(n)
        PROVE  TypeOK' /\ PostsWereEmitted'
    <2>1. /\ http[n] = "writing" /\ http' = [http EXCEPT ![n] = "done"] /\ Written(n)
          /\ UNCHANGED <<agent, kind, hooks, stream, memory, machine, observed, stale, turnSeq,
                         worker, submits, rearmed, faults>>
      BY <1>6 DEF PostWritten
    <2>2. Emitted' = Emitted /\ n \in Emitted
      BY <2>1 DEF Emitted, PostsWereEmitted
    <2>3. /\ status' \in Status /\ writes' \in [Thread -> Status \cup {"nothing"}]
          /\ writes'[n] = "nothing" /\ \A u \in Thread \ {n} : writes'[u] = writes[u]
      BY <2>1, WrittenTypes, Types
    <2>4. /\ http' \in [Event -> {"none", "posted", "writing", "done"}]
          /\ \A m \in Event \ {n} : http'[m] = http[m]
      BY <2>1 DEF TypeOK
    <2>5. \A m \in Event : writes'[m] # "nothing" => http'[m] = "writing"
      BY <2>3, <2>4, Types DEF TypeOK
    <2> QED BY <2>1, <2>2, <2>3, <2>4, <2>5 DEF TypeOK, PostsWereEmitted
  <1>7. CASE MarkWritten
    <2>1. /\ Written(Reader)
          /\ UNCHANGED <<agent, kind, hooks, http, stream, memory, machine, observed, stale,
                         turnSeq, worker, submits, rearmed, faults>>
      BY <1>7 DEF MarkWritten
    <2>2. Emitted' = Emitted
      BY <2>1 DEF Emitted
    <2>3. /\ status' \in Status /\ writes' \in [Thread -> Status \cup {"nothing"}]
          /\ \A u \in Thread \ {Reader} : writes'[u] = writes[u]
      BY <2>1, WrittenTypes, Types
    <2>4. ASSUME NEW m \in Event, writes'[m] # "nothing"
          PROVE  http'[m] = "writing"
      <3>1. m \in Thread \ {Reader}
        BY Types DEF Reader, Event
      <3>2. writes[m] # "nothing"
        BY <2>3, <2>4, <3>1
      <3> QED BY <2>1, <3>2 DEF TypeOK
    <2> QED BY <2>1, <2>2, <2>3, <2>4 DEF TypeOK, PostsWereEmitted
  <1>8. CASE WindowPasses \/ FallbackPasses
    <2>1. /\ memory' = <<>> /\ stale' \in BOOLEAN
          /\ UNCHANGED <<agent, kind, hooks, http, stream, machine, observed, turnSeq, writes,
                         status, worker, submits, rearmed, faults>>
      BY <1>8 DEF WindowPasses, FallbackPasses, TypeOK
    <2>2. Emitted' = Emitted
      BY <2>1 DEF Emitted
    <2>3. memory' \in Seq([kind : Kind, channel : {"http", "osc"}]) /\ Len(memory') <= DedupMemory
      BY <2>1, Bounds
    <2> QED BY <2>1, <2>2, <2>3 DEF TypeOK, PostsWereEmitted
  <1>9. CASE Submit \/ MarkStarted
    <2>1. /\ worker' \in {"ready", "sent"} /\ submits' \in Nat
          /\ observed' \in BOOLEAN /\ stale' \in BOOLEAN
          /\ UNCHANGED <<agent, kind, hooks, http, stream, memory, machine, turnSeq, writes,
                         status, rearmed, faults>>
      <3>1. CASE Submit
        BY <3>1 DEF Submit, TypeOK
      <3>2. CASE MarkStarted
        BY <3>2 DEF MarkStarted, TypeOK
      <3> QED BY <1>9, <3>1, <3>2
    <2>2. Emitted' = Emitted
      BY <2>1 DEF Emitted
    <2> QED BY <2>1, <2>2 DEF TypeOK, PostsWereEmitted
  <1>10. CASE UNCHANGED vars
    BY <1>10 DEF vars, TypeOK, PostsWereEmitted, Emitted
  <1> QED BY <1>1, <1>2, <1>3, <1>4, <1>5, <1>6, <1>7, <1>8, <1>9, <1>10 DEF Next

-----------------------------------------------------------------------------
(* The copies of an event on their way.                                    *)

\* What each step does to the copies that are still to come.
LEMMA EmitDue ==
  ASSUME TypeOK, PostsWereEmitted, NEW k \in Kind, Emit(k)
  PROVE  \A ch \in Channel : Due(ch)' = Due(ch) \cup {Len(kind) + 1}
  <1> DEFINE n == Len(kind) + 1
  <1>1. /\ n \in Event /\ n \notin Emitted /\ Emitted' = Emitted \cup {n}
        /\ http'[n] = "posted" /\ \A m \in Event \ {n} : http'[m] = http[m]
        /\ hooks' = hooks \cup {n} /\ stream' = stream
    BY EmitIs DEF Emit
  <1>2. \A m : InStream(m)' <=> InStream(m)
    BY <1>1 DEF InStream
  <1> HIDE DEF n
  <1>3. Due("http")' = Due("http") \cup {n}
    BY <1>1, Types DEF Due
  <1>4. Due("osc")' = Due("osc") \cup {n}
    BY <1>1, <1>2 DEF Due
  <1> QED BY <1>3, <1>4 DEF Channel, n

LEMMA SameDue ==
  ASSUME TypeOK, UNCHANGED <<kind, hooks, stream>>,
         \A m \in Event : http'[m] = "posted" <=> http[m] = "posted"
  PROVE  \A ch \in Channel : Due(ch)' = Due(ch)
  <1>1. \A m : InStream(m)' <=> InStream(m)
    BY DEF InStream
  <1>2. Emitted' = Emitted
    BY DEF Emitted
  <1>3. Due("http")' = Due("http")
    BY <1>2, Types DEF Due
  <1>4. Due("osc")' = Due("osc")
    BY <1>1, <1>2 DEF Due
  <1> QED BY <1>3, <1>4 DEF Channel

LEMMA HookEndsDue ==
  ASSUME TypeOK, NEW n \in Event, HookEnds(n)
  PROVE  \A ch \in Channel : Due(ch)' = Due(ch)
  <1>1. /\ n \in hooks /\ hooks' = hooks \ {n} /\ stream' = Append(stream, n)
        /\ UNCHANGED <<kind, http>>
    BY DEF HookEnds
  <1>2. Emitted' = Emitted
    BY <1>1 DEF Emitted
  <1>3. \A m : InStream(m)' <=> InStream(m) \/ m = n
    <2>1. Len(stream') = Len(stream) + 1 /\ DOMAIN stream' = 1..Len(stream) + 1
      BY <1>1 DEF TypeOK
    <2>2. stream'[Len(stream) + 1] = n /\ \A i \in 1..Len(stream) : stream'[i] = stream[i]
      BY <1>1 DEF TypeOK
    <2> QED BY <2>1, <2>2, Types DEF InStream
  <1>4. Due("http")' = Due("http")
    BY <1>1, <1>2 DEF Due
  <1>5. Due("osc")' = Due("osc")
    BY <1>1, <1>2, <1>3 DEF Due
  <1> QED BY <1>4, <1>5 DEF Channel

LEMMA PostGoneDue ==
  ASSUME TypeOK, PostsWereEmitted, NEW n \in Event, http[n] = "posted",
         \E to \in {"writing", "done"} : http' = [http EXCEPT ![n] = to],
         UNCHANGED <<kind, hooks, stream>>
  PROVE  /\ n \in Due("http") /\ Due("http")' = Due("http") \ {n}
         /\ Due("osc")' = Due("osc")
  <1>1. \A m : InStream(m)' <=> InStream(m)
    BY DEF InStream
  <1>2. Emitted' = Emitted
    BY DEF Emitted
  <1>3. http'[n] # "posted" /\ \A m \in Event \ {n} : http'[m] = http[m]
    BY DEF TypeOK
  <1>4. n \in Due("http")
    BY DueIs
  <1>5. Due("http")' = Due("http") \ {n}
    BY <1>2, <1>3, Types DEF Due
  <1>6. Due("osc")' = Due("osc")
    BY <1>1, <1>2 DEF Due
  <1> QED BY <1>4, <1>5, <1>6

\* Reading a mark takes the oldest out of the output, and no other is of its event.
LEMMA ReadMarkDue ==
  ASSUME TypeOK, OneMark, ReadMark
  PROVE  /\ Head(stream) \in Emitted /\ Head(stream) \in Due("osc")
         /\ Due("osc")' = Due("osc") \ {Head(stream)}
         /\ Due("http")' = Due("http") /\ OneMark'
  <1> DEFINE n == Head(stream)
  <1>1. stream # <<>> /\ stream' = Tail(stream) /\ UNCHANGED <<kind, hooks, http>>
    BY DEF ReadMark
  <1>2. /\ Len(stream) \in Nat \ {0} /\ n = stream[1] /\ n \in Emitted
        /\ Len(stream') = Len(stream) - 1 /\ DOMAIN stream' = 1..Len(stream) - 1
        /\ \A i \in 1..Len(stream) - 1 : stream'[i] = stream[i + 1]
    BY <1>1 DEF TypeOK
  <1>3. DOMAIN stream = 1..Len(stream)
    BY Types
  <1>4. Emitted' = Emitted
    BY <1>1 DEF Emitted
  <1> HIDE DEF n
  <1>5. InStream(n) /\ n \notin hooks
    BY <1>2, <1>3 DEF InStream, OneMark
  <1>6. \A m : InStream(m)' <=> InStream(m) /\ m # n
    <2>1. ASSUME NEW m, InStream(m)'
          PROVE  InStream(m) /\ m # n
      <3>1. PICK i \in 1..Len(stream) - 1 : stream[i + 1] = m
        BY <1>2, <2>1 DEF InStream
      <3>2. i + 1 \in DOMAIN stream /\ 1 \in DOMAIN stream /\ i + 1 # 1
        BY <1>2, <1>3
      <3> QED BY <1>2, <3>1, <3>2 DEF InStream, OneMark
    <2>2. ASSUME NEW m, InStream(m), m # n
          PROVE  InStream(m)'
      <3>1. PICK i \in 1..Len(stream) : stream[i] = m
        BY <1>3, <2>2 DEF InStream
      <3>2. i - 1 \in 1..Len(stream) - 1 /\ (i - 1) + 1 = i
        BY <1>2, <2>2, <3>1
      <3> QED BY <1>2, <3>1, <3>2 DEF InStream
    <2> QED BY <2>1, <2>2
  <1>7. n \in Due("osc")
    BY <1>2, <1>5 DEF Due
  <1>8. Due("osc")' = Due("osc") \ {n}
    BY <1>1, <1>4, <1>5, <1>6 DEF Due
  <1>9. Due("http")' = Due("http")
    BY <1>1, <1>4 DEF Due
  <1>10. OneMark'
    <2>1. ASSUME NEW i \in DOMAIN stream', NEW j \in DOMAIN stream', stream'[i] = stream'[j]
          PROVE  i = j
      <3>1. /\ i + 1 \in DOMAIN stream /\ j + 1 \in DOMAIN stream
            /\ stream[i + 1] = stream[j + 1] /\ i \in Int /\ j \in Int
        BY <1>2, <1>3, <2>1
      <3>2. i + 1 = j + 1
        BY <3>1 DEF OneMark
      <3> QED BY <3>1, <3>2
    <2>2. ASSUME NEW i \in DOMAIN stream'
          PROVE  stream'[i] \notin hooks'
      <3>1. i + 1 \in DOMAIN stream /\ stream'[i] = stream[i + 1]
        BY <1>2, <1>3
      <3> QED BY <1>1, <3>1 DEF OneMark
    <2> QED BY <2>1, <2>2 DEF OneMark
  <1> QED BY <1>2, <1>7, <1>8, <1>9, <1>10 DEF n

LEMMA HookEndsMarks ==
  ASSUME TypeOK, OneMark, NEW n \in Event, HookEnds(n)
  PROVE  OneMark'
  <1>1. n \in hooks /\ hooks' = hooks \ {n} /\ stream' = Append(stream, n)
    BY DEF HookEnds
  <1>2. /\ Len(stream) \in Nat /\ DOMAIN stream' = 1..Len(stream) + 1
        /\ stream'[Len(stream) + 1] = n /\ \A i \in 1..Len(stream) : stream'[i] = stream[i]
    BY <1>1 DEF TypeOK
  <1>3. \A i \in 1..Len(stream) : stream'[i] \notin hooks
    BY <1>2, Types DEF OneMark
  <1>4. \A i \in 1..Len(stream) : stream'[i] # n
    BY <1>1, <1>3
  <1>5. \A i, j \in DOMAIN stream' : stream'[i] = stream'[j] => i = j
    BY <1>2, <1>4, Types DEF OneMark
  <1>6. \A i \in DOMAIN stream' : stream'[i] \notin hooks'
    BY <1>1, <1>2, <1>3
  <1> QED BY <1>5, <1>6 DEF OneMark

\* Nothing is emitted and no copy is put on its way.
LEMMA NothingNew ==
  ASSUME TypeOK, CloseTogether, PostComesFirst, UNCHANGED <<kind, hooks, faults>>,
         \A ch \in Channel : Due(ch)' \subseteq Due(ch)
  PROVE  CloseTogether' /\ PostComesFirst'
  BY DEF CloseTogether, PostComesFirst, Channel

LEMMA NextMarks ==
  ASSUME TypeOK, PostsWereEmitted, OneMark, CloseTogether, PostComesFirst, [Next]_vars
  PROVE  OneMark' /\ CloseTogether' /\ PostComesFirst'
  <1>1. CASE Prompt \/ ToolBefore \/ ToolAfter \/ TurnEnd
    <2> DEFINE n == Len(kind) + 1
    <2>1. PICK k \in Kind : Emit(k)
      BY <1>1 DEF Prompt, ToolBefore, ToolAfter, TurnEnd, Kind
    <2>2. /\ Close(n) /\ n \notin Emitted /\ Len(kind') = n /\ hooks' = hooks \cup {n}
          /\ UNCHANGED <<stream, faults>>
      BY <2>1, EmitIs DEF Emit
    <2>3. \A ch \in Channel : Due(ch)' = Due(ch) \cup {n}
      BY <2>1, EmitDue
    <2>4. OneMark'
      BY <2>2, Types DEF OneMark
    <2>5. n \in Nat
      BY Types
    <2>6. n < n + Skew
      BY <2>5, Bounds
    <2>7. \A ch \in Channel : \A o \in Due(ch) : n < o + Skew
      BY <2>2, DueIs DEF Close, Channel
    <2> HIDE DEF n
    <2>8. CloseTogether'
      BY <2>2, <2>3, <2>6, <2>7 DEF CloseTogether
    <2>9. PostComesFirst'
      BY <2>2, <2>3 DEF PostComesFirst, Channel
    <2> QED BY <2>4, <2>8, <2>9
  <1>2. ASSUME NEW n \in Event, HookEnds(n)
        PROVE  OneMark' /\ CloseTogether' /\ PostComesFirst'
    <2>1. \A ch \in Channel : Due(ch)' = Due(ch)
      BY <1>2, HookEndsDue
    <2>2. kind' = kind /\ hooks' = hooks \ {n} /\ (faults' = 0 => faults = 0 /\ http[n] = "done")
      BY <1>2, Bounds DEF HookEnds, Fault, TypeOK
    <2>3. CloseTogether'
      BY <2>1, <2>2 DEF CloseTogether
    <2>4. PostComesFirst'
      <3>1. http[n] = "done" => n \notin Due("http")
        BY DueIs
      <3> QED BY <2>1, <2>2, <3>1 DEF PostComesFirst, Channel
    <2> QED BY <1>2, <2>3, <2>4, HookEndsMarks
  <1>3. ASSUME NEW n \in Event, PostFails(n)
        PROVE  OneMark' /\ CloseTogether' /\ PostComesFirst'
    <2>1. /\ http[n] = "posted" /\ http' = [http EXCEPT ![n] = "done"]
          /\ faults' # 0 /\ UNCHANGED <<kind, hooks, stream>>
      BY <1>3, Bounds DEF PostFails, Fault, TypeOK
    <2>2. \A ch \in Channel : Due(ch)' \subseteq Due(ch)
      BY <2>1, PostGoneDue DEF Channel
    <2> QED BY <2>1, <2>2 DEF OneMark, CloseTogether, PostComesFirst
  <1>4. ASSUME NEW n \in Event, ServePost(n)
        PROVE  OneMark' /\ CloseTogether' /\ PostComesFirst'
    <2>1. /\ http[n] = "posted" /\ http' = [http EXCEPT ![n] = "writing"]
          /\ UNCHANGED <<kind, hooks, stream, faults>>
      BY <1>4 DEF ServePost
    <2>2. \A ch \in Channel : Due(ch)' \subseteq Due(ch)
      BY <2>1, PostGoneDue DEF Channel
    <2> QED BY <2>1, <2>2, NothingNew DEF OneMark
  <1>5. CASE ReadMark
    <2>1. UNCHANGED <<kind, hooks, faults>>
      BY <1>5 DEF ReadMark
    <2>2. \A ch \in Channel : Due(ch)' \subseteq Due(ch)
      BY <1>5, ReadMarkDue DEF Channel
    <2> QED BY <1>5, <2>1, <2>2, NothingNew, ReadMarkDue
  <1>6. CASE \/ MarkWritten \/ WindowPasses \/ FallbackPasses \/ Submit \/ MarkStarted
             \/ (\E n \in Event : PostWritten(n)) \/ UNCHANGED vars
    <2>1. UNCHANGED <<kind, hooks, stream, faults>>
      BY <1>6 DEF MarkWritten, WindowPasses, FallbackPasses, Submit, MarkStarted, PostWritten, vars
    <2>2. \A m \in Event : http'[m] = "posted" <=> http[m] = "posted"
      BY <1>6 DEF MarkWritten, WindowPasses, FallbackPasses, Submit, MarkStarted, PostWritten,
                  vars, TypeOK
    <2>3. \A ch \in Channel : Due(ch)' = Due(ch)
      BY <2>1, <2>2, SameDue
    <2> QED BY <2>1, <2>3, NothingNew DEF OneMark
  <1> QED BY <1>1, <1>2, <1>3, <1>4, <1>5, <1>6 DEF Next

-----------------------------------------------------------------------------
(* The ledger of applied events.                                           *)

LEMMA LedgerIs ==
  ASSUME NEW applied, NEW src, Ledger(applied, src)
  PROVE  /\ turnSeq = Cardinality({n \in applied : kind[n] = "end"})
         /\ \A i, j \in DOMAIN memory : i < j => src[i] # src[j] /\ src[i] < src[j] + Skew
         /\ faults = 0 => /\ \A n \in Emitted \ Due("http") : n \in applied
                          /\ \A i \in DOMAIN memory : memory[i].channel = "http"
  BY DEF Ledger

LEMMA LedgerNames ==
  ASSUME NEW applied, NEW src, Ledger(applied, src), NEW i \in DOMAIN memory
  PROVE  memory[i].kind = kind[src[i]]
  BY DEF Ledger

LEMMA LedgerRemembers ==
  ASSUME NEW applied, NEW src, Ledger(applied, src), NEW ch \in Channel,
         NEW n \in applied \cap Due(ch)
  PROVE  \E i \in DOMAIN memory : src[i] = n /\ memory[i].channel # ch
  BY DEF Ledger

\* The memory is long enough: the oldest of a full memory has both copies behind it
\* when a new event comes.
LEMMA OldestIsDone ==
  ASSUME TypeOK, CloseTogether, NEW applied \in SUBSET Emitted,
         NEW src \in [DOMAIN memory -> applied], Ledger(applied, src),
         Len(memory) = DedupMemory, NEW c \in Channel, src[1] \in Due(c),
         NEW ch \in Channel, NEW n \in Due(ch), n \in Emitted, n \notin applied
  PROVE  FALSE
  <1> DEFINE a == src[1]
             S == 1..DedupMemory + 1
             T == a - (Skew - 1) .. a + (Skew - 1)
             f == [j \in S |-> IF j = DedupMemory + 1 THEN n ELSE src[j]]
  <1>1. DedupMemory \in Nat \ {0} /\ Skew \in Nat \ {0} /\ 2 * (Skew - 1) < DedupMemory
    BY Bounds
  <1>2. /\ DOMAIN memory = 1..DedupMemory /\ Emitted = 1..Len(kind) /\ Len(kind) \in Nat
        /\ \A j \in 1..DedupMemory : src[j] \in applied /\ src[j] \in Emitted
    <2>1. DOMAIN memory = 1..DedupMemory /\ Emitted = 1..Len(kind) /\ Len(kind) \in Nat
      BY Types
    <2> QED BY <2>1
  <1>3. a \in 1..Len(kind) /\ n \in 1..Len(kind) /\ a \in Nat /\ n \in Nat
    BY <1>1, <1>2
  <1>4. Len(kind) < a + Skew /\ Len(kind) < n + Skew
    BY DEF CloseTogether
  <1>5. \A i, j \in 1..DedupMemory : i < j => src[i] # src[j] /\ src[i] < src[j] + Skew
    BY <1>2, LedgerIs
  <1>6. \A j \in 1..DedupMemory : src[j] \in T
    <2>1. ASSUME NEW j \in 1..DedupMemory
          PROVE  a < src[j] + Skew /\ src[j] \in 1..Len(kind)
      <3>1. CASE j = 1
        BY <1>1, <1>2, <1>3, <3>1
      <3>2. CASE j # 1
        BY <1>1, <1>2, <1>5, <3>2
      <3> QED BY <3>1, <3>2
    <2> HIDE DEF a
    <2> QED BY <1>1, <1>2, <1>3, <1>4, <2>1
  <1>7. n \in T
    <2> HIDE DEF a
    <2> QED BY <1>1, <1>2, <1>3, <1>4
  <1>8. f \in [S -> T]
    <2> HIDE DEF T
    <2> QED BY <1>1, <1>6, <1>7
  <1>9. \A x, y \in S : x # y => f[x] # f[y]
    <2>1. ASSUME NEW x \in S, NEW y \in S, x < y
          PROVE  f[x] # f[y]
      <3>1. x \in 1..DedupMemory /\ f[x] = src[x]
        BY <1>1, <2>1
      <3>2. CASE y = DedupMemory + 1
        BY <1>2, <3>1, <3>2
      <3>3. CASE y # DedupMemory + 1
        <4>1. y \in 1..DedupMemory /\ f[y] = src[y]
          BY <1>1, <3>3
        <4> QED BY <1>5, <2>1, <3>1, <4>1
      <3> QED BY <3>2, <3>3
    <2>2. \A x, y \in S : x # y => x < y \/ y < x
      BY <1>1
    <2> QED BY <2>1, <2>2
  <1>10. IsFiniteSet(S) /\ Cardinality(S) = DedupMemory + 1
    BY <1>1, FS_Interval
  <1>11. IsFiniteSet(T) /\ Cardinality(T) = 2 * (Skew - 1) + 1
    <2> HIDE DEF a
    <2>1. a - (Skew - 1) \in Int /\ a + (Skew - 1) \in Int /\ a - (Skew - 1) <= a + (Skew - 1)
      BY <1>1, <1>3
    <2>2. (a + (Skew - 1)) - (a - (Skew - 1)) + 1 = 2 * (Skew - 1) + 1
      BY <1>1, <1>3
    <2>3. /\ IsFiniteSet(T)
          /\ Cardinality(T) = IF a - (Skew - 1) > a + (Skew - 1) THEN 0
                              ELSE (a + (Skew - 1)) - (a - (Skew - 1)) + 1
      BY <2>1, FS_Interval
    <2> HIDE DEF T
    <2> QED BY <1>1, <1>3, <2>1, <2>2, <2>3
  <1>12. Cardinality(T) < Cardinality(S)
    BY <1>1, <1>10, <1>11
  <1> HIDE DEF S, T, f
  <1> QED BY <1>8, <1>9, <1>10, <1>11, <1>12, FS_PigeonHole

\* Steps that apply nothing.
LEMMA LedgerStays ==
  ASSUME TypeOK, AppliedOnce, UNCHANGED <<memory, turnSeq>>, Emitted \subseteq Emitted',
         \A n \in Emitted : kind'[n] = kind[n],
         \A ch \in Channel : Due(ch)' \cap Emitted \subseteq Due(ch),
         faults' = 0 => faults = 0 /\ Emitted' \ Due("http")' \subseteq Emitted \ Due("http")
  PROVE  AppliedOnce'
  <1>1. PICK applied \in SUBSET Emitted :
            \E src \in [DOMAIN memory -> applied] : Ledger(applied, src)
    BY DEF AppliedOnce
  <1>2. PICK src \in [DOMAIN memory -> applied] : Ledger(applied, src)
    BY <1>1
  <1>3. \A i \in DOMAIN memory : src[i] \in Emitted
    BY <1>2
  <1>4. {n \in applied : kind'[n] = "end"} = {n \in applied : kind[n] = "end"}
    OBVIOUS
  <1>5. turnSeq' = Cardinality({n \in applied : kind'[n] = "end"})
    BY <1>2, <1>4, LedgerIs
  <1>6. \A i \in DOMAIN memory' : memory'[i].kind = kind'[src[i]]
    <2> SUFFICES ASSUME NEW i \in DOMAIN memory
                 PROVE  memory[i].kind = kind'[src[i]]
      OBVIOUS
    <2>1. memory[i].kind = kind[src[i]]
      BY <1>2, LedgerNames
    <2> QED BY <1>3, <2>1
  <1>7. \A i, j \in DOMAIN memory' : i < j => src[i] # src[j] /\ src[i] < src[j] + Skew
    BY <1>2, LedgerIs
  <1>8. \A ch \in Channel : \A n \in applied \cap Due(ch)' :
           \E i \in DOMAIN memory' : src[i] = n /\ memory'[i].channel # ch
    <2> SUFFICES ASSUME NEW ch \in Channel, NEW n \in applied \cap Due(ch)'
                 PROVE  \E i \in DOMAIN memory : src[i] = n /\ memory[i].channel # ch
      OBVIOUS
    <2>1. n \in applied \cap Due(ch)
      OBVIOUS
    <2> QED BY <1>2, <2>1, LedgerRemembers
  <1>9. faults' = 0 => /\ \A n \in Emitted' \ Due("http")' : n \in applied
                       /\ \A i \in DOMAIN memory' : memory'[i].channel = "http"
    BY <1>2, LedgerIs
  <1>10. Ledger(applied, src)'
    BY <1>5, <1>6, <1>7, <1>8, <1>9 DEF Ledger
  <1> QED BY <1>10 DEF AppliedOnce

\* With every copy come there is nothing to remember.
LEMMA LedgerForgets ==
  ASSUME TypeOK, PostsWereEmitted, AppliedOnce, Outstanding = {}, memory' = <<>>,
         UNCHANGED <<kind, hooks, http, stream, turnSeq, faults>>
  PROVE  AppliedOnce'
  <1>1. PICK applied \in SUBSET Emitted :
            \E src \in [DOMAIN memory -> applied] : Ledger(applied, src)
    BY DEF AppliedOnce
  <1>2. PICK src \in [DOMAIN memory -> applied] : Ledger(applied, src)
    BY <1>1
  <1>3. \A ch \in Channel : Due(ch)' = {} /\ Due(ch) = {}
    <2>1. \A ch \in Channel : Due(ch)' = Due(ch)
      BY SameDue
    <2> QED BY <2>1, DueIs DEF Channel
  <1>4. Emitted' = Emitted
    BY DEF Emitted
  <1>5. DOMAIN memory' = {}
    OBVIOUS
  <1>6. PICK none : none \in [{} -> applied]
    <2>1. [i \in {} |-> 0] \in [{} -> applied]
      OBVIOUS
    <2> QED BY <2>1
  <1>7. turnSeq' = Cardinality({n \in applied : kind'[n] = "end"})
    BY <1>2, LedgerIs
  <1>8. faults' = 0 => \A n \in Emitted' \ Due("http")' : n \in applied
    BY <1>2, <1>3, <1>4, LedgerIs DEF Channel
  <1>9. Ledger(applied, none)'
    BY <1>3, <1>5, <1>7, <1>8 DEF Ledger
  <1> QED BY <1>4, <1>5, <1>6, <1>9 DEF AppliedOnce

\* The copy of event n over ch arrives.
LEMMA DropKeepsLedger ==
  ASSUME TypeOK, AppliedOnce, NEW n \in Emitted, NEW ch \in Channel, Drop,
         IsCopy(kind[n], ch), UNCHANGED <<kind, faults>>, Due(ch)' = Due(ch) \ {n},
         \A c \in Channel \ {ch} : Due(c)' = Due(c)
  PROVE  AppliedOnce'
  <1>1. Emitted' = Emitted /\ UNCHANGED <<memory, turnSeq>>
    BY DEF Emitted, Drop
  <1>2. \A c \in Channel : Due(c)' \cap Emitted \subseteq Due(c)
    OBVIOUS
  <1>3. faults = 0 => Emitted \ Due("http")' \subseteq Emitted \ Due("http")
    <2>1. CASE ch = "http"
      <3>1. PICK i \in DOMAIN memory : memory[i].channel # "http"
        BY <2>1 DEF IsCopy
      <3>2. PICK applied \in SUBSET Emitted :
                \E src \in [DOMAIN memory -> applied] : Ledger(applied, src)
        BY DEF AppliedOnce
      <3>3. faults # 0
        BY <3>1, <3>2, LedgerIs
      <3> QED BY <3>3
    <2>2. CASE ch # "http"
      BY <2>2 DEF Channel
    <2> QED BY <2>1, <2>2
  <1> QED BY <1>1, <1>2, <1>3, LedgerStays

LEMMA TakeKeepsLedger ==
  ASSUME TypeOK, CloseTogether, AppliedOnce, NEW n \in Emitted, NEW ch \in Channel, NEW t,
         n \in Due(ch), ~IsCopy(kind[n], ch), Take(kind[n], ch, t), UNCHANGED <<kind, faults>>,
         Due(ch)' = Due(ch) \ {n}, \A c \in Channel \ {ch} : Due(c)' = Due(c),
         faults = 0 /\ ch = "osc" => n \notin Due("http")
  PROVE  AppliedOnce'
  <1>1. PICK applied \in SUBSET Emitted :
            \E src \in [DOMAIN memory -> applied] : Ledger(applied, src)
    BY DEF AppliedOnce
  <1>2. PICK src \in [DOMAIN memory -> applied] : Ledger(applied, src)
    BY <1>1
  <1>3. \A c \in Channel : \A m \in applied \cap Due(c) :
           \E i \in DOMAIN memory : src[i] = m /\ memory[i].channel # c
    BY <1>2, LedgerRemembers
  <1>4. n \notin applied
    <2>1. ASSUME n \in applied
          PROVE  FALSE
      <3>1. PICK i \in DOMAIN memory : src[i] = n /\ memory[i].channel # ch
        BY <1>3, <2>1
      <3>2. memory[i].kind = kind[n]
        BY <1>2, <3>1, LedgerNames
      <3> QED BY <3>1, <3>2 DEF IsCopy
    <2> QED BY <2>1
  <1>5. kind[n] \in Kind /\ DOMAIN memory = 1..Len(memory) /\ Len(memory) \in Nat
    BY Types
  <1>6. PICK gone \in {0, 1} :
            /\ gone = 1 => Len(memory) = DedupMemory
            /\ gone <= Len(memory)
            /\ memory' \in Seq([kind : Kind, channel : Channel])
            /\ Len(memory') = Len(memory) - gone + 1
            /\ \A i \in 1..Len(memory) - gone : memory'[i] = memory[i + gone]
            /\ memory'[Len(memory) - gone + 1] = [kind |-> kind[n], channel |-> ch]
    <2>1. PICK gone \in {0, 1} :
              /\ gone = 1 => Len(memory) = DedupMemory
              /\ Len(memory) - gone < DedupMemory /\ gone <= Len(memory)
              /\ Remembered(kind[n], ch) \in Seq([kind : Kind, channel : Channel])
              /\ Len(Remembered(kind[n], ch)) = Len(memory) - gone + 1
              /\ \A i \in 1..Len(memory) - gone : Remembered(kind[n], ch)[i] = memory[i + gone]
              /\ Remembered(kind[n], ch)[Len(memory) - gone + 1]
                    = [kind |-> kind[n], channel |-> ch]
      BY <1>5, RememberedIs, Zenon
    <2>2. memory' = Remembered(kind[n], ch)
      BY DEF Take
    <2> WITNESS gone \in {0, 1}
    <2> QED BY <2>1, <2>2
  <1>7. PICK len \in Nat : len = Len(memory) - gone
    <2>1. Len(memory) - gone \in Nat
      BY <1>5, <1>6
    <2> QED BY <2>1
  <1>8. /\ DOMAIN memory' = 1..len + 1 /\ memory'[len + 1].kind = kind[n]
        /\ memory'[len + 1].channel = ch
        /\ \A i \in 1..len : i + gone \in DOMAIN memory /\ memory'[i] = memory[i + gone]
    <2>1. DOMAIN memory' = 1..len + 1
      BY <1>6, <1>7
    <2>2. memory'[len + 1] = [kind |-> kind[n], channel |-> ch]
      BY <1>6, <1>7
    <2>3. \A i \in 1..len : i + gone \in DOMAIN memory /\ memory'[i] = memory[i + gone]
      BY <1>5, <1>6, <1>7
    <2> QED BY <2>1, <2>2, <2>3
  <1>9. PICK next : next = [i \in 1..len + 1 |-> IF i = len + 1 THEN n ELSE src[i + gone]]
    OBVIOUS
  <1>10. /\ next \in [1..len + 1 -> applied \cup {n}] /\ next[len + 1] = n
         /\ \A i \in 1..len : next[i] = src[i + gone] /\ next[i] \in applied
    <2>1. \A i \in 1..len : src[i + gone] \in applied
      BY <1>8
    <2>2. len + 1 \in 1..len + 1 /\ \A i \in 1..len : i \in 1..len + 1 /\ i # len + 1
      BY <1>7
    <2>3. \A i \in 1..len + 1 : i # len + 1 => i \in 1..len
      BY <1>7
    <2>4. \A i \in 1..len + 1 : next[i] = IF i = len + 1 THEN n ELSE src[i + gone]
      BY <1>9
    <2>5. \A i \in 1..len + 1 : next[i] \in applied \cup {n}
      BY <2>1, <2>3, <2>4
    <2> QED BY <1>9, <2>1, <2>2, <2>4, <2>5
  <1>11. turnSeq' = Cardinality({m \in applied \cup {n} : kind'[m] = "end"})
    <2> DEFINE ends == {m \in applied : kind[m] = "end"}
    <2>1. turnSeq = Cardinality(ends) /\ turnSeq' = IF kind[n] = "end" THEN turnSeq + 1 ELSE turnSeq
      BY <1>2, LedgerIs DEF Take
    <2>2. IsFiniteSet(ends)
      <3>1. IsFiniteSet(Emitted)
        BY Types, FS_Interval
      <3>2. ends \in SUBSET Emitted
        OBVIOUS
      <3> HIDE DEF ends
      <3> QED BY <3>1, <3>2, FS_Subset
    <2>3. CASE kind[n] = "end"
      <3>1. {m \in applied \cup {n} : kind'[m] = "end"} = ends \cup {n} /\ n \notin ends
        BY <1>4, <2>3
      <3> HIDE DEF ends
      <3>2. Cardinality(ends \cup {n}) = Cardinality(ends) + 1
        BY <2>2, <3>1, FS_AddElement
      <3> QED BY <2>1, <2>3, <3>1, <3>2
    <2>4. CASE kind[n] # "end"
      <3>1. {m \in applied \cup {n} : kind'[m] = "end"} = ends
        BY <1>4, <2>4
      <3> QED BY <2>1, <2>4, <3>1
    <2> QED BY <2>3, <2>4
  <1>12. \A i \in DOMAIN memory' : memory'[i].kind = kind'[next[i]]
    <2>1. ASSUME NEW i \in 1..len
          PROVE  memory'[i].kind = kind[next[i]]
      <3>1. i + gone \in DOMAIN memory
        BY <1>8
      <3>2. memory[i + gone].kind = kind[src[i + gone]]
        BY <1>2, <3>1, LedgerNames
      <3> QED BY <1>8, <1>10, <3>2
    <2>2. memory'[len + 1].kind = kind[next[len + 1]]
      BY <1>8, <1>10
    <2> QED BY <1>7, <1>8, <2>1, <2>2
  <1>13. \A i, j \in DOMAIN memory' : i < j => next[i] # next[j] /\ next[i] < next[j] + Skew
    <2> SUFFICES ASSUME NEW i \in 1..len + 1, NEW j \in 1..len + 1, i < j
                 PROVE  next[i] # next[j] /\ next[i] < next[j] + Skew
      BY <1>8
    <2>1. /\ i \in 1..len /\ i + gone \in DOMAIN memory
          /\ next[i] = src[i + gone] /\ next[i] \in applied
      BY <1>7, <1>8, <1>10
    <2>2. CASE j = len + 1
      <3>1. next[i] \in 1..Len(kind) /\ Len(kind) \in Nat /\ Len(kind) < n + Skew /\ n \in Nat
        BY <2>1, Types DEF CloseTogether
      <3>2. next[i] < n + Skew
        BY <3>1, Bounds
      <3> QED BY <1>4, <1>10, <2>1, <2>2, <3>2
    <2>3. CASE j # len + 1
      <3>1. j \in 1..len /\ i + gone < j + gone
        <4>1. len \in Nat /\ gone \in Nat
          BY <1>7
        <4> QED BY <2>3, <4>1
      <3>2. j + gone \in DOMAIN memory /\ next[j] = src[j + gone]
        BY <1>8, <1>10, <3>1
      <3>3. src[i + gone] # src[j + gone] /\ src[i + gone] < src[j + gone] + Skew
        BY <1>2, <2>1, <3>1, <3>2, LedgerIs
      <3> QED BY <2>1, <3>2, <3>3
    <2> QED BY <2>2, <2>3
  <1>14. ASSUME NEW c \in Channel, NEW m \in (applied \cup {n}) \cap Due(c)'
         PROVE  \E i \in DOMAIN memory' : next[i] = m /\ memory'[i].channel # c
    <2>1. CASE m = n
      <3>1. c # ch
        BY <1>14, <2>1
      <3>2. len + 1 \in DOMAIN memory'
        BY <1>7, <1>8
      <3> QED BY <1>8, <1>10, <2>1, <3>1, <3>2
    <2>2. CASE m # n
      <3>1. m \in applied \cap Due(c)
        BY <1>14, <2>2
      <3>2. PICK i \in DOMAIN memory : src[i] = m /\ memory[i].channel # c
        BY <1>3, <3>1
      <3>3. CASE i > gone
        <4>1. i - gone \in 1..len /\ (i - gone) + gone = i
          BY <1>5, <1>6, <1>7, <3>3
        <4>2. next[i - gone] = m /\ memory'[i - gone].channel # c
          BY <1>8, <1>10, <3>2, <4>1
        <4>3. i - gone \in DOMAIN memory'
          BY <1>7, <1>8, <4>1
        <4> QED BY <4>2, <4>3
      <3>4. CASE ~(i > gone)
        <4>1. i = 1 /\ gone = 1
          BY <1>5, <1>6, <3>4
        <4>2. Len(memory) = DedupMemory /\ src[1] \in Due(c)
          BY <1>6, <3>1, <3>2, <4>1
        <4> QED BY <1>2, <1>4, <4>2, OldestIsDone
      <3> QED BY <3>3, <3>4
    <2> QED BY <2>1, <2>2
  <1>15. ASSUME faults = 0
         PROVE  /\ \A m \in Emitted' \ Due("http")' : m \in applied \cup {n}
                /\ \A i \in DOMAIN memory' : memory'[i].channel = "http"
    <2>1. /\ \A m \in Emitted \ Due("http") : m \in applied
          /\ \A i \in DOMAIN memory : memory[i].channel = "http"
      BY <1>2, <1>15, LedgerIs
    <2>2. Emitted' = Emitted
      BY DEF Emitted
    <2>3. ch = "http"
      BY <1>4, <1>15, <2>1 DEF Channel
    <2>4. \A i \in 1..len : memory'[i].channel = "http"
      BY <1>8, <2>1
    <2>5. \A i \in DOMAIN memory' : memory'[i].channel = "http"
      <3>1. \A i \in 1..len + 1 : i # len + 1 => i \in 1..len
        BY <1>7
      <3> QED BY <1>8, <2>3, <2>4, <3>1
    <2> QED BY <2>1, <2>2, <2>3, <2>5
  <1>16. Ledger(applied \cup {n}, next)'
    BY <1>11, <1>12, <1>13, <1>14, <1>15 DEF Ledger
  <1>17. applied \cup {n} \in SUBSET Emitted' /\ next \in [DOMAIN memory' -> applied \cup {n}]
    BY <1>8, <1>10 DEF Emitted
  <1> QED BY <1>16, <1>17 DEF AppliedOnce

LEMMA ApplyKeepsLedger ==
  ASSUME TypeOK, CloseTogether, AppliedOnce, NEW n \in Emitted, NEW ch \in Channel, NEW t,
         n \in Due(ch), Apply(kind[n], ch, t), UNCHANGED <<kind, faults>>,
         Due(ch)' = Due(ch) \ {n}, \A c \in Channel \ {ch} : Due(c)' = Due(c),
         faults = 0 /\ ch = "osc" => n \notin Due("http")
  PROVE  AppliedOnce'
  <1>1. CASE IsCopy(kind[n], ch) /\ Drop
    BY <1>1, DropKeepsLedger
  <1>2. CASE ~IsCopy(kind[n], ch) /\ Take(kind[n], ch, t)
    BY <1>2, TakeKeepsLedger
  <1> QED BY <1>1, <1>2, ApplyIs

-----------------------------------------------------------------------------
(* The invariant and the theorems.                                         *)

LEMMA NextKeepsLedger ==
  ASSUME TypeOK, PostsWereEmitted, OneMark, CloseTogether, PostComesFirst, AppliedOnce,
         [Next]_vars
  PROVE  AppliedOnce'
  <1>1. CASE Prompt \/ ToolBefore \/ ToolAfter \/ TurnEnd
    <2> DEFINE n == Len(kind) + 1
    <2>1. PICK k \in Kind : Emit(k)
      BY <1>1 DEF Prompt, ToolBefore, ToolAfter, TurnEnd, Kind
    <2>2. /\ n \notin Emitted /\ Emitted' = Emitted \cup {n}
          /\ \A m \in Emitted : kind'[m] = kind[m]
          /\ UNCHANGED <<memory, turnSeq, faults>>
      BY <2>1, EmitIs DEF Emit
    <2>3. \A ch \in Channel : Due(ch)' = Due(ch) \cup {n}
      BY <2>1, EmitDue
    <2> HIDE DEF n
    <2>4. \A ch \in Channel : Due(ch)' \cap Emitted \subseteq Due(ch)
      BY <2>2, <2>3
    <2>5. Emitted' \ Due("http")' \subseteq Emitted \ Due("http")
      BY <2>2, <2>3 DEF Channel
    <2> QED BY <2>2, <2>4, <2>5, LedgerStays
  <1>2. ASSUME NEW n \in Event, HookEnds(n)
        PROVE  AppliedOnce'
    <2>1. \A ch \in Channel : Due(ch)' = Due(ch)
      BY <1>2, HookEndsDue
    <2>2. UNCHANGED <<kind, memory, turnSeq>> /\ (faults' = 0 => faults = 0)
      BY <1>2, Bounds DEF HookEnds, Fault, TypeOK
    <2>3. Emitted' = Emitted
      BY <2>2 DEF Emitted
    <2> QED BY <2>1, <2>2, <2>3, LedgerStays DEF Channel
  <1>3. ASSUME NEW n \in Event, PostFails(n)
        PROVE  AppliedOnce'
    <2>1. /\ http[n] = "posted" /\ http' = [http EXCEPT ![n] = "done"]
          /\ faults' # 0 /\ UNCHANGED <<kind, hooks, stream, memory, turnSeq>>
      BY <1>3, Bounds DEF PostFails, Fault, TypeOK
    <2>2. \A ch \in Channel : Due(ch)' \subseteq Due(ch)
      BY <2>1, PostGoneDue DEF Channel
    <2>3. Emitted' = Emitted
      BY <2>1 DEF Emitted
    <2> QED BY <2>1, <2>2, <2>3, LedgerStays
  <1>4. ASSUME NEW n \in Event, ServePost(n)
        PROVE  AppliedOnce'
    <2>1. /\ http[n] = "posted" /\ http' = [http EXCEPT ![n] = "writing"]
          /\ Apply(kind[n], "http", n) /\ UNCHANGED <<kind, hooks, stream, faults>>
      BY <1>4 DEF ServePost
    <2>2. /\ n \in Due("http") /\ Due("http")' = Due("http") \ {n}
          /\ Due("osc")' = Due("osc")
      BY <2>1, PostGoneDue
    <2>3. n \in Emitted /\ "http" \in Channel /\ \A c \in Channel \ {"http"} : Due(c)' = Due(c)
      BY <2>2, DueIs DEF Channel
    <2> QED BY <2>1, <2>2, <2>3, ApplyKeepsLedger
  <1>5. CASE ReadMark
    <2> DEFINE n == Head(stream)
    <2>1. /\ n \in Emitted /\ n \in Due("osc") /\ Due("osc")' = Due("osc") \ {n}
          /\ Due("http")' = Due("http")
      BY <1>5, ReadMarkDue
    <2>2. Apply(kind[n], "osc", Reader) /\ UNCHANGED <<kind, faults>> /\ stream # <<>>
      BY <1>5 DEF ReadMark
    <2>3. "osc" \in Channel /\ \A c \in Channel \ {"osc"} : Due(c)' = Due(c)
      BY <2>1 DEF Channel
    <2>4. faults = 0 => n \notin Due("http")
      <3>1. 1 \in DOMAIN stream /\ n = stream[1]
        BY <2>2 DEF TypeOK
      <3> HIDE DEF n
      <3>2. n \notin hooks
        BY <3>1 DEF OneMark
      <3> QED BY <3>2 DEF PostComesFirst
    <2>5. PICK m : m = n
      OBVIOUS
    <2> HIDE DEF n
    <2> QED BY <2>1, <2>2, <2>3, <2>4, <2>5, ApplyKeepsLedger
  <1>6. CASE WindowPasses \/ FallbackPasses
    <2>1. /\ Outstanding = {} /\ memory' = <<>>
          /\ UNCHANGED <<kind, hooks, http, stream, turnSeq, faults>>
      BY <1>6 DEF WindowPasses, FallbackPasses
    <2> QED BY <2>1, LedgerForgets
  <1>7. CASE \/ MarkWritten \/ Submit \/ MarkStarted
             \/ (\E n \in Event : PostWritten(n)) \/ UNCHANGED vars
    <2>1. UNCHANGED <<kind, hooks, stream, faults, memory, turnSeq>>
      BY <1>7 DEF MarkWritten, Submit, MarkStarted, PostWritten, vars
    <2>2. \A m \in Event : http'[m] = "posted" <=> http[m] = "posted"
      BY <1>7 DEF MarkWritten, Submit, MarkStarted, PostWritten, vars, TypeOK
    <2>3. \A ch \in Channel : Due(ch)' = Due(ch)
      BY <2>1, <2>2, SameDue
    <2>4. Emitted' = Emitted
      BY <2>1 DEF Emitted
    <2> QED BY <2>1, <2>3, <2>4, LedgerStays DEF Channel
  <1> QED BY <1>1, <1>2, <1>3, <1>4, <1>5, <1>6, <1>7 DEF Next

LEMMA ApplyIsPaid ==
  ASSUME TypeOK, SubmitsArePaid, NEW k \in Kind, NEW ch, NEW t, Apply(k, ch, t),
         UNCHANGED <<worker, submits>>
  PROVE  SubmitsArePaid'
  <1>1. CASE Drop
    BY <1>1 DEF Drop, SubmitsArePaid
  <1>2. CASE Take(k, ch, t)
    <2>1. /\ machine' = Moved(k) /\ submits \in Nat /\ turnSeq \in Nat /\ rearmed \in Nat
          /\ turnSeq' = IF k = "end" THEN turnSeq + 1 ELSE turnSeq
          /\ rearmed' = IF k # "end" /\ Moved(k) = "Idle" THEN rearmed + 1 ELSE rearmed
      BY <1>2 DEF Take, TypeOK
    <2>2. CASE k = "end" \/ Moved(k) = "Idle"
      <3>1. turnSeq' + rearmed' = turnSeq + rearmed + 1
        BY <2>1, <2>2
      <3>2. submits <= turnSeq + rearmed
        BY DEF SubmitsArePaid
      <3>3. submits' < turnSeq' + rearmed' /\ submits' <= turnSeq' + rearmed'
        BY <2>1, <3>1, <3>2
      <3> QED BY <3>3 DEF SubmitsArePaid
    <2>3. CASE ~(k = "end" \/ Moved(k) = "Idle")
      <3>1. turnSeq' = turnSeq /\ rearmed' = rearmed /\ machine' # "Idle"
        BY <2>1, <2>3
      <3> QED BY <3>1 DEF SubmitsArePaid
    <2> QED BY <2>2, <2>3
  <1> QED BY <1>1, <1>2, ApplyIs

LEMMA NextPays ==
  ASSUME TypeOK, PostsWereEmitted, SubmitsArePaid, [Next]_vars
  PROVE  SubmitsArePaid'
  <1>1. CASE Submit
    <2>1. /\ worker = "ready" /\ worker' = "sent"
          /\ submits' = IF ObservedIdle THEN submits + 1 ELSE submits
          /\ UNCHANGED <<turnSeq, rearmed>>
      BY <1>1 DEF Submit
    <2>2. submits' <= turnSeq + rearmed
      <3>1. submits \in Nat /\ turnSeq \in Nat /\ rearmed \in Nat
        BY DEF TypeOK
      <3>2. CASE ObservedIdle
        BY <2>1, <3>1, <3>2 DEF ObservedIdle, SubmitsArePaid
      <3>3. CASE ~ObservedIdle
        BY <2>1, <3>3 DEF SubmitsArePaid
      <3> QED BY <3>2, <3>3
    <2> QED BY <2>1, <2>2 DEF SubmitsArePaid
  <1>2. CASE MarkStarted
    <2>1. observed' = FALSE
      BY <1>2 DEF MarkStarted
    <2>2. UNCHANGED <<submits, turnSeq, rearmed>>
      BY <1>2 DEF MarkStarted
    <2> QED BY <2>1, <2>2 DEF SubmitsArePaid
  <1>3. ASSUME NEW n \in Event, ServePost(n)
        PROVE  SubmitsArePaid'
    <2>1. http[n] = "posted" /\ Apply(kind[n], "http", n) /\ UNCHANGED <<worker, submits>>
      BY <1>3 DEF ServePost
    <2>2. kind[n] \in Kind
      BY <2>1, DueIs, Types DEF Channel
    <2> QED BY <2>1, <2>2, ApplyIsPaid
  <1>4. CASE ReadMark
    <2>1. Apply(kind[Head(stream)], "osc", Reader) /\ UNCHANGED <<worker, submits>>
      BY <1>4 DEF ReadMark
    <2>2. kind[Head(stream)] \in Kind
      <3>1. Head(stream) \in Emitted
        BY <1>4 DEF ReadMark, TypeOK
      <3> QED BY <3>1, Types
    <2> QED BY <2>1, <2>2, ApplyIsPaid
  <1>5. CASE Prompt \/ ToolBefore \/ ToolAfter \/ TurnEnd
    <2>1. UNCHANGED <<observed, machine, worker, submits, turnSeq, rearmed>>
      BY <1>5 DEF Prompt, ToolBefore, ToolAfter, TurnEnd, Emit
    <2> QED BY <2>1 DEF SubmitsArePaid
  <1>6. CASE \/ MarkWritten \/ WindowPasses \/ FallbackPasses \/ UNCHANGED vars
             \/ (\E n \in Event : HookEnds(n) \/ PostFails(n) \/ PostWritten(n))
    <2>1. UNCHANGED <<observed, machine, worker, submits, turnSeq, rearmed>>
      BY <1>6 DEF MarkWritten, WindowPasses, FallbackPasses, HookEnds, PostFails, PostWritten, vars
    <2> QED BY <2>1 DEF SubmitsArePaid
  <1> QED BY <1>1, <1>2, <1>3, <1>4, <1>5, <1>6 DEF Next

LEMMA InitHolds == Init => IInv
  <1> SUFFICES ASSUME Init
               PROVE  IInv
    OBVIOUS
  <1>1. kind = <<>> /\ stream = <<>> /\ memory = <<>> /\ hooks = {} /\ Emitted = {}
    BY DEF Init, Emitted
  <1>2. \A ch \in Channel : Due(ch) = {}
    BY <1>1 DEF Due
  <1>3. TypeOK
    <2>1. kind \in Seq(Kind) /\ Len(kind) <= MaxEvents /\ hooks \subseteq Emitted
      BY <1>1, Bounds
    <2>2. /\ stream \in Seq(Emitted) /\ memory \in Seq([kind : Kind, channel : {"http", "osc"}])
          /\ Len(memory) <= DedupMemory
      BY <1>1, Bounds
    <2>3. /\ http \in [Event -> {"none", "posted", "writing", "done"}]
          /\ writes \in [Thread -> Status \cup {"nothing"}]
          /\ \A n \in Event : writes[n] # "nothing" => http[n] = "writing"
      BY Bounds DEF Init, Thread
    <2>4. faults \in 0..MaxFaults
      BY Bounds DEF Init
    <2>5. /\ agent \in {"idle", "busy", "tool"} /\ machine \in Status /\ status \in Status
          /\ observed \in BOOLEAN /\ stale \in BOOLEAN /\ worker \in {"ready", "sent"}
          /\ turnSeq \in Nat /\ submits \in Nat /\ rearmed \in Nat
      BY DEF Init, Status
    <2> QED BY <2>1, <2>2, <2>3, <2>4, <2>5 DEF TypeOK
  <1>4. PostsWereEmitted
    BY DEF Init, PostsWereEmitted
  <1>5. OneMark
    BY <1>1 DEF OneMark
  <1>6. CloseTogether /\ PostComesFirst
    BY <1>2 DEF CloseTogether, PostComesFirst, Channel
  <1>7. AppliedOnce
    <2>1. DOMAIN memory = {}
      BY <1>1
    <2>2. PICK none : none \in [{} -> {}]
      <3>1. [i \in {} |-> 0] \in [{} -> {}]
        OBVIOUS
      <3> QED BY <3>1
    <2>3. turnSeq = Cardinality({n \in {} : kind[n] = "end"})
      <3>1. {n \in {} : kind[n] = "end"} = {}
        OBVIOUS
      <3> QED BY <3>1, FS_EmptySet DEF Init
    <2>4. Ledger({}, none)
      BY <1>1, <1>2, <2>1, <2>3 DEF Ledger
    <2> QED BY <2>1, <2>2, <2>4 DEF AppliedOnce
  <1>8. SubmitsArePaid
    BY DEF Init, SubmitsArePaid
  <1> QED BY <1>3, <1>4, <1>5, <1>6, <1>7, <1>8 DEF IInv

LEMMA Invariance == Spec => []IInv
  <1>1. IInv /\ [Next]_vars => IInv'
    BY NextTypes, NextMarks, NextKeepsLedger, NextPays DEF IInv
  <1> QED BY <1>1, InitHolds, PTL DEF Spec

\* Every reachable state is well typed (SessionStateMachine and the hooks).
THEOREM StateTypes == Spec => []TypeOK
  <1>1. IInv => TypeOK
    BY DEF IInv
  <1> QED BY <1>1, Invariance, PTL

\* What the ledger says of the count of turns.
LEMMA TurnsAreCounted ==
  ASSUME IInv
  PROVE  TurnsCountedOnce
  <1>1. PICK applied \in SUBSET Emitted :
            \E src \in [DOMAIN memory -> applied] : Ledger(applied, src)
    BY DEF IInv, AppliedOnce
  <1>2. PICK src \in [DOMAIN memory -> applied] : Ledger(applied, src)
    BY <1>1
  <1> DEFINE counted == {n \in applied : kind[n] = "end"}
  <1>3. turnSeq = Cardinality(counted)
    BY <1>2, LedgerIs
  <1>4. counted \in SUBSET Ends
    BY DEF Ends
  <1>5. IsFiniteSet(Ends)
    <2>1. IsFiniteSet(Emitted)
      BY Types, FS_Interval DEF IInv
    <2>2. Ends \in SUBSET Emitted
      BY DEF Ends
    <2> QED BY <2>1, <2>2, FS_Subset
  <1>6. ASSUME Outstanding = {}, faults = 0
        PROVE  counted = Ends
    <2>1. Due("http") = {}
      BY <1>6, DueIs DEF IInv
    <2>2. \A n \in Emitted : n \in applied
      BY <1>2, <1>6, <2>1, LedgerIs
    <2> QED BY <2>2 DEF Ends
  <1> HIDE DEF counted
  <1>7. Cardinality(counted) <= Cardinality(Ends)
    BY <1>4, <1>5, FS_Subset
  <1> QED BY <1>3, <1>6, <1>7 DEF TurnsCountedOnce

\* However the copies over HTTP and OSC mix, de-duplication counts a turn at most once,
\* and exactly once when no post was lost or overtaken (on_event_with_channel).
THEOREM TurnsCounted == Spec => []TurnsCountedOnce
  <1>1. IInv => TurnsCountedOnce
    BY TurnsAreCounted
  <1> QED BY <1>1, Invariance, PTL

\* The worker submits at most once for an end of a turn (mark_automatic_submit_started,
\* status_for_automatic_submit).
THEOREM SubmitsOnce == Spec => []OneSubmitPerTurn
  <1>1. ASSUME IInv
        PROVE  OneSubmitPerTurn
    <2>1. turnSeq <= Cardinality(Ends)
      BY <1>1, TurnsAreCounted DEF TurnsCountedOnce
    <2>2. submits <= turnSeq + rearmed /\ submits \in Nat /\ turnSeq \in Nat /\ rearmed \in Nat
      BY <1>1 DEF IInv, SubmitsArePaid, TypeOK
    <2>3. Cardinality(Ends) \in Nat
      <3>1. IsFiniteSet(Emitted)
        BY <1>1, Types, FS_Interval DEF IInv
      <3>2. Ends \in SUBSET Emitted
        BY DEF Ends
      <3> QED BY <3>1, <3>2, FS_Subset, FS_CardinalityType
    <2> QED BY <2>1, <2>2, <2>3 DEF OneSubmitPerTurn
  <1> QED BY <1>1, Invariance, PTL
=============================================================================
