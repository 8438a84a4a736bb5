-------------------------- MODULE OutputFlowProofs --------------------------
(***************************************************************************)
(* Proofs about OutputFlow: the types, the order of the stream from the    *)
(* reader to the view, that no chunk is lost without a word, and that the  *)
(* accounts of the gate are true.                                          *)
(*                                                                         *)
(* The order of the stream is not inductive.  What carries it is a cut:    *)
(* `reached', the last chunk an event carried to a view, divides the       *)
(* pipeline.  Every event holds chunks after what the view has processed   *)
(* and up to the cut, the batch and the channel hold chunks after it and   *)
(* up to the last one the reader has handed on, whatever was dropped or    *)
(* refused in between.  The joins of the wait thread are the other half:   *)
(* each of its program points remembers which thread is done, and a        *)
(* batcher that is done has left nothing behind.                           *)
(***************************************************************************)
EXTENDS OutputFlow, FiniteSetTheorems, TLAPS

-----------------------------------------------------------------------------
(* The inductive invariant                                                 *)

\* The last chunk that the reader has handed on.
Top == IF reader = "send" THEN pushed - 1 ELSE pushed

Within(s, low, high) == \A i \in DOMAIN s : low < s[i] /\ s[i] <= high

\* The last chunk that an event carried to a view cuts the pipeline in two.
Cut ==
    /\ processed <= reached /\ reached <= Top
    /\ reader = "push" => pushed < MaxSeq
    /\ Increasing(batch) /\ Increasing(channel) /\ Before(batch, channel)
    /\ Within(batch, reached, Top) /\ Within(channel, reached, Top)

InboxInOrder ==
    \A i \in DOMAIN inbox :
        /\ Increasing(inbox[i].chunks)
        /\ Within(inbox[i].chunks, processed, reached)
        /\ \A j \in DOMAIN inbox : i < j => Before(inbox[i].chunks, inbox[j].chunks)

\* An output event carries at least one chunk, any other none.
EventShape == \A i \in DOMAIN inbox : inbox[i].kind = "output" <=> inbox[i].chunks # <<>>

\* A window that is gone has neither events nor a position in the stream.
GoneIsEmpty == view = "gone" => inbox = <<>> /\ processed = 0

\* The joins of the wait thread: the reader, then the batcher, then the exit event.
Joins ==
    /\ waiter \in {"joinBatcher", "joined", "done"} => reader = "done"
    /\ waiter \in {"joined", "done"} => batcher.pc = "done"
    /\ batcher.pc = "done" => reader = "done" /\ channel = <<>> /\ batch = <<>>
    /\ waiter # "done" => \A i \in DOMAIN inbox : inbox[i].kind # "exit"
    /\ \A i, j \in DOMAIN inbox : inbox[i].kind = "exit" /\ inbox[j].kind = "output" => j < i

IInv == TypeOK /\ Cut /\ InboxInOrder /\ EventShape /\ GoneIsEmpty /\ Joins
-----------------------------------------------------------------------------
LEMMA Bounds ==
  /\ MaxSeq \in Nat \ {0} /\ Streak \in Nat \ {0} /\ ChannelSize \in Nat \ {0}
  /\ BatchSize \in Nat \ {0} /\ MaxDesync \in Nat \ {0} /\ Low \in Nat /\ High \in Nat
  BY SizeAssumption, WatermarkAssumption

LEMMA Types ==
  ASSUME TypeOK
  PROVE  /\ sent \in Seqs /\ acked \in Seqs /\ ack \in Seqs /\ processed \in Seqs
         /\ alive \in BOOLEAN /\ cancelled \in BOOLEAN /\ everAcked \in BOOLEAN
         /\ parked \in BOOLEAN /\ owed \in BOOLEAN
         /\ pushed \in 0..MaxSeq /\ sent \in 0..MaxSeq /\ acked \in 0..MaxSeq
         /\ processed \in 0..MaxSeq /\ reported \in 0..MaxSeq /\ ack \in 0..MaxSeq
         /\ reached \in 0..MaxSeq
         /\ channel \in Seq(1..MaxSeq) /\ batch \in Seq(1..MaxSeq) /\ inbox \in Seq(Event)
  BY DEF TypeOK, Seqs, Chunks

LEMMA SeqFacts ==
  /\ 0 \in Seqs /\ 0 \in 0..(Streak - 1)
  /\ \A a, b \in Seqs :
        /\ Max2(a, b) \in Seqs /\ Min2(a, b) \in Seqs /\ InFlight(a, b) \in Seqs
        /\ a <= Max2(a, b) /\ b <= Max2(a, b) /\ Max2(a, b) \in {a, b}
        /\ Min2(a, b) <= a /\ Min2(a, b) <= b
  <1>1. MaxSeq \in Nat /\ Streak \in Nat \ {0}
    BY Bounds
  <1>2. 0 \in Seqs /\ 0 \in 0..(Streak - 1)
    BY <1>1 DEF Seqs
  <1>3. ASSUME NEW a \in Seqs, NEW b \in Seqs
        PROVE  /\ Max2(a, b) \in Seqs /\ Min2(a, b) \in Seqs /\ InFlight(a, b) \in Seqs
               /\ a <= Max2(a, b) /\ b <= Max2(a, b) /\ Max2(a, b) \in {a, b}
               /\ Min2(a, b) <= a /\ Min2(a, b) <= b
    <2>1. a \in 0..MaxSeq /\ b \in 0..MaxSeq
      BY DEF Seqs
    <2>2. Max2(a, b) \in {a, b} /\ a <= Max2(a, b) /\ b <= Max2(a, b)
      BY <1>1, <2>1 DEF Max2
    <2>3. Min2(a, b) \in {a, b} /\ Min2(a, b) <= a /\ Min2(a, b) <= b
      BY <1>1, <2>1 DEF Min2
    <2>4. InFlight(a, b) \in 0..MaxSeq
      <3>1. CASE a > b
        BY <1>1, <2>1, <3>1 DEF InFlight
      <3>2. CASE ~(a > b)
        BY <1>1, <2>1, <3>2 DEF InFlight
      <3> QED BY <3>1, <3>2
    <2> QED BY <2>2, <2>3, <2>4 DEF Seqs
  <1> QED BY <1>2, <1>3

LEMMA DecideType ==
  ASSUME NEW level, Decide(level)
  PROVE  parked' \in BOOLEAN
  <1>1. CASE parked
    <2>1. parked' = ~(level < Low)
      BY <1>1 DEF Decide
    <2> QED BY <2>1
  <1>2. CASE ~parked
    <2>1. parked' = (level > High)
      BY <1>2 DEF Decide
    <2> QED BY <2>1
  <1> QED BY <1>1, <1>2

\* A step that leaves the pipeline alone: the reader neither pushes nor ends.
LEMMA Quiet ==
  ASSUME IInv, TypeOK',
         UNCHANGED <<pushed, channel, batch, inbox, view, processed, reached, waiter>>,
         reader' = "push" => pushed < MaxSeq,
         reader' = "send" <=> reader = "send",
         reader' = "done" <=> reader = "done",
         batcher'.pc = "done" <=> batcher.pc = "done"
  PROVE  IInv'
  <1>1. Top' = Top
    BY DEF Top
  <1>2. Cut'
    BY <1>1 DEF IInv, Cut
  <1>3. InboxInOrder' /\ EventShape' /\ GoneIsEmpty'
    BY DEF IInv, InboxInOrder, EventShape, GoneIsEmpty
  <1>4. Joins'
    BY DEF IInv, Joins
  <1> QED BY <1>2, <1>3, <1>4 DEF IInv
-----------------------------------------------------------------------------
(* The steps that leave the pipeline alone.                                *)

LEMMA ReaderWaits ==
  ASSUME IInv, ReaderGate \/ ReaderWakes \/ ReaderTimesOut \/ ReaderChecks \/ ReaderReads
  PROVE  IInv'
  <1>1. TypeOK
    BY DEF IInv
  <1>2. CASE ReaderGate
    <2>1. reader' \in {"tail", "waiting", "read"} /\ reader = "gate"
      BY <1>2 DEF ReaderGate, ReaderGoto
    <2>2. TypeOK'
      BY <1>1, <1>2, <2>1 DEF TypeOK, ReaderGate, gate, client
    <2> QED BY <1>2, <2>1, <2>2, Quiet DEF ReaderGate, client
  <1>3. CASE ReaderWakes
    <2>1. TypeOK'
      BY <1>1, <1>3, SeqFacts DEF TypeOK, ReaderWakes, ReaderGoto, client
    <2> QED BY <1>3, <2>1, Quiet DEF ReaderWakes, ReaderGoto, client
  <1>4. CASE ReaderTimesOut
    <2>1. timeouts' \in 0..(Streak - 1) /\ reader' \in {"stalled", "check"} /\ reader = "waiting"
      BY <1>1, <1>4, Bounds DEF TypeOK, ReaderTimesOut, ReaderGoto
    <2>2. TypeOK'
      BY <1>1, <1>4, <2>1 DEF TypeOK, ReaderTimesOut, client
    <2> QED BY <1>4, <2>1, <2>2, Quiet DEF ReaderTimesOut, client
  <1>5. CASE ReaderChecks
    <2>1. reader' \in {"tail", "read"} /\ reader = "check"
      BY <1>5 DEF ReaderChecks, ReaderGoto
    <2>2. TypeOK'
      BY <1>1, <1>5, <2>1 DEF TypeOK, ReaderChecks, gate, client
    <2> QED BY <1>5, <2>1, <2>2, Quiet DEF ReaderChecks, client
  <1>6. CASE ReaderReads
    <2>1. reader' \in {"tail", "push"} /\ reader = "read"
      BY <1>6 DEF ReaderReads, ReaderGoto
    <2>3. reader' = "push" => pushed < MaxSeq
      BY <1>6 DEF ReaderReads, ReaderGoto
    <2>2. TypeOK'
      BY <1>1, <1>6, <2>1 DEF TypeOK, ReaderReads, gate, client
    <2> QED BY <1>6, <2>1, <2>2, <2>3, Quiet DEF ReaderReads, client
  <1> QED BY <1>2, <1>3, <1>4, <1>5, <1>6

LEMMA BatcherCounts ==
  ASSUME IInv, BatcherNotes \/ BatcherMeasures \/ BatcherDecides
  PROVE  IInv'
  <1>1. TypeOK
    BY DEF IInv
  <1>2. /\ batcher \in [pc : {"recv", "note", "measure", "decide", "done"}, end : Seqs,
                        level : Seqs]
        /\ 0 \in Seqs
    BY <1>1, Bounds DEF TypeOK, Seqs
  <1>6. reader = "push" => pushed < MaxSeq
    BY DEF IInv, Cut
  <1>3. CASE BatcherNotes
    <2>1. sent' \in Seqs
      BY <1>1, <1>2, <1>3 DEF TypeOK, BatcherNotes, Max2
    <2>2. /\ batcher' = [batcher EXCEPT !.pc = "measure"] /\ batcher.pc = "note"
          /\ UNCHANGED <<alive, cancelled, pushed, channel, batch, acked, everAcked, parked,
                         timeouts, owed, reader, acker, waiter, killer, inbox, view, shown,
                         processed, reported, ack, reached>>
      BY <1>3 DEF BatcherNotes, BatcherGoto, client
    <2>3. /\ batcher' \in [pc : {"recv", "note", "measure", "decide", "done"}, end : Seqs,
                           level : Seqs]
          /\ batcher'.pc = "measure"
      BY <1>2, <2>2
    <2>4. TypeOK'
      BY <1>1, <2>1, <2>2, <2>3 DEF TypeOK
    <2> QED BY <1>6, <2>2, <2>3, <2>4, Quiet
  <1>4. CASE BatcherMeasures
    <2>1. InFlight(sent, acked) \in Seqs
      BY <1>1, Types, SeqFacts
    <2>2. /\ \/ batcher' = [batcher EXCEPT !.pc = "decide", !.level = InFlight(sent, acked)]
             \/ batcher' = [batcher EXCEPT !.pc = "recv"]
          /\ batcher.pc = "measure"
          /\ UNCHANGED <<alive, cancelled, pushed, channel, batch, sent, acked, everAcked,
                         parked, timeouts, owed, reader, acker, waiter, killer, inbox, view,
                         shown, processed, reported, ack, reached>>
      BY <1>4 DEF BatcherMeasures, gate, client
    <2>3. /\ batcher' \in [pc : {"recv", "note", "measure", "decide", "done"}, end : Seqs,
                           level : Seqs]
          /\ batcher'.pc \in {"decide", "recv"}
      BY <1>2, <2>1, <2>2
    <2>4. TypeOK'
      BY <1>1, <2>2, <2>3 DEF TypeOK
    <2> QED BY <1>6, <2>2, <2>3, <2>4, Quiet
  <1>5. CASE BatcherDecides
    <2>1. parked' \in BOOLEAN
      BY <1>5, DecideType DEF BatcherDecides
    <2>2. /\ batcher' = [pc |-> "recv", end |-> 0, level |-> 0] /\ batcher.pc = "decide"
          /\ UNCHANGED <<alive, cancelled, pushed, channel, batch, sent, acked, everAcked,
                         timeouts, owed, reader, acker, waiter, killer, inbox, view, shown,
                         processed, reported, ack, reached>>
      BY <1>5 DEF BatcherDecides, client
    <2>3. /\ batcher' \in [pc : {"recv", "note", "measure", "decide", "done"}, end : Seqs,
                           level : Seqs]
          /\ batcher'.pc = "recv"
      BY <1>2, <2>2
    <2>4. TypeOK'
      BY <1>1, <2>1, <2>2, <2>3 DEF TypeOK
    <2> QED BY <1>6, <2>2, <2>3, <2>4, Quiet
  <1> QED BY <1>3, <1>4, <1>5

LEMMA AckKeeps ==
  ASSUME IInv, AckRuns
  PROVE  IInv'
  <1>1. TypeOK /\ UNCHANGED <<alive, cancelled, pushed, channel, batch, sent, timeouts, owed,
                              reader, batcher, waiter, killer, inbox, view, shown, processed,
                              reported, reached>>
    BY DEF IInv, AckRuns, AckArrives, AckMerges, AckMeasures, AckDecides, gate, client
  <1>2. /\ acker \in [pc : {"idle", "merge", "measure", "decide"}, capped : Seqs, level : Seqs]
        /\ 0 \in Seqs
    BY <1>1, Bounds DEF TypeOK, Seqs
  <1>3. /\ ack' \in Seqs /\ acked' \in Seqs /\ everAcked' \in BOOLEAN /\ parked' \in BOOLEAN
        /\ acker' \in [pc : {"idle", "merge", "measure", "decide"}, capped : Seqs, level : Seqs]
    <2>1. CASE AckArrives
      <3>1. Min2(ack, sent) \in Seqs
        BY <1>1, Types, SeqFacts
      <3>2. ack' = 0 /\ acked' = acked /\ parked' = parked
        BY <2>1 DEF AckArrives
      <3>3. \/ everAcked' = TRUE /\ acker' = [pc |-> "merge", capped |-> Min2(ack, sent), level |-> 0]
            \/ UNCHANGED <<everAcked, acker>>
        BY <2>1 DEF AckArrives
      <3>4. acker' \in [pc : {"idle", "merge", "measure", "decide"}, capped : Seqs, level : Seqs]
        BY <1>2, <3>1, <3>3
      <3>5. everAcked' \in BOOLEAN
        BY <1>1, <3>3, Types
      <3>6. acked \in Seqs /\ parked \in BOOLEAN
        BY <1>1, Types
      <3> QED BY <1>2, <3>2, <3>4, <3>5, <3>6
    <2>2. CASE AckMerges
      <3>1. /\ acked' = Max2(acked, acker.capped)
            /\ acker' = [acker EXCEPT !.pc = "measure", !.capped = 0]
            /\ UNCHANGED <<everAcked, parked, ack>>
        BY <2>2 DEF AckMerges, client
      <3> QED BY <1>1, <1>2, <3>1, Types DEF Max2, Seqs
    <2>3. CASE AckMeasures
      <3>1. InFlight(sent, acked) \in Seqs
        BY <1>1, Types, SeqFacts
      <3>2. /\ acker' = [acker EXCEPT !.pc = "decide", !.level = InFlight(sent, acked)]
            /\ UNCHANGED <<acked, everAcked, parked, ack>>
        BY <2>3 DEF AckMeasures, gate, client
      <3> QED BY <1>1, <1>2, <3>1, <3>2, Types DEF Seqs
    <2>4. CASE AckDecides
      <3>1. parked' \in BOOLEAN
        BY <2>4, DecideType DEF AckDecides
      <3>2. /\ acker' = [pc |-> "idle", capped |-> 0, level |-> 0]
            /\ UNCHANGED <<acked, everAcked, ack>>
        BY <2>4 DEF AckDecides, client
      <3> QED BY <1>1, <1>2, <3>1, <3>2, Types DEF Seqs
    <2> QED BY <2>1, <2>2, <2>3, <2>4 DEF AckRuns
  <1>4. TypeOK'
    BY <1>1, <1>3 DEF TypeOK
  <1>5. reader = "push" => pushed < MaxSeq
    BY DEF IInv, Cut
  <1> QED BY <1>1, <1>4, <1>5, Quiet

LEMMA OthersKeep ==
  ASSUME IInv,
         ViewReports \/ AckLost \/ KillRemoves \/ KillRuns \/ ChildExits
  PROVE  IInv'
  <1>1. TypeOK
    BY DEF IInv
  <1>2. UNCHANGED <<pushed, channel, batch, sent, acked, everAcked, timeouts, owed, reader,
                    batcher, acker, waiter, inbox, view, shown, processed, reached>>
    BY DEF ViewReports, AckLost, KillRemoves, KillRuns, KillCancels, KillReleases, Release,
           KillKills, ChildExits, gate, threads, client
  <1>3. /\ reported' \in Seqs /\ ack' \in Seqs /\ alive' \in BOOLEAN /\ cancelled' \in BOOLEAN
        /\ parked' \in BOOLEAN /\ killer' \in {"idle", "removed", "cancelled", "released", "done"}
    <2>1. CASE ViewReports
      BY <1>1, <2>1 DEF TypeOK, ViewReports, Max2, gate, threads
    <2>2. CASE AckLost
      BY <1>1, <2>2, Bounds DEF TypeOK, Seqs, AckLost, gate, threads
    <2>3. CASE KillRemoves \/ KillRuns \/ ChildExits
      BY <1>1, <2>3 DEF TypeOK, KillRemoves, KillRuns, KillCancels, KillReleases, Release,
                        KillKills, ChildExits, gate, threads, client
    <2> QED BY <2>1, <2>2, <2>3
  <1>4. TypeOK'
    BY <1>1, <1>2, <1>3 DEF TypeOK
  <1>5. reader = "push" => pushed < MaxSeq
    BY DEF IInv, Cut
  <1> QED BY <1>2, <1>4, <1>5, Quiet
-----------------------------------------------------------------------------
(* The reader's side of the pipeline.                                      *)

LEMMA Ranges ==
  ASSUME IInv
  PROVE  /\ TypeOK /\ pushed \in Nat /\ pushed <= MaxSeq /\ MaxSeq \in Nat
         /\ processed \in Nat /\ reached \in Nat /\ Top \in Nat /\ Top <= pushed
         /\ (reader = "send" => pushed = Top + 1) /\ (reader # "send" => pushed = Top)
         /\ processed <= reached /\ reached <= Top
         /\ channel \in Seq(1..MaxSeq) /\ batch \in Seq(1..MaxSeq)
         /\ channel \in Seq(Nat) /\ batch \in Seq(Nat)
         /\ inbox \in Seq(Event) /\ \A i \in DOMAIN inbox : inbox[i].chunks \in Seq(1..MaxSeq)
  <1>1. TypeOK /\ processed <= reached /\ reached <= Top
    BY DEF IInv, Cut
  <1>2. /\ pushed \in 0..MaxSeq /\ processed \in 0..MaxSeq /\ reached \in 0..MaxSeq
        /\ MaxSeq \in Nat /\ channel \in Seq(1..MaxSeq) /\ batch \in Seq(1..MaxSeq)
        /\ inbox \in Seq(Event)
    BY <1>1, Types, Bounds
  <1>3. channel \in Seq(Nat) /\ batch \in Seq(Nat)
    BY <1>2
  <1>4. \A i \in DOMAIN inbox : inbox[i].chunks \in Seq(1..MaxSeq)
    <2>1. \A i \in DOMAIN inbox : inbox[i] \in Event
      BY <1>2
    <2>2. \A e \in Event : e.chunks \in Seq(1..MaxSeq)
      BY DEF Event, Chunks
    <2> QED BY <2>1, <2>2
  <1>5. Top \in Nat /\ Top <= pushed /\ (reader = "send" => pushed = Top + 1)
        /\ (reader # "send" => pushed = Top)
    BY <1>1, <1>2 DEF Top
  <1> QED BY <1>1, <1>2, <1>3, <1>4, <1>5

\* A chunk behind all others keeps a list in order.
LEMMA AppendInOrder ==
  ASSUME NEW s \in Seq(Nat), NEW low \in Nat, NEW high \in Nat, NEW n \in Nat,
         Increasing(s), Within(s, low, high), low <= high, high < n
  PROVE  Increasing(Append(s, n)) /\ Within(Append(s, n), low, n)
  <1>1. /\ DOMAIN Append(s, n) = 1..(Len(s) + 1) /\ DOMAIN s = 1..Len(s)
        /\ Append(s, n)[Len(s) + 1] = n /\ Len(s) \in Nat
        /\ \A i \in 1..Len(s) : Append(s, n)[i] = s[i] /\ s[i] \in Nat
    OBVIOUS
  <1>2. \A i \in DOMAIN Append(s, n) : i \in 1..Len(s) \/ i = Len(s) + 1
    BY <1>1
  <1>3. \A i \in 1..Len(s) : s[i] < n /\ low < s[i]
    BY <1>1 DEF Within
  <1>4. Increasing(Append(s, n))
    BY <1>1, <1>2, <1>3 DEF Increasing
  <1>5. Within(Append(s, n), low, n)
    BY <1>1, <1>2, <1>3 DEF Within
  <1> QED BY <1>4, <1>5

LEMMA WiderWithin ==
  ASSUME NEW s \in Seq(Nat), NEW low \in Nat, NEW high \in Nat, NEW more \in Nat,
         Within(s, low, high), high <= more
  PROVE  Within(s, low, more)
  <1>1. \A i \in DOMAIN s : s[i] \in Nat
    OBVIOUS
  <1> QED BY <1>1 DEF Within

\* What the channel gets from the reader.
LEMMA ChannelGrows ==
  ASSUME IInv, Top' = pushed', Top' \in Nat, Top < Top', Top' <= MaxSeq,
         \/ channel' = channel
         \/ channel' = Append(channel, pushed'),
         reader' # "push", UNCHANGED <<batch, processed, reached>>
  PROVE  Cut' /\ channel' \in Chunks
  <1>1. /\ Top \in Nat /\ reached \in Nat /\ processed \in Nat /\ MaxSeq \in Nat
        /\ channel \in Seq(Nat) /\ batch \in Seq(Nat) /\ channel \in Seq(1..MaxSeq)
        /\ processed <= reached /\ reached <= Top /\ \A i \in DOMAIN batch : batch[i] \in Nat
    BY Ranges
  <1>2. Increasing(channel') /\ Within(channel', reached, Top')
    <2>1. CASE channel' = channel
      BY <1>1, <2>1, WiderWithin DEF IInv, Cut
    <2>2. CASE channel' = Append(channel, pushed')
      <3>1. Increasing(channel) /\ Within(channel, reached, Top)
        BY DEF IInv, Cut
      <3> QED BY <1>1, <2>2, <3>1, AppendInOrder
    <2> QED BY <2>1, <2>2
  <1>3. Within(batch, reached, Top')
    BY <1>1, WiderWithin DEF IInv, Cut
  <1>4. Before(batch, channel')
    <2>1. CASE channel' = channel
      BY <2>1 DEF IInv, Cut
    <2>2. CASE channel' = Append(channel, pushed')
      <3>1. /\ DOMAIN channel' = 1..(Len(channel) + 1) /\ DOMAIN channel = 1..Len(channel)
            /\ channel'[Len(channel) + 1] = pushed' /\ Len(channel) \in Nat
            /\ \A i \in 1..Len(channel) : channel'[i] = channel[i]
        BY <1>1, <2>2
      <3>2. \A i \in DOMAIN channel' : i \in 1..Len(channel) \/ i = Len(channel) + 1
        BY <3>1
      <3>3. \A i \in DOMAIN batch : batch[i] < pushed'
        BY <1>1 DEF IInv, Cut, Within
      <3>4. Before(batch, channel)
        BY DEF IInv, Cut
      <3> QED BY <3>1, <3>2, <3>3, <3>4 DEF Before
    <2> QED BY <2>1, <2>2
  <1>5. channel' \in Chunks
    <2>1. CASE channel' = channel
      BY <1>1, <2>1 DEF Chunks
    <2>2. CASE channel' = Append(channel, pushed')
      <3>1. pushed' \in 1..MaxSeq
        BY <1>1
      <3> QED BY <1>1, <2>2, <3>1 DEF Chunks
    <2> QED BY <2>1, <2>2
  <1>6. Increasing(batch) /\ processed <= reached /\ reached <= Top'
    BY <1>1 DEF IInv, Cut
  <1> QED BY <1>2, <1>3, <1>4, <1>5, <1>6 DEF Cut

LEMMA ReaderPushesKeeps ==
  ASSUME IInv, ReaderPushes
  PROVE  IInv'
  <1>1. /\ UNCHANGED <<alive, cancelled, channel, batch, sent, acked, everAcked, parked,
                       timeouts, owed, batcher, acker, waiter, killer, inbox, view, shown,
                       processed, reported, ack, reached>>
        /\ reader = "push"
        /\ \/ reader' = "tail" /\ pushed' = pushed
           \/ reader' = "send" /\ pushed' = pushed + 1
    BY DEF ReaderPushes, ReaderGoto, gate, client
  <1>2. pushed < MaxSeq /\ pushed \in Nat /\ MaxSeq \in Nat
    BY <1>1, Ranges DEF IInv, Cut
  <1>3. Top' = Top
    BY <1>1, <1>2 DEF Top
  <1>4. TypeOK'
    <2>1. pushed' \in Seqs
      BY <1>1, <1>2 DEF Seqs
    <2> QED BY <1>1, <2>1 DEF IInv, TypeOK
  <1>5. Cut'
    BY <1>1, <1>3 DEF IInv, Cut
  <1>6. InboxInOrder' /\ EventShape' /\ GoneIsEmpty'
    BY <1>1 DEF IInv, InboxInOrder, EventShape, GoneIsEmpty
  <1>7. Joins'
    BY <1>1 DEF IInv, Joins
  <1> QED BY <1>4, <1>5, <1>6, <1>7 DEF IInv

LEMMA ReaderSendsKeeps ==
  ASSUME IInv, ReaderSends
  PROVE  IInv'
  <1>1. /\ UNCHANGED <<alive, cancelled, pushed, batch, sent, acked, everAcked, parked,
                       timeouts, owed, batcher, acker, waiter, killer, inbox, view, shown,
                       processed, reported, ack, reached>>
        /\ reader = "send" /\ reader' \in {"gate", "dropped"}
        /\ \/ channel' = Append(channel, pushed) /\ Len(channel) < ChannelSize
           \/ channel' = channel
    BY DEF ReaderSends, ReaderGoto, gate, client
  <1>2. /\ Top' = pushed' /\ Top' \in Nat /\ Top < Top' /\ Top' <= MaxSeq
    BY <1>1, Ranges DEF Top
  <1>3. Cut' /\ channel' \in Chunks
    BY <1>1, <1>2, ChannelGrows
  <1>4. Len(channel') <= ChannelSize
    <2>1. Len(channel) <= ChannelSize /\ channel \in Seq(1..MaxSeq) /\ ChannelSize \in Nat
      BY Bounds, Ranges DEF IInv, TypeOK
    <2> QED BY <1>1, <2>1
  <1>5. TypeOK'
    BY <1>1, <1>3, <1>4 DEF IInv, TypeOK
  <1>6. InboxInOrder' /\ EventShape' /\ GoneIsEmpty'
    BY <1>1 DEF IInv, InboxInOrder, EventShape, GoneIsEmpty
  <1>7. Joins'
    BY <1>1 DEF IInv, Joins
  <1> QED BY <1>3, <1>5, <1>6, <1>7 DEF IInv

LEMMA ReaderEndsKeeps ==
  ASSUME IInv, ReaderEnds
  PROVE  IInv'
  <1>1. /\ UNCHANGED <<alive, cancelled, batch, sent, acked, everAcked, parked,
                       timeouts, owed, batcher, acker, waiter, killer, inbox, view, shown,
                       processed, reported, ack, reached>>
        /\ reader = "tail" /\ reader' = "done"
        /\ \/ pushed' = pushed /\ channel' = channel
           \/ /\ pushed < MaxSeq /\ pushed' = pushed + 1
              /\ channel' = IF Len(channel) < ChannelSize THEN Append(channel, pushed + 1)
                                                          ELSE channel
    BY DEF ReaderEnds, ReaderGoto, gate, client
  <1>2. /\ Top = pushed /\ Top' = pushed' /\ pushed \in Nat /\ MaxSeq \in Nat
        /\ pushed <= MaxSeq /\ channel \in Seq(1..MaxSeq)
    BY <1>1, Ranges DEF Top
  <1>3. Cut' /\ channel' \in Chunks
    <2>1. CASE pushed' = pushed /\ channel' = channel
      BY <1>1, <1>2, <2>1 DEF IInv, Cut, TypeOK
    <2>2. CASE pushed < MaxSeq /\ pushed' = pushed + 1
      <3>1. channel' = Append(channel, pushed') \/ channel' = channel
        BY <1>1, <2>2
      <3> QED BY <1>1, <1>2, <2>2, <3>1, ChannelGrows
    <2> QED BY <1>1, <2>1, <2>2
  <1>4. Len(channel') <= ChannelSize
    <2>1. Len(channel) <= ChannelSize /\ ChannelSize \in Nat
      BY Bounds DEF IInv, TypeOK
    <2> QED BY <1>1, <1>2, <2>1
  <1>5. TypeOK'
    <2>1. pushed' \in Seqs
      BY <1>1, <1>2 DEF Seqs
    <2> QED BY <1>1, <1>3, <1>4, <2>1 DEF IInv, TypeOK
  <1>6. InboxInOrder' /\ EventShape' /\ GoneIsEmpty'
    BY <1>1 DEF IInv, InboxInOrder, EventShape, GoneIsEmpty
  <1>7. Joins'
    BY <1>1 DEF IInv, Joins
  <1> QED BY <1>3, <1>5, <1>6, <1>7 DEF IInv
-----------------------------------------------------------------------------
(* The events.                                                             *)

LEMMA EventFacts ==
  /\ Desync \in Event /\ Desync.kind = "desync" /\ Desync.chunks = <<>>
  /\ Exit \in Event /\ Exit.kind = "exit" /\ Exit.chunks = <<>>
  /\ \A s \in Chunks : Output(s) \in Event /\ Output(s).kind = "output"
                                           /\ Output(s).chunks = s
  BY DEF Desync, Exit, Output, Event, Chunks

\* The events after one more of them.
LEMMA InboxAppend ==
  ASSUME inbox \in Seq(Event), NEW e \in Event, inbox' = Append(inbox, e)
  PROVE  /\ DOMAIN inbox' = 1..(Len(inbox) + 1) /\ DOMAIN inbox = 1..Len(inbox)
         /\ Len(inbox) \in Nat /\ inbox'[Len(inbox) + 1] = e
         /\ \A i \in 1..Len(inbox) : inbox'[i] = inbox[i] /\ i < Len(inbox) + 1
         /\ \A i \in DOMAIN inbox' : i \in 1..Len(inbox) \/ i = Len(inbox) + 1
         /\ inbox' \in Seq(Event)
  <1>1. /\ DOMAIN inbox' = 1..(Len(inbox) + 1) /\ DOMAIN inbox = 1..Len(inbox)
        /\ Len(inbox) \in Nat /\ inbox'[Len(inbox) + 1] = e
        /\ \A i \in 1..Len(inbox) : inbox'[i] = inbox[i]
        /\ inbox' \in Seq(Event)
    OBVIOUS
  <1> QED BY <1>1

\* An event without chunks disturbs nothing; the exit event has to be the last word.
LEMMA SignalKeeps ==
  ASSUME IInv, inbox \in Seq(Event), NEW e \in {Desync, Exit},
         inbox' = inbox \/ inbox' = Append(inbox, e),
         UNCHANGED <<processed, reached>>
  PROVE  /\ InboxInOrder' /\ EventShape' /\ inbox' \in Seq(Event)
         /\ \A i \in DOMAIN inbox' : inbox'[i].kind = "exit" =>
               \/ i \in DOMAIN inbox /\ inbox[i].kind = "exit"
               \/ e = Exit
         /\ \A i, j \in DOMAIN inbox' :
               inbox'[i].kind = "exit" /\ inbox'[j].kind = "output" => j < i
  <1>1. CASE inbox' = inbox
    BY <1>1 DEF IInv, InboxInOrder, EventShape, Joins
  <1>2. CASE inbox' = Append(inbox, e)
    <2>1. /\ DOMAIN inbox' = 1..(Len(inbox) + 1) /\ DOMAIN inbox = 1..Len(inbox)
          /\ Len(inbox) \in Nat /\ inbox'[Len(inbox) + 1] = e
          /\ \A i \in 1..Len(inbox) : inbox'[i] = inbox[i] /\ i < Len(inbox) + 1
          /\ \A i \in DOMAIN inbox' : i \in 1..Len(inbox) \/ i = Len(inbox) + 1
          /\ inbox' \in Seq(Event)
      <3>1. e \in Event
        BY EventFacts
      <3> QED BY <1>2, <3>1, InboxAppend
    <2>2. e.chunks = <<>> /\ e.kind # "output" /\ (e.kind = "exit" => e = Exit)
      BY EventFacts
    <2>3. DOMAIN e.chunks = {}
      BY <2>2
    <2>4. InboxInOrder'
      <3>1. \A i \in 1..Len(inbox) : Before(inbox'[i].chunks, e.chunks)
        BY <2>3 DEF Before
      <3>2. Increasing(e.chunks) /\ Within(e.chunks, processed, reached)
        BY <2>3 DEF Increasing, Within
      <3>3. InboxInOrder
        BY DEF IInv
      <3>4. ASSUME NEW i \in 1..Len(inbox)
            PROVE  /\ Increasing(inbox'[i].chunks)
                   /\ Within(inbox'[i].chunks, processed, reached)
                   /\ \A j \in DOMAIN inbox' : i < j => Before(inbox'[i].chunks, inbox'[j].chunks)
        BY <2>1, <3>1, <3>3 DEF InboxInOrder
      <3>5. \A j \in DOMAIN inbox' : ~(Len(inbox) + 1 < j)
        BY <2>1
      <3> QED BY <2>1, <3>2, <3>4, <3>5 DEF InboxInOrder
    <2>5. EventShape'
      BY <2>1, <2>2 DEF IInv, EventShape
    <2>6. \A i \in DOMAIN inbox' : inbox'[i].kind = "exit" =>
             \/ i \in DOMAIN inbox /\ inbox[i].kind = "exit"
             \/ e = Exit
      BY <2>1, <2>2
    <2>7. \A i, j \in DOMAIN inbox' :
             inbox'[i].kind = "exit" /\ inbox'[j].kind = "output" => j < i
      BY <2>1, <2>2 DEF IInv, Joins
    <2> QED BY <2>1, <2>4, <2>5, <2>6, <2>7
  <1> QED BY <1>1, <1>2

LEMMA DesyncSentIs ==
  ASSUME inbox' = DesyncSent
  PROVE  (inbox' = inbox \/ inbox' = Append(inbox, Desync)) /\ (view = "gone" => inbox' = inbox)
  <1>1. DesyncSent \in {inbox, Delivered(Desync)}
    BY DEF DesyncSent
  <1>2. /\ Delivered(Desync) \in {inbox, Append(inbox, Desync)}
        /\ view = "gone" => Delivered(Desync) = inbox
    BY DEF Delivered
  <1> QED BY <1>1, <1>2

LEMMA DesyncKeeps ==
  ASSUME IInv, ReaderSignalsStall \/ ReaderSignalsDrop \/ EmitterPays
  PROVE  IInv'
  <1>1. /\ UNCHANGED <<alive, cancelled, pushed, channel, batch, sent, acked, everAcked, parked,
                       timeouts, batcher, acker, waiter, killer, view, shown,
                       processed, reported, ack, reached>>
        /\ inbox' = DesyncSent
        /\ owed' \in {owed, FALSE}
        /\ \/ reader \in {"stalled", "dropped"} /\ reader' \in {"check", "gate"}
           \/ reader' = reader
    BY DEF ReaderSignalsStall, ReaderSignalsDrop, EmitterPays, ReaderGoto, gate, threads
  <1>2. TypeOK /\ inbox \in Seq(Event)
    BY Ranges
  <1>3. /\ inbox' = inbox \/ inbox' = Append(inbox, Desync)
        /\ view = "gone" => inbox' = inbox
    BY <1>1, DesyncSentIs
  <1>4. /\ InboxInOrder' /\ EventShape' /\ inbox' \in Seq(Event)
        /\ \A i \in DOMAIN inbox' : inbox'[i].kind = "exit" =>
              i \in DOMAIN inbox /\ inbox[i].kind = "exit"
        /\ \A i, j \in DOMAIN inbox' :
              inbox'[i].kind = "exit" /\ inbox'[j].kind = "output" => j < i
    <2>1. Desync # Exit
      BY EventFacts
    <2> QED BY <1>1, <1>2, <1>3, <2>1, SignalKeeps
  <1>5. owed' \in BOOLEAN /\ reader' \in {"gate", "waiting", "stalled", "check", "read", "push",
                                          "send", "dropped", "tail", "done"}
    BY <1>1, <1>2 DEF TypeOK
  <1>6. TypeOK'
    BY <1>1, <1>2, <1>4, <1>5 DEF TypeOK
  <1>7. Cut'
    <2>1. Top' = Top
      BY <1>1 DEF Top
    <2> QED BY <1>1, <2>1 DEF IInv, Cut
  <1>8. GoneIsEmpty'
    BY <1>1, <1>3 DEF IInv, GoneIsEmpty
  <1>9. Joins'
    BY <1>1, <1>4 DEF IInv, Joins
  <1> QED BY <1>4, <1>6, <1>7, <1>8, <1>9 DEF IInv

\* The wait thread.
LEMMA WaiterKeeps ==
  ASSUME IInv, WaiterRuns
  PROVE  IInv'
  <1>1. /\ UNCHANGED <<alive, cancelled, pushed, channel, batch, sent, acked, everAcked,
                       timeouts, owed, reader, batcher, acker, killer, view, shown,
                       processed, reported, ack, reached>>
    BY DEF WaiterRuns, WaiterReleases, WaiterJoinsReader, WaiterJoinsBatcher, WaiterEmitsExit,
           Release, gate, client
  <1>2. TypeOK /\ inbox \in Seq(Event)
    BY Ranges
  <1>3. \/ waiter = "wait" /\ waiter' = "joinReader" /\ inbox' = inbox
        \/ waiter = "joinReader" /\ waiter' = "joinBatcher" /\ reader = "done" /\ inbox' = inbox
        \/ waiter = "joinBatcher" /\ waiter' = "joined" /\ batcher.pc = "done" /\ inbox' = inbox
        \/ waiter = "joined" /\ waiter' = "done" /\ inbox' = Delivered(Exit)
    BY DEF WaiterRuns, WaiterReleases, WaiterJoinsReader, WaiterJoinsBatcher, WaiterEmitsExit,
           client
  <1>4. parked' \in BOOLEAN
    BY <1>2 DEF TypeOK, WaiterRuns, WaiterReleases, WaiterJoinsReader, WaiterJoinsBatcher,
                WaiterEmitsExit, Release, gate
  <1>5. /\ inbox' = inbox \/ inbox' = Append(inbox, Exit)
        /\ view = "gone" => inbox' = inbox
        /\ inbox' # inbox => waiter' = "done"
    BY <1>3 DEF Delivered
  <1>6. /\ InboxInOrder' /\ EventShape' /\ inbox' \in Seq(Event)
        /\ \A i, j \in DOMAIN inbox' :
              inbox'[i].kind = "exit" /\ inbox'[j].kind = "output" => j < i
    BY <1>1, <1>2, <1>5, SignalKeeps
  <1>7. TypeOK'
    <2>1. waiter' \in {"wait", "joinReader", "joinBatcher", "joined", "done"}
      BY <1>3
    <2> QED BY <1>1, <1>2, <1>4, <1>6, <2>1 DEF TypeOK
  <1>8. Cut'
    <2>1. Top' = Top
      BY <1>1 DEF Top
    <2> QED BY <1>1, <2>1 DEF IInv, Cut
  <1>9. GoneIsEmpty'
    BY <1>1, <1>5 DEF IInv, GoneIsEmpty
  <1>10. Joins'
    BY <1>1, <1>3, <1>5, <1>6 DEF IInv, Joins
  <1> QED BY <1>6, <1>7, <1>8, <1>9, <1>10 DEF IInv
-----------------------------------------------------------------------------
(* The batcher and the view.                                               *)

BatcherType == [pc : {"recv", "note", "measure", "decide", "done"}, end : Seqs, level : Seqs]

LEMMA BatcherReceivesKeeps ==
  ASSUME IInv, BatcherReceives
  PROVE  IInv'
  <1> DEFINE h == Head(channel)
  <1>1. /\ UNCHANGED <<alive, cancelled, pushed, sent, acked, everAcked, parked,
                       timeouts, owed, reader, batcher, acker, waiter, killer, inbox, view, shown,
                       processed, reported, ack, reached>>
        /\ batcher.pc = "recv" /\ channel # <<>> /\ Len(batch) < BatchSize
        /\ batch' = Append(batch, h) /\ channel' = Tail(channel)
    BY DEF BatcherReceives, gate, threads, client
  <1>2. /\ TypeOK /\ channel \in Seq(1..MaxSeq) /\ batch \in Seq(1..MaxSeq) /\ MaxSeq \in Nat
        /\ channel \in Seq(Nat) /\ batch \in Seq(Nat) /\ reached \in Nat /\ Top \in Nat
        /\ reached <= Top
    BY Ranges
  <1>3. /\ DOMAIN channel = 1..Len(channel) /\ DOMAIN Tail(channel) = 1..(Len(channel) - 1)
        /\ Len(Tail(channel)) = Len(channel) - 1
        /\ h = channel[1] /\ Len(channel) \in Nat \ {0} /\ h \in 1..MaxSeq
        /\ \A i \in 1..(Len(channel) - 1) : Tail(channel)[i] = channel[i + 1]
        /\ Tail(channel) \in Seq(1..MaxSeq)
    BY <1>1, <1>2
  <1>4. /\ DOMAIN batch' = 1..(Len(batch) + 1) /\ DOMAIN batch = 1..Len(batch)
        /\ Len(batch) \in Nat /\ Len(batch') = Len(batch) + 1 /\ batch'[Len(batch) + 1] = h
        /\ \A i \in 1..Len(batch) : batch'[i] = batch[i]
        /\ batch' \in Seq(1..MaxSeq)
    BY <1>1, <1>2, <1>3
  <1>5. \A i \in 1..(Len(channel) - 1) : i + 1 \in DOMAIN channel /\ 1 < i + 1 /\ i \in Int
    BY <1>3
  <1>6. /\ Increasing(channel) /\ Increasing(batch) /\ Before(batch, channel)
        /\ Within(batch, reached, Top) /\ Within(channel, reached, Top)
    BY DEF IInv, Cut
  <1>7. 1 \in DOMAIN channel
    BY <1>3
  <1> HIDE DEF h
  <1>8. TypeOK'
    <2>1. channel' \in Chunks /\ batch' \in Chunks
      BY <1>1, <1>3, <1>4 DEF Chunks
    <2>2. Len(channel') <= ChannelSize
      <3>1. Len(channel) <= ChannelSize /\ ChannelSize \in Nat
        BY <1>2, Bounds DEF TypeOK
      <3> QED BY <1>1, <1>3, <3>1
    <2>3. Len(batch') <= BatchSize
      BY <1>1, <1>4, Bounds
    <2> QED BY <1>1, <1>2, <2>1, <2>2, <2>3 DEF TypeOK
  <1>9. \A i \in DOMAIN batch' : i \in 1..Len(batch) \/ i = Len(batch) + 1
    BY <1>4
  <1>10. reached < h /\ h <= Top /\ \A i \in 1..Len(batch) : batch[i] < h /\ i < Len(batch) + 1
    BY <1>3, <1>4, <1>6, <1>7 DEF Within, Before
  <1>11. \A i \in 1..(Len(channel) - 1) : h < Tail(channel)[i]
    BY <1>3, <1>5, <1>6, <1>7 DEF Increasing
  <1>12. Cut'
    <2>1. Top' = Top
      BY <1>1 DEF Top
    <2>2. Increasing(batch') /\ Within(batch', reached, Top)
      <3>1. Increasing(batch')
        BY <1>4, <1>6, <1>9, <1>10 DEF Increasing
      <3>2. Within(batch', reached, Top)
        BY <1>4, <1>6, <1>9, <1>10 DEF Within
      <3> QED BY <3>1, <3>2
    <2>3. Increasing(channel') /\ Within(channel', reached, Top)
      <3>1. \A i, j \in 1..(Len(channel) - 1) : i < j => i + 1 < j + 1
        BY <1>3
      <3>2. Increasing(channel')
        BY <1>1, <1>3, <1>5, <1>6, <3>1 DEF Increasing
      <3>3. Within(channel', reached, Top)
        BY <1>1, <1>3, <1>5, <1>6 DEF Within
      <3> QED BY <3>2, <3>3
    <2>4. Before(batch', channel')
      <3>1. ASSUME NEW i \in 1..Len(batch), NEW j \in 1..(Len(channel) - 1)
            PROVE  batch[i] < Tail(channel)[j]
        BY <1>3, <1>4, <1>5, <1>6 DEF Before
      <3> QED BY <1>1, <1>3, <1>4, <1>9, <1>11, <3>1 DEF Before
    <2> QED BY <1>1, <2>1, <2>2, <2>3, <2>4 DEF IInv, Cut
  <1>13. InboxInOrder' /\ EventShape' /\ GoneIsEmpty'
    BY <1>1 DEF IInv, InboxInOrder, EventShape, GoneIsEmpty
  <1>14. Joins'
    BY <1>1 DEF IInv, Joins
  <1> QED BY <1>8, <1>12, <1>13, <1>14 DEF IInv

LEMMA ListFacts ==
  ASSUME NEW S, NEW s \in Seq(S)
  PROVE  DOMAIN s = 1..Len(s) /\ Len(s) \in Nat /\ \A i \in 1..Len(s) : s[i] \in S
  OBVIOUS

\* The last chunk of a list in order.
LEMMA LastFacts ==
  ASSUME NEW s \in Seq(1..MaxSeq), s # <<>>, Increasing(s)
  PROVE  /\ Last(s) \in 1..MaxSeq /\ \A i \in DOMAIN s : s[i] <= Last(s)
         /\ \E i \in DOMAIN s : s[i] = Last(s)
  <1>1. /\ Len(s) \in DOMAIN s /\ DOMAIN s = 1..Len(s) /\ Len(s) \in Nat
        /\ \A i \in DOMAIN s : s[i] \in 1..MaxSeq
    <2>1. DOMAIN s = 1..Len(s) /\ Len(s) \in Nat /\ \A i \in 1..Len(s) : s[i] \in 1..MaxSeq
      BY ListFacts
    <2>2. Len(s) # 0
      OBVIOUS
    <2>3. Len(s) \in 1..Len(s)
      BY <2>1, <2>2
    <2> QED BY <2>1, <2>3
  <1>2. Last(s) = s[Len(s)]
    BY DEF Last
  <1>3. \A i \in DOMAIN s : i = Len(s) \/ i < Len(s)
    BY <1>1
  <1>4. MaxSeq \in Nat
    BY Bounds
  <1>5. ASSUME NEW i \in DOMAIN s
        PROVE  s[i] <= Last(s)
    <2>1. CASE i = Len(s)
      BY <1>1, <1>2, <1>4, <2>1
    <2>2. CASE i < Len(s)
      <3>1. s[i] < s[Len(s)]
        BY <1>1, <2>2 DEF Increasing
      <3> QED BY <1>1, <1>2, <1>4, <3>1
    <2> QED BY <1>3, <2>1, <2>2
  <1> QED BY <1>1, <1>2, <1>5

LEMMA EmptyList ==
  /\ <<>> \in Chunks /\ Len(<<>>) = 0 /\ Increasing(<<>>)
  /\ \A low, high : Within(<<>>, low, high)
  /\ \A s : Before(<<>>, s) /\ Before(s, <<>>)
  <1>1. DOMAIN <<>> = {} /\ <<>> \in Chunks /\ Len(<<>>) = 0
    BY DEF Chunks
  <1>2. Increasing(<<>>)
    BY <1>1 DEF Increasing
  <1>3. \A low, high : Within(<<>>, low, high)
    BY <1>1 DEF Within
  <1>4. \A s : Before(<<>>, s) /\ Before(s, <<>>)
    BY <1>1 DEF Before
  <1> QED BY <1>1, <1>2, <1>3, <1>4

LEMMA BatcherEmitsKeeps ==
  ASSUME IInv, BatcherEmits
  PROVE  IInv'
  <1> DEFINE l == Last(batch)
  <1>1. /\ UNCHANGED <<alive, cancelled, pushed, channel, sent, acked, everAcked, parked,
                       timeouts, reader, acker, waiter, killer, view, shown,
                       processed, reported, ack>>
        /\ batcher.pc = "recv" /\ batch # <<>> /\ batch' = <<>>
        /\ \/ /\ inbox' = Delivered(Output(batch))
              /\ reached' = IF view = "live" THEN l ELSE reached
              /\ batcher' = [batcher EXCEPT !.pc = "note", !.end = l]
              /\ owed' = owed
           \/ owed' = TRUE /\ inbox' = inbox /\ reached' = reached /\ batcher' = batcher
    BY DEF BatcherEmits, gate
  <1>2. /\ TypeOK /\ channel \in Seq(1..MaxSeq) /\ batch \in Seq(1..MaxSeq) /\ MaxSeq \in Nat
        /\ channel \in Seq(Nat) /\ batch \in Seq(Nat) /\ reached \in Nat /\ Top \in Nat
        /\ reached <= Top /\ inbox \in Seq(Event) /\ processed \in Nat /\ processed <= reached
        /\ Top <= MaxSeq /\ \A i \in DOMAIN inbox : inbox[i].chunks \in Seq(1..MaxSeq)
    BY Ranges
  <1>3. /\ Increasing(channel) /\ Increasing(batch) /\ Before(batch, channel)
        /\ Within(batch, reached, Top) /\ Within(channel, reached, Top)
        /\ InboxInOrder
    BY DEF IInv, Cut
  <1>4. /\ l \in 1..MaxSeq /\ \A i \in DOMAIN batch : batch[i] <= l
        /\ \E i \in DOMAIN batch : batch[i] = l
    BY <1>1, <1>2, <1>3, LastFacts
  <1> HIDE DEF l
  <1>5. reached < l /\ l <= Top /\ \A i \in DOMAIN channel : l < channel[i]
    BY <1>3, <1>4 DEF Within, Before
  <1>6. batcher' \in BatcherType /\ batcher'.pc \in {"recv", "note"}
    <2>1. batcher \in BatcherType /\ l \in Seqs
      BY <1>2, <1>4 DEF TypeOK, BatcherType, Seqs
    <2> QED BY <1>1, <2>1 DEF BatcherType
  <1>7. \/ inbox' = inbox /\ reached' = reached
        \/ inbox' = Append(inbox, Output(batch)) /\ reached' = l /\ view = "live"
    BY <1>1, <1>2 DEF Delivered, TypeOK
  <1>8. /\ Output(batch) \in Event /\ Output(batch).kind = "output"
        /\ Output(batch).chunks = batch
    BY <1>2, EventFacts DEF Chunks
  <1>9. inbox' \in Seq(Event) /\ reached' \in Seqs /\ owed' \in BOOLEAN
    <2>1. reached' \in Seqs
      <3>1. reached \in Seqs /\ l \in Seqs
        BY <1>2, <1>4 DEF TypeOK, Seqs
      <3> QED BY <1>7, <3>1
    <2>2. inbox' \in Seq(Event)
      <3>1. inbox \in Seq(Event) /\ Output(batch) \in Event
        BY <1>2, <1>8
      <3>2. Append(inbox, Output(batch)) \in Seq(Event)
        BY <3>1
      <3> QED BY <1>7, <3>1, <3>2
    <2>3. owed' \in BOOLEAN
      BY <1>1, <1>2 DEF TypeOK
    <2> QED BY <2>1, <2>2, <2>3
  <1>10. TypeOK'
    <2>1. Len(batch') <= BatchSize /\ batch' \in Chunks
      BY <1>1, EmptyList, Bounds
    <2> QED BY <1>1, <1>2, <1>6, <1>9, <2>1 DEF TypeOK, BatcherType
  <1>11. Cut'
    <2>1. Top' = Top
      BY <1>1 DEF Top
    <2>2. Increasing(batch') /\ Before(batch', channel') /\ Within(batch', reached', Top)
      BY <1>1, EmptyList
    <2>3. Within(channel', reached', Top)
      <3>1. \A i \in DOMAIN channel : reached < channel[i] /\ channel[i] <= Top
        BY <1>3 DEF Within
      <3> QED BY <1>1, <1>5, <1>7, <3>1 DEF Within
    <2>4. processed' <= reached' /\ reached' <= Top
      BY <1>1, <1>2, <1>4, <1>5, <1>7
    <2> QED BY <1>1, <2>1, <2>2, <2>3, <2>4 DEF IInv, Cut
  <1>12. CASE inbox' = inbox /\ reached' = reached
    <2>1. InboxInOrder' /\ EventShape' /\ GoneIsEmpty'
      BY <1>1, <1>12 DEF IInv, InboxInOrder, EventShape, GoneIsEmpty
    <2>2. Joins'
      BY <1>1, <1>6, <1>12 DEF IInv, Joins
    <2> QED BY <1>10, <1>11, <2>1, <2>2 DEF IInv
  <1>13. CASE inbox' = Append(inbox, Output(batch)) /\ reached' = l /\ view = "live"
    <2>1. /\ DOMAIN inbox' = 1..(Len(inbox) + 1) /\ DOMAIN inbox = 1..Len(inbox)
          /\ Len(inbox) \in Nat /\ inbox'[Len(inbox) + 1] = Output(batch)
          /\ \A i \in 1..Len(inbox) : inbox'[i] = inbox[i] /\ i < Len(inbox) + 1
          /\ \A i \in DOMAIN inbox' : i \in 1..Len(inbox) \/ i = Len(inbox) + 1
      BY <1>2, <1>8, <1>13, InboxAppend
    <2>2. InboxInOrder'
      <3>1. ASSUME NEW i \in 1..Len(inbox)
            PROVE  /\ Increasing(inbox'[i].chunks)
                   /\ Within(inbox'[i].chunks, processed, l)
                   /\ Before(inbox'[i].chunks, batch)
        <4>1. /\ Increasing(inbox[i].chunks) /\ Within(inbox[i].chunks, processed, reached)
              /\ \A k \in DOMAIN inbox[i].chunks : inbox[i].chunks[k] \in Nat
          <5>1. i \in DOMAIN inbox
            BY <2>1
          <5>2. Increasing(inbox[i].chunks) /\ Within(inbox[i].chunks, processed, reached)
            BY <1>3, <5>1 DEF InboxInOrder
          <5>3. \A k \in DOMAIN inbox[i].chunks : inbox[i].chunks[k] \in Nat
            BY <1>2, <5>1
          <5> QED BY <5>2, <5>3
        <4>2. Within(inbox[i].chunks, processed, l)
          BY <1>2, <1>4, <1>5, <4>1 DEF Within
        <4>3. Before(inbox[i].chunks, batch)
          <5>1. \A k \in DOMAIN inbox[i].chunks : inbox[i].chunks[k] <= reached
            BY <4>1 DEF Within
          <5>2. \A k \in DOMAIN batch : reached < batch[k] /\ batch[k] \in Nat
            BY <1>2, <1>3 DEF Within
          <5> QED BY <1>2, <4>1, <5>1, <5>2 DEF Before
        <4> QED BY <2>1, <4>1, <4>2, <4>3
      <3>2. Within(batch, processed, l)
        <4>1. \A k \in DOMAIN batch : reached < batch[k] /\ batch[k] \in Nat
          BY <1>2, <1>3 DEF Within
        <4> QED BY <1>2, <1>4, <4>1 DEF Within
      <3>3. ASSUME NEW i \in 1..Len(inbox)
            PROVE  \A j \in DOMAIN inbox' : i < j => Before(inbox'[i].chunks, inbox'[j].chunks)
        BY <1>3, <1>8, <2>1, <3>1 DEF InboxInOrder
      <3>4. \A j \in DOMAIN inbox' : ~(Len(inbox) + 1 < j)
        BY <2>1
      <3>5. ASSUME NEW i \in DOMAIN inbox'
            PROVE  /\ Increasing(inbox'[i].chunks)
                   /\ Within(inbox'[i].chunks, processed, l)
                   /\ \A j \in DOMAIN inbox' : i < j => Before(inbox'[i].chunks, inbox'[j].chunks)
        BY <1>3, <1>8, <2>1, <3>1, <3>2, <3>3, <3>4
      <3> QED BY <1>1, <1>13, <3>5 DEF InboxInOrder
    <2>3. EventShape'
      BY <1>1, <1>8, <2>1 DEF IInv, EventShape
    <2>4. GoneIsEmpty'
      BY <1>1, <1>13 DEF GoneIsEmpty
    <2>5. Joins'
      <3>1. waiter \notin {"joined", "done"} /\ \A i \in DOMAIN inbox : inbox[i].kind # "exit"
        BY <1>1 DEF IInv, Joins
      <3>2. \A i \in DOMAIN inbox' : inbox'[i].kind # "exit"
        BY <1>8, <2>1, <3>1
      <3> QED BY <1>1, <1>6, <3>1, <3>2 DEF IInv, Joins
    <2> QED BY <1>10, <1>11, <2>2, <2>3, <2>4, <2>5 DEF IInv
  <1> QED BY <1>7, <1>12, <1>13

LEMMA BatcherEndsKeeps ==
  ASSUME IInv, BatcherEnds
  PROVE  IInv'
  <1>1. /\ UNCHANGED <<alive, cancelled, pushed, channel, batch, sent, acked, everAcked, parked,
                       timeouts, owed, reader, acker, waiter, killer, inbox, view, shown,
                       processed, reported, ack, reached>>
        /\ batcher.pc = "recv" /\ reader = "done" /\ channel = <<>> /\ batch = <<>>
        /\ batcher' = [batcher EXCEPT !.pc = "done"]
    BY DEF BatcherEnds, BatcherGoto, gate, client
  <1>2. batcher' \in BatcherType /\ batcher'.pc = "done"
    <2>1. batcher \in BatcherType
      BY DEF IInv, TypeOK, BatcherType
    <2> QED BY <1>1, <2>1 DEF BatcherType
  <1>3. TypeOK'
    BY <1>1, <1>2 DEF IInv, TypeOK, BatcherType
  <1>4. Cut'
    <2>1. Top' = Top
      BY <1>1 DEF Top
    <2> QED BY <1>1, <2>1 DEF IInv, Cut
  <1>5. InboxInOrder' /\ EventShape' /\ GoneIsEmpty'
    BY <1>1 DEF IInv, InboxInOrder, EventShape, GoneIsEmpty
  <1>6. Joins'
    BY <1>1, <1>2 DEF IInv, Joins
  <1> QED BY <1>3, <1>4, <1>5, <1>6 DEF IInv

LEMMA ViewConsumesKeeps ==
  ASSUME IInv, ViewConsumes
  PROVE  IInv'
  <1> DEFINE e == Head(inbox)
  <1>1. /\ UNCHANGED <<alive, cancelled, pushed, channel, batch, sent, acked, everAcked, parked,
                       timeouts, owed, reader, batcher, acker, waiter, killer, view,
                       reported, ack, reached>>
        /\ view = "live" /\ inbox # <<>> /\ inbox' = Tail(inbox)
        /\ \/ /\ e.kind = "output" /\ shown' = shown \cup ToSet(e.chunks)
              /\ processed' = Max2(processed, Last(e.chunks))
           \/ e.kind = "desync" /\ shown' = 1..pushed /\ processed' = processed
           \/ e.kind \notin {"output", "desync"} /\ UNCHANGED <<shown, processed>>
    BY DEF ViewConsumes, gate, threads
  <1>2. /\ TypeOK /\ MaxSeq \in Nat /\ reached \in Nat /\ inbox \in Seq(Event)
        /\ processed \in Nat /\ processed <= reached /\ pushed \in Nat /\ pushed <= MaxSeq
        /\ reached <= MaxSeq /\ \A i \in DOMAIN inbox : inbox[i].chunks \in Seq(1..MaxSeq)
    BY Ranges
  <1>3. /\ DOMAIN inbox = 1..Len(inbox) /\ DOMAIN inbox' = 1..(Len(inbox) - 1)
        /\ e = inbox[1] /\ Len(inbox) \in Nat \ {0}
        /\ \A i \in 1..(Len(inbox) - 1) : inbox'[i] = inbox[i + 1]
        /\ inbox' \in Seq(Event)
    BY <1>1, <1>2
  <1>4. /\ 1 \in DOMAIN inbox
        /\ \A i \in DOMAIN inbox' : i + 1 \in DOMAIN inbox /\ 1 < i + 1 /\ i \in Int
                                    /\ inbox'[i] = inbox[i + 1]
    BY <1>3
  <1>5. \A i, j \in DOMAIN inbox' : i < j => i + 1 < j + 1
    BY <1>4
  <1>6. e.chunks \in Seq(1..MaxSeq) /\ Increasing(e.chunks) /\ Within(e.chunks, processed, reached)
        /\ \A i \in DOMAIN inbox' : Before(e.chunks, inbox'[i].chunks)
    BY <1>2, <1>3, <1>4 DEF IInv, InboxInOrder
  <1>7. e.kind = "output" => e.chunks # <<>>
    BY <1>3, <1>4 DEF IInv, EventShape
  <1> HIDE DEF e
  \* what the view has processed is before what is left and not after what was carried
  <1>8. /\ processed' \in Nat /\ processed' <= reached
        /\ \A i \in DOMAIN inbox' : Within(inbox'[i].chunks, processed', reached)
    <2>1. \A i \in DOMAIN inbox' : Within(inbox'[i].chunks, processed, reached)
      BY <1>4 DEF IInv, InboxInOrder
    <2>2. CASE e.kind = "output"
      <3> DEFINE l == Last(e.chunks)
      <3>1. /\ l \in 1..MaxSeq /\ \E i \in DOMAIN e.chunks : e.chunks[i] = l
        BY <1>6, <1>7, <2>2, LastFacts
      <3>2. processed < l /\ l <= reached
        BY <1>6, <3>1 DEF Within
      <3>3. processed' = Max2(processed, l)
        BY <1>1, <2>2
      <3> HIDE DEF l
      <3>4. processed' = l
        BY <1>2, <3>1, <3>2, <3>3 DEF Max2
      <3>5. ASSUME NEW i \in DOMAIN inbox'
            PROVE  Within(inbox'[i].chunks, l, reached)
        <4>1. Before(e.chunks, inbox'[i].chunks) /\ Within(inbox'[i].chunks, processed, reached)
          BY <1>6, <2>1
        <4> QED BY <3>1, <4>1 DEF Before, Within
      <3> QED BY <1>2, <3>1, <3>2, <3>4, <3>5
    <2>3. CASE e.kind # "output"
      <3>1. processed' = processed
        BY <1>1, <2>3
      <3> QED BY <1>2, <2>1, <3>1
    <2> QED BY <2>2, <2>3
  <1>9. shown' \subseteq 1..MaxSeq
    <2>1. ToSet(e.chunks) \subseteq 1..MaxSeq /\ shown \subseteq 1..MaxSeq
      BY <1>2, <1>6 DEF ToSet, TypeOK
    <2>2. 1..pushed \subseteq 1..MaxSeq
      BY <1>2
    <2> QED BY <1>1, <2>1, <2>2
  <1>10. TypeOK'
    <2>1. processed' \in Seqs
      BY <1>2, <1>8 DEF Seqs
    <2> QED BY <1>1, <1>2, <1>3, <1>9, <2>1 DEF TypeOK
  <1>11. Cut'
    <2>1. Top' = Top
      BY <1>1 DEF Top
    <2> QED BY <1>1, <1>8, <2>1 DEF IInv, Cut
  <1>12. InboxInOrder'
    <2>1. ASSUME NEW i \in DOMAIN inbox'
          PROVE  /\ Increasing(inbox'[i].chunks)
                 /\ \A j \in DOMAIN inbox' : i < j => Before(inbox'[i].chunks, inbox'[j].chunks)
      BY <1>4, <1>5 DEF IInv, InboxInOrder
    <2> QED BY <1>1, <1>8, <2>1 DEF InboxInOrder
  <1>13. EventShape'
    BY <1>4 DEF IInv, EventShape
  <1>14. GoneIsEmpty'
    BY <1>1 DEF GoneIsEmpty
  <1>15. Joins'
    <2>1. waiter # "done" => \A i \in DOMAIN inbox' : inbox'[i].kind # "exit"
      BY <1>4 DEF IInv, Joins
    <2>2. \A i, j \in DOMAIN inbox' : inbox'[i].kind = "exit" /\ inbox'[j].kind = "output" => j < i
      <3> SUFFICES ASSUME NEW i \in DOMAIN inbox', NEW j \in DOMAIN inbox',
                          inbox'[i].kind = "exit", inbox'[j].kind = "output"
                   PROVE  j < i
        OBVIOUS
      <3>1. j + 1 < i + 1
        BY <1>4 DEF IInv, Joins
      <3> QED BY <1>4, <3>1
    <2> QED BY <1>1, <2>1, <2>2 DEF IInv, Joins
  <1> QED BY <1>10, <1>11, <1>12, <1>13, <1>14, <1>15 DEF IInv

LEMMA WindowKeeps ==
  ASSUME IInv, WindowFails \/ WindowRebuilt
  PROVE  IInv'
  <1>1. /\ UNCHANGED <<alive, cancelled, pushed, channel, batch, sent, acked, everAcked, parked,
                       timeouts, owed, reader, batcher, acker, waiter, killer, ack, reached>>
        /\ \/ /\ view' = "gone" /\ inbox' = <<>> /\ shown' = {} /\ processed' = 0
              /\ reported' = 0
           \/ view = "gone" /\ view' = "live" /\ shown' = 1..pushed
              /\ UNCHANGED <<inbox, processed, reported>>
    BY DEF WindowFails, WindowRebuilt, gate, threads
  <1>2. TypeOK /\ pushed \in Nat /\ pushed <= MaxSeq /\ MaxSeq \in Nat /\ reached \in Nat
    BY Ranges
  <1>3. 1..pushed \subseteq 1..MaxSeq /\ <<>> \in Seq(Event) /\ DOMAIN <<>> = {}
    BY <1>2
  <1>4. TypeOK'
    <2>1. view' \in {"live", "gone"} /\ shown' \subseteq 1..MaxSeq
      BY <1>1, <1>3
    <2>2. processed' \in Seqs /\ reported' \in Seqs
      BY <1>1, <1>2, SeqFacts DEF TypeOK
    <2>3. inbox' \in Seq(Event)
      BY <1>1, <1>2, <1>3 DEF TypeOK
    <2> QED BY <1>1, <1>2, <2>1, <2>2, <2>3 DEF TypeOK
  <1>5. Cut'
    <2>1. Top' = Top
      BY <1>1 DEF Top
    <2>2. processed' <= reached
      BY <1>1, <1>2 DEF IInv, Cut
    <2> QED BY <1>1, <2>1, <2>2 DEF IInv, Cut
  <1>6. CASE inbox' = <<>> /\ processed' = 0
    <2>1. DOMAIN inbox' = {}
      BY <1>3, <1>6
    <2>2. InboxInOrder' /\ EventShape'
      BY <2>1 DEF InboxInOrder, EventShape
    <2>3. Joins'
      BY <1>1, <2>1 DEF IInv, Joins
    <2> QED BY <1>4, <1>5, <1>6, <2>2, <2>3 DEF IInv, GoneIsEmpty
  <1>7. CASE view' = "live" /\ UNCHANGED <<inbox, processed>>
    <2>1. InboxInOrder' /\ EventShape'
      BY <1>1, <1>7 DEF IInv, InboxInOrder, EventShape
    <2>2. Joins'
      BY <1>1, <1>7 DEF IInv, Joins
    <2> QED BY <1>4, <1>5, <1>7, <2>1, <2>2 DEF IInv, GoneIsEmpty
  <1> QED BY <1>1, <1>6, <1>7
-----------------------------------------------------------------------------
LEMMA InitIInv == Init => IInv
  <1> SUFFICES ASSUME Init
               PROVE  IInv
    OBVIOUS
  <1>1. <<>> \in Seq(Event) /\ DOMAIN <<>> = {} /\ Top = 0
    BY DEF Init, Top
  <1>2. TypeOK
    <2>1. /\ batcher \in BatcherType
          /\ acker \in [pc : {"idle", "merge", "measure", "decide"}, capped : Seqs, level : Seqs]
      BY SeqFacts DEF Init, BatcherType
    <2>2. /\ channel \in Chunks /\ Len(channel) <= ChannelSize
          /\ batch \in Chunks /\ Len(batch) <= BatchSize
      BY EmptyList, Bounds DEF Init
    <2> QED BY <1>1, <2>1, <2>2, SeqFacts DEF Init, TypeOK, BatcherType
  <1>3. Cut
    BY <1>1, EmptyList DEF Init, Cut
  <1>4. InboxInOrder /\ EventShape /\ GoneIsEmpty /\ Joins
    BY <1>1 DEF Init, InboxInOrder, EventShape, GoneIsEmpty, Joins
  <1> QED BY <1>2, <1>3, <1>4 DEF IInv

LEMMA NextIInv == IInv /\ [Next]_vars => IInv'
  <1> SUFFICES ASSUME IInv, [Next]_vars
               PROVE  IInv'
    OBVIOUS
  <1>1. CASE ReaderReads \/ ReaderRuns
    BY <1>1, ReaderWaits, DesyncKeeps, ReaderPushesKeeps, ReaderSendsKeeps, ReaderEndsKeeps
       DEF ReaderRuns
  <1>2. CASE BatcherRuns
    BY <1>2, BatcherReceivesKeeps, BatcherEmitsKeeps, BatcherCounts, BatcherEndsKeeps
       DEF BatcherRuns
  <1>3. CASE EmitterPays \/ AckRuns \/ WaiterRuns
    BY <1>3, DesyncKeeps, AckKeeps, WaiterKeeps
  <1>4. CASE ViewRuns \/ AckLost \/ WindowFails \/ WindowRebuilt
    BY <1>4, ViewConsumesKeeps, OthersKeep, WindowKeeps DEF ViewRuns
  <1>5. CASE KillRemoves \/ KillRuns \/ ChildExits
    BY <1>5, OthersKeep
  <1>6. CASE UNCHANGED vars
    <2>1. UNCHANGED <<alive, cancelled, pushed, channel, batch, sent, acked, everAcked, parked,
                      timeouts, owed, reader, batcher, acker, waiter, killer, inbox, view,
                      shown, processed, reported, ack, reached>>
      BY <1>6 DEF vars, gate, threads, client
    <2>2. TypeOK'
      BY <2>1 DEF IInv, TypeOK
    <2>3. reader = "push" => pushed < MaxSeq
      BY DEF IInv, Cut
    <2> QED BY <2>1, <2>2, <2>3, Quiet
  <1> QED BY <1>1, <1>2, <1>3, <1>4, <1>5, <1>6 DEF Next

LEMMA Invariance == Spec => []IInv
  BY InitIInv, NextIInv, PTL DEF Spec

\* Every variable of the output flow keeps its type: the gate's counters stay in the
\* range of the chunks, the channel and the batch within their capacities, the streak
\* of failsafes below FAILSAFE_TIMEOUTS_BEFORE_DESYNC (OutputFlowGate, terminal_service.rs).
THEOREM FlowTypes == Spec => []TypeOK
  <1>1. IInv => TypeOK
    BY DEF IInv
  <1> QED BY <1>1, Invariance, PTL

\* The pipeline from the reader to the view never reorders or repeats a chunk, whatever
\* the full channel, the refusing emitter and the suspended window drop, and the exit
\* event that the wait thread emits after its joins is the last word of the session.
THEOREM StreamStaysInOrder == Spec => []StreamInOrder
  <1>1. ASSUME IInv
        PROVE  StreamInOrder
    <2>1. /\ processed \in Nat /\ reached \in Nat /\ Top \in Nat /\ pushed \in Nat
          /\ processed <= reached /\ reached <= Top
          /\ (reader = "send" => pushed = Top + 1)
          /\ channel \in Seq(Nat) /\ batch \in Seq(Nat) /\ inbox \in Seq(Event)
      BY <1>1, Ranges
    <2>2. /\ Increasing(batch) /\ Increasing(channel) /\ Before(batch, channel)
          /\ Within(batch, reached, Top) /\ Within(channel, reached, Top)
      BY <1>1 DEF IInv, Cut
    <2> DEFINE rest == batch \o channel
               way == batch \o channel \o Held
    <2>3. /\ rest \in Seq(Nat) /\ \A i \in DOMAIN rest : reached < rest[i] /\ rest[i] <= Top
      <3>1. /\ rest \in Seq(Nat) /\ DOMAIN rest = 1..(Len(batch) + Len(channel))
            /\ DOMAIN batch = 1..Len(batch) /\ DOMAIN channel = 1..Len(channel)
            /\ Len(batch) \in Nat /\ Len(channel) \in Nat
            /\ \A i \in 1..(Len(batch) + Len(channel)) :
                  rest[i] = IF i <= Len(batch) THEN batch[i] ELSE channel[i - Len(batch)]
        BY <2>1
      <3>2. ASSUME NEW i \in DOMAIN rest
            PROVE  reached < rest[i] /\ rest[i] <= Top
        <4>1. CASE i <= Len(batch)
          <5>1. i \in DOMAIN batch /\ rest[i] = batch[i]
            BY <3>1, <4>1
          <5> QED BY <2>2, <5>1 DEF Within
        <4>2. CASE ~(i <= Len(batch))
          <5>1. i - Len(batch) \in DOMAIN channel /\ rest[i] = channel[i - Len(batch)]
            BY <3>1, <4>2
          <5> QED BY <2>2, <5>1 DEF Within
        <4> QED BY <4>1, <4>2
      <3> QED BY <3>1, <3>2
    <2> HIDE DEF rest
    <2>4. Held \in Seq(Nat) /\ \A i \in DOMAIN Held : Held[i] = Top + 1
      <3>1. CASE reader = "send"
        <4>1. Held = <<pushed>>
          BY <3>1 DEF Held
        <4> QED BY <2>1, <3>1, <4>1
      <3>2. CASE reader # "send"
        <4>1. Held = <<>>
          BY <3>2 DEF Held
        <4> QED BY <4>1
      <3> QED BY <3>1, <3>2
    <2>5. \A i \in DOMAIN way : reached < way[i]
      <3>1. way = rest \o Held
        BY DEF rest
      <3>2. /\ DOMAIN way = 1..(Len(rest) + Len(Held))
            /\ DOMAIN rest = 1..Len(rest) /\ DOMAIN Held = 1..Len(Held)
            /\ Len(rest) \in Nat /\ Len(Held) \in Nat
            /\ \A i \in 1..(Len(rest) + Len(Held)) :
                  way[i] = IF i <= Len(rest) THEN rest[i] ELSE Held[i - Len(rest)]
        <4> HIDE DEF way
        <4> QED BY <2>3, <2>4, <3>1
      <3> HIDE DEF way
      <3> SUFFICES ASSUME NEW i \in DOMAIN way
                   PROVE  reached < way[i]
        OBVIOUS
      <3>3. CASE i <= Len(rest)
        <4>1. i \in DOMAIN rest /\ way[i] = rest[i]
          BY <3>2, <3>3
        <4> QED BY <2>3, <4>1
      <3>4. CASE ~(i <= Len(rest))
        <4>1. i - Len(rest) \in DOMAIN Held /\ way[i] = Held[i - Len(rest)]
          BY <3>2, <3>4
        <4>2. way[i] = Top + 1
          BY <2>4, <4>1
        <4> QED BY <2>1, <4>2
      <3> QED BY <3>3, <3>4
    <2>6. \A i \in DOMAIN way : way[i] \in Int
      <3>1. way = rest \o Held
        BY DEF rest
      <3> HIDE DEF way
      <3> QED BY <2>3, <2>4, <3>1
    <2> HIDE DEF way
    <2>7. Before(rest, Held)
      <3>1. \A i \in DOMAIN rest : rest[i] \in Nat
        BY <2>3
      <3> QED BY <2>1, <2>3, <2>4, <3>1 DEF Before
    <2>8. Before(<<processed>>, way)
      <3>1. DOMAIN <<processed>> = {1} /\ <<processed>>[1] = processed
        OBVIOUS
      <3> QED BY <2>1, <2>5, <2>6, <3>1 DEF Before
    <2>9. ASSUME NEW i \in DOMAIN inbox
          PROVE  /\ Increasing(inbox[i].chunks)
                 /\ Before(<<processed>>, inbox[i].chunks)
                 /\ Before(inbox[i].chunks, way)
                 /\ \A j \in DOMAIN inbox : i < j => Before(inbox[i].chunks, inbox[j].chunks)
      <3>1. /\ Increasing(inbox[i].chunks) /\ Within(inbox[i].chunks, processed, reached)
            /\ \A j \in DOMAIN inbox : i < j => Before(inbox[i].chunks, inbox[j].chunks)
        BY <1>1 DEF IInv, InboxInOrder
      <3>2. Before(<<processed>>, inbox[i].chunks)
        <4>1. DOMAIN <<processed>> = {1} /\ <<processed>>[1] = processed
          OBVIOUS
        <4> QED BY <3>1, <4>1 DEF Before, Within
      <3>3. Before(inbox[i].chunks, way)
        <4>1. inbox[i].chunks \in Seq(1..MaxSeq)
          BY <1>1, Ranges
        <4>2. \A k \in DOMAIN inbox[i].chunks : inbox[i].chunks[k] \in 1..MaxSeq
          BY <4>1, ListFacts
        <4>3. \A k \in DOMAIN inbox[i].chunks : inbox[i].chunks[k] <= reached
          BY <3>1 DEF Within
        <4> QED BY <2>1, <2>5, <2>6, <4>2, <4>3, Bounds DEF Before
      <3> QED BY <3>1, <3>2, <3>3
    <2>10. PipelineInOrder
      BY <2>2, <2>7, <2>8, <2>9 DEF PipelineInOrder, rest, way
    <2>11. ExitIsLast
      BY <1>1 DEF IInv, Joins, ExitIsLast, Waiting
    <2> QED BY <2>10, <2>11 DEF StreamInOrder
  <1>2. IInv => StreamInOrder
    BY <1>1
  <1> QED BY <1>2, Invariance, PTL
-----------------------------------------------------------------------------
(* No chunk is lost without a word.                                        *)

Noted == owed \/ \E i \in DOMAIN inbox : inbox[i].kind = "desync"
Warned == reader \in {"dropped", "stalled"} \/ Noted

\* The flush of the UTF-8 carry at the end of the reader, whose try_send nobody looks at.
Carry(n) == CarryTail /\ reader = "done" /\ n = pushed

\* NoSilentLoss, with what covers a lost chunk named and the carry left out.
Accounted ==
    view = "live" => \A n \in 1..pushed : n \in shown \/ OnItsWay(n) \/ Warned \/ Carry(n)

LEMMA LossIsAccount ==
  ASSUME Accounted, CarryTail = FALSE \/ reader # "done"
  PROVE  NoSilentLoss
  <1>1. Waiting("desync") # {} <=> \E i \in DOMAIN inbox : inbox[i].kind = "desync"
    BY DEF Waiting
  <1>2. \A n : ~Carry(n)
    BY DEF Carry
  <1>3. Warned => reader \in {"dropped", "stalled"} \/ owed \/ Waiting("desync") # {}
    BY <1>1 DEF Warned, Noted
  <1> QED BY <1>2, <1>3 DEF NoSilentLoss, Accounted

\* A chunk on its way does not leave the way when more is appended to its list.
LEMMA AppendSet ==
  ASSUME NEW S, NEW s \in Seq(S), NEW n \in S
  PROVE  \A m : m \in ToSet(Append(s, n)) <=> m \in ToSet(s) \/ m = n
  <1> DEFINE t == Append(s, n)
  <1>1. /\ DOMAIN s = 1..Len(s) /\ DOMAIN t = 1..(Len(s) + 1) /\ Len(s) \in Nat
        /\ t[Len(s) + 1] = n /\ \A i \in 1..Len(s) : t[i] = s[i]
    OBVIOUS
  <1>2. \A i \in DOMAIN t : i \in 1..Len(s) \/ i = Len(s) + 1
    BY <1>1
  <1> HIDE DEF t
  <1>3. \A m : m \in ToSet(t) <=> m \in ToSet(s) \/ m = n
    <2>1. \A i \in DOMAIN s : i \in DOMAIN t
      BY <1>1
    <2>2. Len(s) + 1 \in DOMAIN t
      BY <1>1
    <2> QED BY <1>1, <1>2, <2>1, <2>2 DEF ToSet
  <1> QED BY <1>3 DEF t

LEMMA TailSet ==
  ASSUME NEW S, NEW s \in Seq(S), s # <<>>
  PROVE  \A m \in ToSet(s) : m = Head(s) \/ m \in ToSet(Tail(s))
  <1> DEFINE t == Tail(s)
  <1>1. /\ DOMAIN s = 1..Len(s) /\ DOMAIN t = 1..(Len(s) - 1) /\ Len(s) \in Nat \ {0}
        /\ Head(s) = s[1] /\ \A i \in 1..(Len(s) - 1) : t[i] = s[i + 1]
    OBVIOUS
  <1>2. \A i \in DOMAIN s : i = 1 \/ i - 1 \in DOMAIN t
    BY <1>1
  <1>3. \A i \in DOMAIN s : i = 1 \/ t[i - 1] = s[i]
    BY <1>1
  <1> HIDE DEF t
  <1>4. \A m \in ToSet(s) : m = Head(s) \/ m \in ToSet(t)
    BY <1>1, <1>2, <1>3 DEF ToSet
  <1> QED BY <1>4 DEF t

\* What is on its way, list by list.
InEvents(n) == \E i \in DOMAIN inbox : n \in ToSet(inbox[i].chunks)

LEMMA WayIs ==
  ASSUME NEW n
  PROVE  /\ OnItsWay(n) <=> \/ InEvents(n) \/ n \in ToSet(batch) \/ n \in ToSet(channel)
                            \/ reader = "send" /\ n = pushed
         /\ OnItsWay(n)' <=> \/ InEvents(n)' \/ n \in ToSet(batch)' \/ n \in ToSet(channel)'
                             \/ reader' = "send" /\ n = pushed'
  <1>1. \A m : n \in ToSet(<<m>>) <=> n = m
    BY DEF ToSet
  <1>2. n \notin ToSet(<<>>)
    BY DEF ToSet
  <1>3. n \in ToSet(Held) <=> reader = "send" /\ n = pushed
    BY <1>1, <1>2 DEF Held
  <1>4. n \in ToSet(Held)' <=> reader' = "send" /\ n = pushed'
    BY <1>1, <1>2 DEF Held
  <1> QED BY <1>3, <1>4 DEF OnItsWay, InEvents

\* The steps that neither move a chunk nor take a warning back.
LEMMA LossQuiet ==
  ASSUME Accounted, UNCHANGED <<pushed, channel, batch, inbox, view, shown, owed>>,
         reader' = "send" <=> reader = "send", reader = "done" => reader' = "done",
         reader \in {"dropped", "stalled"} => reader' \in {"dropped", "stalled"}
  PROVE  Accounted'
  <1>1. \A n : OnItsWay(n) => OnItsWay(n)'
    BY WayIs DEF InEvents
  <1>2. Warned => Warned'
    BY DEF Warned, Noted
  <1>3. \A n : Carry(n) => Carry(n)'
    BY DEF Carry
  <1> QED BY <1>1, <1>2, <1>3 DEF Accounted

\* After a desync was sent to a live view one is waiting there.
LEMMA DesyncWaits ==
  ASSUME inbox \in Seq(Event), view = "live", inbox' = DesyncSent
  PROVE  \E i \in DOMAIN inbox' : inbox'[i].kind = "desync"
  <1>1. CASE Cardinality(Waiting("desync")) < MaxDesync
    <2>1. inbox' = Append(inbox, Desync)
      BY <1>1 DEF DesyncSent, Delivered
    <2>2. Len(inbox) + 1 \in DOMAIN inbox' /\ inbox'[Len(inbox) + 1] = Desync
      <3>1. Desync \in Event
        BY EventFacts
      <3>2. DOMAIN inbox' = 1..(Len(inbox) + 1) /\ Len(inbox) \in Nat
            /\ inbox'[Len(inbox) + 1] = Desync
        BY <2>1, <3>1, InboxAppend
      <3> QED BY <3>2
    <2> QED BY <2>2, EventFacts
  <1>2. CASE ~(Cardinality(Waiting("desync")) < MaxDesync)
    <2>1. inbox' = inbox
      BY <1>2 DEF DesyncSent
    <2>2. Waiting("desync") # {}
      BY <1>2, Bounds, FS_EmptySet
    <2> QED BY <2>1, <2>2 DEF Waiting
  <1> QED BY <1>1, <1>2

LEMMA SignalsAccount ==
  ASSUME IInv, Accounted, ReaderSignalsStall \/ ReaderSignalsDrop \/ EmitterPays
  PROVE  Accounted'
  <1>1. inbox' = DesyncSent /\ view' = view
    BY DEF ReaderSignalsStall, ReaderSignalsDrop, EmitterPays
  <1>2. inbox \in Seq(Event)
    BY Ranges
  <1>3. view = "live" => Warned'
    BY <1>1, <1>2, DesyncWaits DEF Warned, Noted
  <1> QED BY <1>1, <1>3 DEF Accounted

LEMMA ReaderAccounts ==
  ASSUME IInv, Accounted, ReaderPushes \/ ReaderSends
  PROVE  Accounted'
  <1>1. /\ UNCHANGED <<batch, inbox, view, shown, owed>>
        /\ reader \in {"push", "send"} /\ pushed \in Nat /\ channel \in Seq(Nat)
    BY Ranges DEF ReaderPushes, ReaderSends, client
  <1>2. \A n : InEvents(n) <=> InEvents(n)'
    BY <1>1 DEF InEvents
  <1>3. Noted => Noted'
    BY <1>1 DEF Noted
  <1>6. pushed \in Nat
    BY Ranges
  <1>7. \A n : ~Carry(n)
    BY <1>1 DEF Carry
  <1>4. CASE ReaderPushes
    <2>1. /\ channel' = channel
          /\ \/ reader' = "tail" /\ pushed' = pushed
             \/ reader' = "send" /\ pushed' = pushed + 1
      BY <1>4 DEF ReaderPushes, ReaderGoto
    <2>2. reader = "push"
      BY <1>4 DEF ReaderPushes
    <2>3. \A n : OnItsWay(n) => OnItsWay(n)'
      BY <1>1, <1>2, <2>1, <2>2, WayIs
    <2>4. \A n : reader' = "send" /\ n = pushed' => OnItsWay(n)'
      BY WayIs
    <2>5. \A n \in 1..pushed' : n \in 1..pushed \/ (reader' = "send" /\ n = pushed')
      <3>1. CASE reader' = "send" /\ pushed' = pushed + 1
        <4>1. \A n \in 1..(pushed + 1) : n \in 1..pushed \/ n = pushed + 1
          BY <1>6
        <4> QED BY <1>6, <3>1, <4>1
      <3>2. CASE pushed' = pushed
        BY <1>6, <3>2
      <3> QED BY <2>1, <3>1, <3>2
    <2>6. Warned => Warned'
      BY <1>3, <2>2 DEF Warned
    <2> QED BY <1>1, <1>7, <2>3, <2>4, <2>5, <2>6 DEF Accounted
  <1>5. CASE ReaderSends
    <2>1. /\ pushed' = pushed /\ reader = "send"
          /\ \/ channel' = Append(channel, pushed) /\ reader' = "gate"
             \/ channel' = channel /\ reader' = "dropped"
      BY <1>5 DEF ReaderSends, ReaderGoto
    <2>2. CASE reader' = "dropped"
      <3>1. Warned'
        BY <2>2 DEF Warned, Noted
      <3> QED BY <3>1 DEF Accounted
    <2>3. CASE channel' = Append(channel, pushed)
      <3>1. \A m : m \in ToSet(channel)' <=> m \in ToSet(channel) \/ m = pushed
        BY <1>1, <2>3, AppendSet
      <3>2. \A n : OnItsWay(n) => OnItsWay(n)'
        BY <1>1, <1>2, <3>1, WayIs
      <3>3. Warned => Warned'
        BY <1>3, <2>1 DEF Warned
      <3> QED BY <1>1, <1>7, <2>1, <3>2, <3>3 DEF Accounted
    <2> QED BY <2>1, <2>2, <2>3
  <1> QED BY <1>4, <1>5

LEMMA BatcherAccounts ==
  ASSUME IInv, Accounted, BatcherReceives \/ BatcherEmits
  PROVE  Accounted'
  <1>1. /\ UNCHANGED <<pushed, view, shown, reader>>
        /\ channel \in Seq(1..MaxSeq) /\ batch \in Seq(1..MaxSeq) /\ inbox \in Seq(Event)
    BY Ranges DEF BatcherReceives, BatcherEmits, threads, client
  <1>4. \A n : Carry(n) <=> Carry(n)'
    BY <1>1 DEF Carry
  <1>2. CASE BatcherReceives
    <2>1. /\ channel # <<>> /\ batch' = Append(batch, Head(channel)) /\ channel' = Tail(channel)
          /\ UNCHANGED <<inbox, owed>>
      BY <1>2 DEF BatcherReceives, client
    <2>2. Head(channel) \in 1..MaxSeq
      <3>1. channel \in Seq(1..MaxSeq) /\ channel # <<>>
        BY <1>1, <2>1
      <3>2. 1 \in 1..Len(channel) /\ Head(channel) = channel[1]
        BY <3>1
      <3>3. \A i \in 1..Len(channel) : channel[i] \in 1..MaxSeq
        BY <3>1, ListFacts
      <3> QED BY <3>2, <3>3
    <2>3. \A m : m \in ToSet(batch)' <=> m \in ToSet(batch) \/ m = Head(channel)
      BY <1>1, <2>1, <2>2, AppendSet
    <2>4. \A m \in ToSet(channel) : m = Head(channel) \/ m \in ToSet(channel)'
      BY <1>1, <2>1, TailSet
    <2>5. \A n : InEvents(n) => InEvents(n)'
      BY <2>1 DEF InEvents
    <2>6. \A n : OnItsWay(n) => OnItsWay(n)'
      BY <1>1, <2>3, <2>4, <2>5, WayIs
    <2>7. Warned => Warned'
      BY <1>1, <2>1 DEF Warned, Noted
    <2> QED BY <1>1, <1>4, <2>6, <2>7 DEF Accounted
  <1>3. CASE BatcherEmits
    <2>1. /\ batch' = <<>> /\ channel' = channel
          /\ \/ inbox' = Delivered(Output(batch)) /\ owed' = owed
             \/ owed' = TRUE
      BY <1>3 DEF BatcherEmits
    <2>2. CASE owed'
      <3>1. Warned'
        BY <2>2 DEF Warned, Noted
      <3> QED BY <3>1 DEF Accounted
    <2>3. CASE inbox' = Delivered(Output(batch)) /\ owed' = owed
      <3> SUFFICES ASSUME view = "live"
                   PROVE  Accounted'
        BY <1>1 DEF Accounted
      <3>1. inbox' = Append(inbox, Output(batch))
        BY <2>3 DEF Delivered
      <3>2. Output(batch) \in Event /\ Output(batch).chunks = batch
        BY <1>1, EventFacts DEF Chunks
      <3>3. /\ DOMAIN inbox' = 1..(Len(inbox) + 1) /\ DOMAIN inbox = 1..Len(inbox)
            /\ Len(inbox) \in Nat /\ inbox'[Len(inbox) + 1] = Output(batch)
            /\ \A i \in 1..Len(inbox) : inbox'[i] = inbox[i]
        BY <1>1, <3>1, <3>2, InboxAppend
      <3>4. Len(inbox) + 1 \in DOMAIN inbox' /\ \A i \in DOMAIN inbox : i \in DOMAIN inbox'
        BY <3>3
      <3>5. \A n : InEvents(n) \/ n \in ToSet(batch) => InEvents(n)'
        BY <3>2, <3>3, <3>4 DEF InEvents
      <3>6. \A n : OnItsWay(n) => OnItsWay(n)'
        BY <1>1, <2>1, <3>5, WayIs
      <3>7. Warned => Warned'
        BY <1>1, <2>3, <3>3, <3>4 DEF Warned, Noted
      <3> QED BY <1>1, <1>4, <3>6, <3>7 DEF Accounted
    <2> QED BY <2>1, <2>2, <2>3
  <1> QED BY <1>2, <1>3

LEMMA ViewAccounts ==
  ASSUME IInv, Accounted, ViewConsumes
  PROVE  Accounted'
  <1> DEFINE e == Head(inbox)
  <1>1. /\ UNCHANGED <<pushed, view, reader, batch, channel, owed>>
        /\ view = "live" /\ inbox # <<>> /\ inbox' = Tail(inbox)
        /\ \/ e.kind = "output" /\ shown' = shown \cup ToSet(e.chunks)
           \/ e.kind = "desync" /\ shown' = 1..pushed
           \/ e.kind \notin {"output", "desync"} /\ shown' = shown
    BY DEF ViewConsumes, threads
  <1>2. inbox \in Seq(Event)
    BY Ranges
  <1>3. /\ DOMAIN inbox = 1..Len(inbox) /\ DOMAIN inbox' = 1..(Len(inbox) - 1)
        /\ e = inbox[1] /\ Len(inbox) \in Nat \ {0}
        /\ \A i \in 1..(Len(inbox) - 1) : inbox'[i] = inbox[i + 1]
    BY <1>1, <1>2
  <1>4. /\ 1 \in DOMAIN inbox
        /\ \A i \in DOMAIN inbox : i = 1 \/ (i - 1 \in DOMAIN inbox' /\ inbox'[i - 1] = inbox[i])
    <2>1. ASSUME NEW i \in DOMAIN inbox, i # 1
          PROVE  i - 1 \in DOMAIN inbox' /\ inbox'[i - 1] = inbox[i]
      <3>1. i - 1 \in 1..(Len(inbox) - 1) /\ (i - 1) + 1 = i
        BY <1>3, <2>1
      <3>2. inbox'[i - 1] = inbox[(i - 1) + 1]
        BY <1>3, <3>1
      <3> QED BY <1>3, <3>1, <3>2
    <2>2. 1 \in DOMAIN inbox
      BY <1>3
    <2>3. \A i \in DOMAIN inbox : i = 1 \/ (i - 1 \in DOMAIN inbox' /\ inbox'[i - 1] = inbox[i])
      BY <2>1
    <2> QED BY <2>2, <2>3
  <1>5. e.kind # "output" => ToSet(e.chunks) = {}
    <2>1. e.kind # "output" => e.chunks = <<>>
      BY <1>3, <1>4 DEF IInv, EventShape
    <2> QED BY <2>1 DEF ToSet
  <1> HIDE DEF e
  <1>8. \A n : Carry(n) <=> Carry(n)'
    BY <1>1 DEF Carry
  <1>6. CASE e.kind = "desync"
    BY <1>1, <1>6 DEF Accounted
  <1>7. CASE e.kind # "desync"
    <2>1. shown' = shown \cup ToSet(e.chunks)
      BY <1>1, <1>5, <1>7
    <2>2. \A n : InEvents(n) => InEvents(n)' \/ n \in shown'
      BY <1>3, <1>4, <2>1 DEF InEvents
    <2>3. \A n : OnItsWay(n) => OnItsWay(n)' \/ n \in shown'
      BY <1>1, <2>2, WayIs
    <2>4. Warned => Warned'
      BY <1>1, <1>3, <1>4, <1>7 DEF Warned, Noted
    <2> QED BY <1>1, <1>8, <2>1, <2>3, <2>4 DEF Accounted
  <1> QED BY <1>6, <1>7

\* The exit event carries nothing and takes nothing away.
LEMMA ExitAccounts ==
  ASSUME IInv, Accounted, WaiterEmitsExit
  PROVE  Accounted'
  <1>1. /\ UNCHANGED <<pushed, view, shown, reader, batch, channel, owed>>
        /\ inbox' = Delivered(Exit)
    BY DEF WaiterEmitsExit
  <1>2. inbox \in Seq(Event) /\ Exit \in Event
    BY Ranges, EventFacts
  <1>3. CASE view = "live"
    <2>1. inbox' = Append(inbox, Exit)
      BY <1>1, <1>3 DEF Delivered
    <2>2. \A i \in DOMAIN inbox : i \in DOMAIN inbox' /\ inbox'[i] = inbox[i]
      BY <1>2, <2>1
    <2>3. \A n : OnItsWay(n) => OnItsWay(n)'
      BY <1>1, <2>2, WayIs DEF InEvents
    <2>4. Warned => Warned'
      BY <1>1, <2>2 DEF Warned, Noted
    <2>5. \A n : Carry(n) <=> Carry(n)'
      BY <1>1 DEF Carry
    <2> QED BY <1>1, <2>3, <2>4, <2>5 DEF Accounted
  <1>4. CASE view # "live"
    BY <1>1, <1>4 DEF Accounted
  <1> QED BY <1>3, <1>4

\* The last chunk may vanish, no other.
LEMMA CarryAccounts ==
  ASSUME IInv, Accounted, ReaderEnds
  PROVE  Accounted'
  <1>1. /\ UNCHANGED <<batch, inbox, view, shown, owed>> /\ reader = "tail" /\ reader' = "done"
        /\ \/ UNCHANGED <<pushed, channel>>
           \/ CarryTail /\ pushed' = pushed + 1 /\ channel' \in {Append(channel, pushed'), channel}
    BY DEF ReaderEnds, ReaderGoto, client
  <1>2. CASE UNCHANGED <<pushed, channel>>
    BY <1>1, <1>2, LossQuiet
  <1>3. CASE /\ CarryTail /\ pushed' = pushed + 1
             /\ channel' \in {Append(channel, pushed'), channel}
    <2>1. pushed \in Nat /\ channel \in Seq(Nat)
      BY Ranges
    <2>2. \A n \in ToSet(channel) : n \in ToSet(channel)'
      <3>1. CASE channel' = Append(channel, pushed + 1)
        <4>1. \A m : m \in ToSet(Append(channel, pushed + 1)) <=> m \in ToSet(channel) \/ m = pushed + 1
          BY <2>1, AppendSet
        <4> QED BY <3>1, <4>1
      <3>2. CASE channel' = channel
        BY <3>2
      <3> QED BY <1>3, <3>1, <3>2
    <2>3. \A n : InEvents(n) => InEvents(n)'
      BY <1>1 DEF InEvents
    <2>4. \A n : OnItsWay(n) => OnItsWay(n)'
      BY <1>1, <2>2, <2>3, WayIs
    <2>5. Warned => Warned'
      BY <1>1 DEF Warned, Noted
    <2>6. \A n : ~Carry(n)
      BY <1>1 DEF Carry
    <2>7. \A n : n = pushed + 1 => Carry(n)'
      BY <1>1, <1>3 DEF Carry
    <2>8. \A n \in 1..pushed' : n \in 1..pushed \/ n = pushed + 1
      BY <1>3, <2>1
    <2> QED BY <1>1, <2>4, <2>5, <2>6, <2>7, <2>8 DEF Accounted
  <1> QED BY <1>1, <1>2, <1>3

LEMMA NextAccounts == IInv /\ Accounted /\ [Next]_vars => Accounted'
  <1> SUFFICES ASSUME IInv, Accounted, [Next]_vars
               PROVE  Accounted'
    OBVIOUS
  <1>1. CASE ReaderReads \/ ReaderRuns
    <2>1. CASE ReaderGate \/ ReaderWakes \/ ReaderTimesOut \/ ReaderChecks \/ ReaderReads
      <3>1. /\ UNCHANGED <<pushed, channel, batch, inbox, view, shown, owed>>
            /\ reader \in {"gate", "waiting", "check", "read"}
            /\ reader' \in {"tail", "waiting", "read", "check", "stalled", "push"}
        BY <2>1 DEF ReaderGate, ReaderWakes, ReaderTimesOut, ReaderChecks, ReaderReads, ReaderGoto,
                    client
      <3> QED BY <3>1, LossQuiet
    <2> QED BY <1>1, <2>1, CarryAccounts, SignalsAccount, ReaderAccounts DEF ReaderRuns
  <1>2. CASE BatcherRuns
    <2>1. CASE BatcherNotes \/ BatcherMeasures \/ BatcherDecides \/ BatcherEnds
      <3>1. UNCHANGED <<pushed, channel, batch, inbox, view, shown, owed, reader>>
        BY <2>1 DEF BatcherNotes, BatcherMeasures, BatcherDecides, BatcherEnds, client
      <3> QED BY <3>1, LossQuiet
    <2> QED BY <1>2, <2>1, BatcherAccounts DEF BatcherRuns
  <1>3. CASE WaiterRuns
    <2>1. CASE WaiterReleases \/ WaiterJoinsReader \/ WaiterJoinsBatcher
      <3>1. UNCHANGED <<pushed, channel, batch, inbox, view, shown, owed, reader>>
        BY <2>1 DEF WaiterReleases, WaiterJoinsReader, WaiterJoinsBatcher, client
      <3> QED BY <3>1, LossQuiet
    <2> QED BY <1>3, <2>1, ExitAccounts DEF WaiterRuns
  <1>4. CASE AckRuns \/ ViewReports \/ AckLost \/ KillRemoves \/ KillRuns \/ ChildExits
             \/ UNCHANGED vars
    <2>1. UNCHANGED <<pushed, channel, batch, inbox, view, shown, owed, reader>>
      BY <1>4 DEF AckRuns, AckArrives, AckMerges, AckMeasures, AckDecides, ViewReports, AckLost,
                  KillRemoves, KillRuns, KillCancels, KillReleases, KillKills, ChildExits, vars,
                  threads, client
    <2> QED BY <2>1, LossQuiet
  <1>5. CASE WindowFails \/ WindowRebuilt
    BY <1>5 DEF WindowFails, WindowRebuilt, Accounted
  <1>6. CASE EmitterPays \/ ViewConsumes
    BY <1>6, SignalsAccount, ViewAccounts
  <1> QED BY <1>1, <1>2, <1>3, <1>4, <1>5, <1>6 DEF Next, ViewRuns

LEMMA AccountsHold == Spec => []Accounted
  <1>1. Init => Accounted
    BY DEF Init, Accounted
  <1> QED BY <1>1, NextAccounts, Invariance, PTL DEF Spec

\* A chunk that ReplayBuffer recorded is on the screen, in one of the queues, or a desync
\* that makes the view rebuild itself is due: neither a full channel, nor a refused emit,
\* nor a window that dies loses output in silence, as long as the reader runs.
THEOREM NoChunkVanishes == Spec => [](reader # "done" => NoSilentLoss)
  <1>1. Accounted => (reader # "done" => NoSilentLoss)
    BY LossIsAccount
  <1> QED BY <1>1, AccountsHold, PTL

\* When the output ends on a whole character the same holds to the end of the session:
\* the flush of the UTF-8 carry is the only send whose loss nobody is told of.
THEOREM NoChunkVanishesAtEnd ==
  ASSUME CarryTail = FALSE
  PROVE  Spec => []NoSilentLoss
  <1>1. Accounted => NoSilentLoss
    BY LossIsAccount
  <1> QED BY <1>1, AccountsHold, PTL
-----------------------------------------------------------------------------
(* The accounts of the gate.                                               *)

\* What LedgerIsTrue needs of the values under way: the end of the batch that was
\* emitted, the acknowledgement that was clamped, the one that was reported.
Ledger ==
    /\ view = "live"
    /\ sent <= reached /\ batcher.end <= reached
    /\ acked <= sent /\ acker.capped <= sent
    /\ acked <= processed /\ acker.capped <= processed /\ ack <= processed

LEMMA Counters ==
  ASSUME TypeOK
  PROVE  /\ sent \in Nat /\ acked \in Nat /\ ack \in Nat /\ processed \in Nat /\ reached \in Nat
         /\ batcher.end \in Nat /\ acker.capped \in Nat
         /\ batcher \in BatcherType
         /\ acker \in [pc : {"idle", "merge", "measure", "decide"}, capped : Seqs, level : Seqs]
  <1>1. MaxSeq \in Nat
    BY Bounds
  <1>2. Seqs \subseteq Nat
    BY <1>1 DEF Seqs
  <1>3. /\ batcher \in BatcherType
        /\ acker \in [pc : {"idle", "merge", "measure", "decide"}, capped : Seqs, level : Seqs]
    BY DEF TypeOK, BatcherType
  <1>4. batcher.end \in Seqs /\ acker.capped \in Seqs
    BY <1>3 DEF BatcherType
  <1>5. {sent, acked, ack, processed, reached} \subseteq Seqs
    BY DEF TypeOK
  <1>6. /\ sent \in Nat /\ acked \in Nat /\ ack \in Nat /\ processed \in Nat /\ reached \in Nat
        /\ batcher.end \in Nat /\ acker.capped \in Nat
    BY <1>2, <1>4, <1>5
  <1> QED BY <1>3, <1>6

\* The stream moves on only: what an event carried, and what the view processed.
LEMMA OnlyForward ==
  ASSUME MaySuspend = FALSE, IInv, Ledger, Next
  PROVE  view' = "live" /\ reached <= reached' /\ processed <= processed'
  <1>1. reached \in Nat /\ processed \in Nat /\ view = "live"
    BY Ranges DEF Ledger
  <1>2. CASE BatcherEmits
    <2>1. /\ batch # <<>> /\ reached' \in {reached, Last(batch)} /\ UNCHANGED <<view, processed>>
      BY <1>1, <1>2 DEF BatcherEmits
    <2>2. batch \in Seq(1..MaxSeq) /\ MaxSeq \in Nat
      BY Ranges
    <2>3. Increasing(batch) /\ Within(batch, reached, Top)
      BY DEF IInv, Cut
    <2>4. reached < Last(batch)
      <3>1. \E i \in DOMAIN batch : batch[i] = Last(batch)
        BY <2>1, <2>2, <2>3, LastFacts
      <3> QED BY <2>3, <3>1 DEF Within
    <2>5. Last(batch) \in Nat
      <3>1. Last(batch) \in 1..MaxSeq
        BY <2>1, <2>2, <2>3, LastFacts
      <3> QED BY <2>2, <3>1
    <2> QED BY <1>1, <2>1, <2>4, <2>5
  <1>3. CASE ViewConsumes
    <2>1. /\ UNCHANGED <<view, reached>>
          /\ processed' = processed \/ processed' = Max2(processed, Last(Head(inbox).chunks))
      BY <1>3 DEF ViewConsumes
    <2>2. processed' \in Nat
      <3>1. IInv'
        BY <1>3, ViewConsumesKeeps
      <3>2. TypeOK'
        BY <3>1 DEF IInv
      <3>3. processed' \in 0..MaxSeq /\ MaxSeq \in Nat
        BY <3>2, Bounds DEF TypeOK, Seqs
      <3> QED BY <3>3
    <2>3. CASE processed' = Max2(processed, Last(Head(inbox).chunks))
      <3>1. processed' = processed \/ ~(processed > processed')
        BY <2>3 DEF Max2
      <3> QED BY <1>1, <2>1, <2>2, <3>1
    <2> QED BY <1>1, <2>1, <2>3
  <1>4. CASE ~BatcherEmits /\ ~ViewConsumes
    <2>1. ~WindowFails /\ ~WindowRebuilt
      BY <1>1 DEF WindowFails, WindowRebuilt
    <2>2. CASE ReaderReads \/ ReaderRuns
      <3>1. UNCHANGED <<view, reached, processed>>
        BY <2>2 DEF ReaderReads, ReaderRuns, ReaderGate, ReaderWakes, ReaderTimesOut,
                    ReaderSignalsStall, ReaderChecks, ReaderPushes, ReaderSends,
                    ReaderSignalsDrop, ReaderEnds, client
      <3> QED BY <1>1, <3>1
    <2>3. CASE BatcherRuns \/ EmitterPays \/ AckRuns
      <3>1. UNCHANGED <<view, reached, processed>>
        BY <1>4, <2>3 DEF BatcherRuns, BatcherReceives, BatcherNotes, BatcherMeasures,
                    BatcherDecides, BatcherEnds, EmitterPays, AckRuns, AckArrives, AckMerges,
                    AckMeasures, AckDecides, client
      <3> QED BY <1>1, <3>1
    <2>4. CASE ViewReports \/ AckLost \/ KillRemoves \/ KillRuns \/ ChildExits \/ WaiterRuns
      <3>1. UNCHANGED <<view, reached, processed>>
        BY <2>4 DEF ViewReports, AckLost, KillRemoves, KillRuns, KillCancels, KillReleases,
                    KillKills, ChildExits, WaiterRuns, WaiterReleases, WaiterJoinsReader,
                    WaiterJoinsBatcher, WaiterEmitsExit, client
      <3> QED BY <1>1, <3>1
    <2> QED BY <1>4, <2>1, <2>2, <2>3, <2>4 DEF Next, ViewRuns
  <1> QED BY <1>2, <1>3, <1>4

LEMMA NextLedger ==
  ASSUME MaySuspend = FALSE
  PROVE  IInv /\ Ledger /\ [Next]_vars => Ledger'
  <1> SUFFICES ASSUME IInv, Ledger, [Next]_vars
               PROVE  Ledger'
    OBVIOUS
  <1>1. /\ sent \in Nat /\ acked \in Nat /\ ack \in Nat /\ processed \in Nat /\ reached \in Nat
        /\ batcher.end \in Nat /\ acker.capped \in Nat
        /\ batcher \in BatcherType
        /\ acker \in [pc : {"idle", "merge", "measure", "decide"}, capped : Seqs, level : Seqs]
    BY Counters DEF IInv
  <1>2. processed' \in Nat /\ reached' \in Nat
    <2>1. TypeOK'
      BY NextIInv DEF IInv
    <2>2. processed' \in 0..MaxSeq /\ reached' \in 0..MaxSeq /\ MaxSeq \in Nat
      BY <2>1, Bounds DEF TypeOK, Seqs
    <2> QED BY <2>2
  <1>3. CASE UNCHANGED vars
    BY <1>3 DEF vars, gate, threads, client, Ledger
  <1>4. ASSUME Next
        PROVE  Ledger'
    <2>1. view' = "live" /\ reached <= reached' /\ processed <= processed'
      BY <1>4, OnlyForward
    <2>2. ASSUME UNCHANGED <<sent, acked, acker, ack>>, batcher'.end \in {batcher.end, 0}
          PROVE  Ledger'
      BY <1>1, <1>2, <2>1, <2>2 DEF Ledger
    <2>3. ASSUME UNCHANGED <<sent, acked, batcher>>,
                 acker'.capped \in {acker.capped, 0}, ack' \in {ack, 0}
          PROVE  Ledger'
      BY <1>1, <1>2, <2>1, <2>3 DEF Ledger
    <2>4. CASE ReaderReads \/ ReaderRuns
      <3>1. UNCHANGED <<sent, acked, acker, ack, batcher>>
        BY <2>4 DEF ReaderReads, ReaderRuns, ReaderGate, ReaderWakes, ReaderTimesOut,
                    ReaderSignalsStall, ReaderChecks, ReaderPushes, ReaderSends,
                    ReaderSignalsDrop, ReaderEnds, gate, client
      <3> QED BY <2>2, <3>1
    <2>5. CASE \/ KillRemoves \/ KillRuns \/ ChildExits \/ WaiterRuns \/ EmitterPays
               \/ ViewConsumes \/ BatcherReceives \/ WindowFails \/ WindowRebuilt
      <3>1. UNCHANGED <<sent, acked, acker, ack, batcher>>
        BY <2>5 DEF KillRemoves, KillRuns, KillCancels, KillReleases, Release,
                    KillKills, ChildExits, WaiterRuns, WaiterReleases, WaiterJoinsReader,
                    WaiterJoinsBatcher, WaiterEmitsExit, EmitterPays, ViewConsumes,
                    BatcherReceives, WindowFails, WindowRebuilt, gate, threads, client
      <3> QED BY <2>2, <3>1
    <2>6. CASE BatcherEmits
      <3>1. /\ UNCHANGED <<sent, acked, acker, ack>> /\ view = "live"
            /\ \/ batcher' = batcher
               \/ /\ batcher' = [batcher EXCEPT !.pc = "note", !.end = Last(batch)]
                  /\ reached' = Last(batch)
        BY <2>6 DEF BatcherEmits, gate, Ledger
      <3>2. batcher'.end \in {batcher.end, reached'}
        BY <1>1, <3>1 DEF BatcherType
      <3> QED BY <1>1, <1>2, <2>1, <3>1, <3>2 DEF Ledger
    <2>7. CASE BatcherNotes
      <3>1. /\ UNCHANGED <<acked, acker, ack>> /\ sent' = Max2(sent, batcher.end)
            /\ batcher' = [batcher EXCEPT !.pc = "measure"]
        BY <2>7 DEF BatcherNotes, BatcherGoto, client
      <3>2. sent' \in {sent, batcher.end} /\ sent <= sent'
        BY <1>1, <3>1 DEF Max2
      <3>3. batcher'.end = batcher.end
        BY <1>1, <3>1 DEF BatcherType
      <3> QED BY <1>1, <1>2, <2>1, <3>1, <3>2, <3>3 DEF Ledger
    <2>8. CASE BatcherMeasures \/ BatcherDecides \/ BatcherEnds
      <3>1. /\ UNCHANGED <<sent, acked, acker, ack>>
            /\ \/ batcher' = [batcher EXCEPT !.pc = "decide", !.level = InFlight(sent, acked)]
               \/ batcher' = [batcher EXCEPT !.pc = "recv"]
               \/ batcher' = [batcher EXCEPT !.pc = "done"]
               \/ batcher' = [pc |-> "recv", end |-> 0, level |-> 0]
        BY <2>8 DEF BatcherMeasures, BatcherDecides, BatcherEnds, BatcherGoto, gate, client
      <3>2. batcher'.end \in {batcher.end, 0}
        <4>1. CASE batcher' = [pc |-> "recv", end |-> 0, level |-> 0]
          BY <4>1
        <4>2. CASE batcher' = [batcher EXCEPT !.pc = "decide", !.level = InFlight(sent, acked)]
          BY <1>1, <4>2 DEF BatcherType
        <4>3. CASE \/ batcher' = [batcher EXCEPT !.pc = "recv"]
                   \/ batcher' = [batcher EXCEPT !.pc = "done"]
          BY <1>1, <4>3 DEF BatcherType
        <4> QED BY <3>1, <4>1, <4>2, <4>3
      <3> QED BY <2>2, <3>1, <3>2
    <2>9. CASE AckArrives
      <3>1. /\ UNCHANGED <<sent, acked, batcher>> /\ ack' = 0
            /\ \/ acker' = [pc |-> "merge", capped |-> Min2(ack, sent), level |-> 0]
               \/ acker' = acker
        BY <2>9 DEF AckArrives
      <3>2. Min2(ack, sent) \in {ack, sent} /\ Min2(ack, sent) <= ack /\ Min2(ack, sent) <= sent
        BY <1>1 DEF Min2
      <3>3. acker'.capped \in {acker.capped, Min2(ack, sent)}
        BY <3>1
      <3> QED BY <1>1, <1>2, <2>1, <3>1, <3>2, <3>3 DEF Ledger
    <2>10. CASE AckMerges
      <3>1. /\ UNCHANGED <<sent, batcher, ack>> /\ acked' = Max2(acked, acker.capped)
            /\ acker' = [acker EXCEPT !.pc = "measure", !.capped = 0]
        BY <2>10 DEF AckMerges, client
      <3>2. acked' \in {acked, acker.capped}
        BY <3>1 DEF Max2
      <3>3. acker'.capped = 0
        BY <1>1, <3>1
      <3> QED BY <1>1, <1>2, <2>1, <3>1, <3>2, <3>3 DEF Ledger
    <2>11. CASE AckMeasures \/ AckDecides
      <3>1. /\ UNCHANGED <<sent, acked, batcher, ack>>
            /\ \/ acker' = [acker EXCEPT !.pc = "decide", !.level = InFlight(sent, acked)]
               \/ acker' = [pc |-> "idle", capped |-> 0, level |-> 0]
        BY <2>11 DEF AckMeasures, AckDecides, gate, client
      <3>2. acker'.capped \in {acker.capped, 0}
        <4>1. CASE acker' = [pc |-> "idle", capped |-> 0, level |-> 0]
          BY <4>1
        <4>2. CASE acker' = [acker EXCEPT !.pc = "decide", !.level = InFlight(sent, acked)]
          BY <1>1, <4>2
        <4> QED BY <3>1, <4>1, <4>2
      <3> QED BY <2>3, <3>1, <3>2
    <2>12. CASE AckLost
      <3>1. UNCHANGED <<sent, acked, batcher, acker>> /\ ack' = 0
        BY <2>12 DEF AckLost, gate, threads
      <3> QED BY <2>3, <3>1
    <2>13. CASE ViewReports
      <3>1. UNCHANGED <<sent, acked, batcher, acker>> /\ ack' = Max2(ack, processed)
        BY <2>13 DEF ViewReports, gate, threads
      <3>2. ack' \in {ack, processed}
        BY <3>1 DEF Max2
      <3> QED BY <1>1, <1>2, <2>1, <3>1, <3>2 DEF Ledger
    <2> QED BY <1>4, <2>4, <2>5, <2>6, <2>7, <2>8, <2>9, <2>10, <2>11, <2>12, <2>13
            DEF Next, BatcherRuns, AckRuns, ViewRuns
  <1> QED BY <1>3, <1>4

\* The gate counts as sent only what an event carried to a view, for a refused emit would
\* be a debt that no acknowledgement clears, and never believes more consumed than was
\* sent and than the view has processed, in whatever order note_sent, note_acked and the
\* acknowledgements that overtake one another run.  An emitter that answers Ok while its
\* window is gone (TauriEmitter) is left out: there the counts run ahead of the view.
THEOREM GateKeepsTrueLedger ==
  ASSUME MaySuspend = FALSE
  PROVE  Spec => []LedgerIsTrue
  <1>1. Init => Ledger
    BY DEF Init, Ledger
  <1>2. Spec => [](IInv /\ Ledger)
    BY <1>1, InitIInv, NextIInv, NextLedger, PTL DEF Spec
  <1>3. ASSUME IInv, Ledger
        PROVE  LedgerIsTrue
    <2>1. Min2(sent, processed) \in {sent, processed}
      BY DEF Min2
    <2> QED BY <1>3, <2>1 DEF Ledger, LedgerIsTrue
  <1>4. IInv /\ Ledger => LedgerIsTrue
    BY <1>3
  <1> QED BY <1>2, <1>4, PTL
=============================================================================
