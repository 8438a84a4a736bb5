--------------------------- MODULE WsMirrorProofs ---------------------------
(***************************************************************************)
(* Theorems about WsMirror, for all sets of clients and every value of the *)
(* capacities and the bounds.                                              *)
(*                                                                         *)
(* That no screen has a hole rests on two facts at once.  A chunk that a   *)
(* client misses is on its way or owed (ChunkIsOwed), so that a chunk is   *)
(* queued only behind its predecessors or behind a desync; and therefore   *)
(* whatever is queued finds everything before it on the screen when it is  *)
(* forwarded (QueueHasNoHole).                                             *)
(***************************************************************************)
EXTENDS WsMirror, TLAPS

\* The reader numbers the chunks as they come, the channel keeps their order, and
\* a chunk that was skipped is the last one and not in it.
ChannelInOrder ==
    /\ \A i \in DOMAIN channel : channel[i] \in 1..pushed
    /\ \A i, j \in DOMAIN channel : i < j => channel[i] < channel[j]
    /\ skipped => \A i \in DOMAIN channel : channel[i] # pushed

Holds(queue, m) == \E i \in DOMAIN queue : queue[i] = m

\* GapIsOwed, and more precisely: the reader owes the last chunk only.
ChunkIsOwed ==
    \A c \in Client : Open(c) =>
        \A n \in 1..pushed :
            \/ n \in screen[c]
            \/ Holds(channel, n)
            \/ Holds(sub[c].queue, Output(n)) \/ Holds(sub[c].queue, Desync)
            \/ sub[c].desynced \/ sub[c].dropped \/ forgot[c]
            \/ skipped /\ n = pushed

\* When a queued chunk is forwarded to a client that shows `shown`, everything
\* before it is on the screen, put there by what is ahead of it in the queue: a
\* rebuild or the chunks themselves.
NoHoleIn(queue, shown) ==
    \A i \in DOMAIN queue : queue[i].kind = "output" =>
        \/ \E j \in 1..(i - 1) : queue[j] = Desync
        \/ \A n \in 1..(queue[i].seq - 1) :
              n \in shown \/ \E j \in 1..(i - 1) : queue[j] = Output(n)

QueueHasNoHole == \A c \in Client : forgot[c] \/ NoHoleIn(sub[c].queue, screen[c])

\* No message of the queue runs ahead of the chunk p.
Below(queue, p) == \A i \in DOMAIN queue : queue[i].seq <= p

\* Nothing runs ahead of the reader; only the hidden gate drops behind itself.
Bounded ==
    \A c \in Client :
        /\ screen[c] \subseteq 1..pushed
        /\ Below(sub[c].queue, pushed)
        /\ sub[c].dropped => sub[c].hidden
        /\ sub[c].state = "none" => sub[c].queue = <<>>

IInv ==
    /\ TypeOK
    /\ ScreenHasNoHole
    /\ ChannelInOrder
    /\ ChunkIsOwed
    /\ QueueHasNoHole
    /\ Bounded
-----------------------------------------------------------------------------
(* Messages, queues and subscribers.                                       *)

Subscriber == [state : {"none", "open", "ended"}, queue : Seq(Message),
               desynced : BOOLEAN, hidden : BOOLEAN, dropped : BOOLEAN]

LEMMA MessageFacts ==
    /\ \A n \in 1..MaxSeq : Output(n) \in Message /\ Output(n).kind = "output"
                                                  /\ Output(n).seq = n
    /\ Desync \in Message /\ Desync.kind = "desync" /\ Desync.seq = 0
    /\ \A kind \in {"killed", "exit"} :
          End(kind) \in Message /\ End(kind).kind = kind /\ End(kind).seq = 0
    /\ \A m \in Message :
          /\ m.kind \in {"output", "desync", "killed", "exit"} /\ m.seq \in 0..MaxSeq
          /\ m.kind = "output" => m.seq \in 1..MaxSeq /\ m = Output(m.seq)
          /\ m.kind = "desync" => m = Desync
  BY CapacityAssumption DEF Message, Output, Desync, End

LEMMA HoldsAppend ==
  ASSUME NEW S, NEW q \in Seq(S), NEW m \in S, NEW x
  PROVE  Holds(Append(q, m), x) <=> Holds(q, x) \/ x = m
  <1>1. /\ DOMAIN Append(q, m) = 1..(Len(q) + 1) /\ DOMAIN q = 1..Len(q)
        /\ Append(q, m)[Len(q) + 1] = m
        /\ \A i \in 1..Len(q) : Append(q, m)[i] = q[i]
    OBVIOUS
  <1>2. Len(q) \in Nat
    OBVIOUS
  <1> QED BY <1>1, <1>2 DEF Holds

LEMMA HoldsTail ==
  ASSUME NEW S, NEW q \in Seq(S), q # <<>>, NEW x
  PROVE  Holds(q, x) <=> x = Head(q) \/ Holds(Tail(q), x)
  <1>1. /\ DOMAIN q = 1..Len(q) /\ DOMAIN Tail(q) = 1..(Len(q) - 1)
        /\ Head(q) = q[1] /\ Len(q) \in Nat \ {0}
        /\ \A i \in 1..(Len(q) - 1) : Tail(q)[i] = q[i + 1]
    OBVIOUS
  <1>2. \A i \in 2..Len(q) : i - 1 \in 1..(Len(q) - 1) /\ q[i] = Tail(q)[i - 1]
    BY <1>1
  <1>3. ASSUME NEW i \in 1..Len(q)
        PROVE  i = 1 \/ i \in 2..Len(q)
    BY <1>1
  <1>4. Holds(q, x) => x = Head(q) \/ Holds(Tail(q), x)
    BY <1>1, <1>2, <1>3 DEF Holds
  <1>5. \A i \in 1..(Len(q) - 1) : i + 1 \in 1..Len(q)
    BY <1>1
  <1>6. x = Head(q) \/ Holds(Tail(q), x) => Holds(q, x)
    BY <1>1, <1>5 DEF Holds
  <1> QED BY <1>4, <1>6

\* Only an appended chunk has to find everything before it.
LEMMA AppendOther ==
  ASSUME NEW q \in Seq(Message), NEW m \in Message, m.kind # "output", NEW shown,
         NoHoleIn(q, shown)
  PROVE  NoHoleIn(Append(q, m), shown)
  <1>1. /\ DOMAIN Append(q, m) = 1..(Len(q) + 1) /\ DOMAIN q = 1..Len(q)
        /\ Append(q, m)[Len(q) + 1] = m /\ Len(q) \in Nat
        /\ \A i \in 1..Len(q) : Append(q, m)[i] = q[i]
    OBVIOUS
  <1> QED BY <1>1 DEF NoHoleIn

LEMMA AppendOutput ==
  ASSUME NEW q \in Seq(Message), NEW n \in 1..MaxSeq, NEW shown, NoHoleIn(q, shown),
         \/ Holds(q, Desync)
         \/ \A k \in 1..(n - 1) : k \in shown \/ Holds(q, Output(k))
  PROVE  NoHoleIn(Append(q, Output(n)), shown)
  <1>1. Output(n) \in Message /\ Output(n).seq = n
    BY MessageFacts
  <1> DEFINE a == Append(q, Output(n))
  <1>2. /\ DOMAIN a = 1..(Len(q) + 1) /\ DOMAIN q = 1..Len(q)
        /\ a[Len(q) + 1] = Output(n) /\ Len(q) \in Nat
        /\ \A i \in 1..Len(q) : a[i] = q[i]
    BY <1>1
  <1>3. \A i \in 1..Len(q) : i # Len(q) + 1 /\ 1..(i - 1) \subseteq 1..Len(q)
    BY <1>2
  <1>4. ASSUME NEW i \in 1..Len(q), a[i].kind = "output"
        PROVE  \/ \E j \in 1..(i - 1) : a[j] = Desync
               \/ \A k \in 1..(a[i].seq - 1) :
                     k \in shown \/ \E j \in 1..(i - 1) : a[j] = Output(k)
    BY <1>2, <1>3, <1>4 DEF NoHoleIn
  <1>5. \/ \E j \in 1..Len(q) : a[j] = Desync
        \/ \A k \in 1..(a[Len(q) + 1].seq - 1) :
              k \in shown \/ \E j \in 1..Len(q) : a[j] = Output(k)
    BY <1>1, <1>2 DEF Holds
  <1>6. 1..(Len(q) + 1 - 1) = 1..Len(q)
    BY <1>2
  <1> HIDE DEF a
  <1>7. \A i \in DOMAIN a : i \in 1..Len(q) \/ i = Len(q) + 1
    BY <1>2
  <1>8. NoHoleIn(a, shown)
    BY <1>4, <1>5, <1>6, <1>7 DEF NoHoleIn
  <1> QED BY <1>8 DEF a

\* A client that rebuilt its screen from the first p chunks misses nothing before
\* a message of the queue.
LEMMA AllShown ==
  ASSUME NEW q \in Seq(Message), NEW p \in Nat, Below(q, p)
  PROVE  NoHoleIn(q, 1..p)
  <1> SUFFICES ASSUME NEW i \in DOMAIN q, q[i].kind = "output", NEW n \in 1..(q[i].seq - 1)
               PROVE  n \in 1..p
    BY DEF NoHoleIn
  <1>1. q[i] \in Message
    OBVIOUS
  <1>2. q[i].seq \in 0..MaxSeq /\ q[i].seq <= p
    BY <1>1, MessageFacts DEF Below
  <1> QED BY <1>2, CapacityAssumption

\* The client shows the head of its queue: the rest has no hole either.
LEMMA TailKeeps ==
  ASSUME NEW q \in Seq(Message), q # <<>>, NEW shown, NEW after, NoHoleIn(q, shown),
         Head(q) # Desync, shown \subseteq after,
         Head(q).kind = "output" => Head(q).seq \in after
  PROVE  NoHoleIn(Tail(q), after)
  <1>1. /\ DOMAIN q = 1..Len(q) /\ DOMAIN Tail(q) = 1..(Len(q) - 1)
        /\ Head(q) = q[1] /\ Len(q) \in Nat \ {0}
        /\ \A i \in 1..(Len(q) - 1) : Tail(q)[i] = q[i + 1]
        /\ \A i \in 1..Len(q) : q[i] \in Message
    OBVIOUS
  <1> SUFFICES ASSUME NEW i \in 1..(Len(q) - 1), q[i + 1].kind = "output"
               PROVE  \/ \E j \in 1..(i - 1) : Tail(q)[j] = Desync
                      \/ \A n \in 1..(q[i + 1].seq - 1) :
                            n \in after \/ \E j \in 1..(i - 1) : Tail(q)[j] = Output(n)
    BY <1>1 DEF NoHoleIn
  <1>2. i + 1 \in DOMAIN q /\ q[i + 1].seq \in 0..MaxSeq
    BY <1>1, MessageFacts
  <1>3. \A x : (\E j \in 1..i : q[j] = x) => x = q[1] \/ \E j \in 1..(i - 1) : Tail(q)[j] = x
    <2>1. ASSUME NEW j \in 1..i, j # 1
          PROVE  j - 1 \in 1..(i - 1) /\ Tail(q)[j - 1] = q[j]
      BY <1>1, <2>1
    <2> QED BY <2>1
  <1>4. \/ \E j \in 1..i : q[j] = Desync
        \/ \A n \in 1..(q[i + 1].seq - 1) : n \in shown \/ \E j \in 1..i : q[j] = Output(n)
    BY <1>1, <1>2 DEF NoHoleIn
  <1>5. ASSUME NEW n \in 1..(q[i + 1].seq - 1), n \notin after
        PROVE  Output(n) # q[1]
    <2>1. n \in 1..MaxSeq
      BY <1>2, CapacityAssumption
    <2> QED BY <1>1, <1>5, <2>1, MessageFacts
  <1> QED BY <1>1, <1>3, <1>4, <1>5

LEMMA BelowAppend ==
  ASSUME NEW q \in Seq(Message), NEW m \in Message, NEW p \in Nat, Below(q, p), m.seq <= p
  PROVE  Below(Append(q, m), p)
  BY DEF Below

LEMMA BelowTail ==
  ASSUME NEW q \in Seq(Message), q # <<>>, NEW p \in Nat, Below(q, p)
  PROVE  Below(Tail(q), p)
  BY DEF Below

LEMMA PutFacts ==
  ASSUME NEW s \in Subscriber, NEW m \in Message
  PROVE  /\ Put(s, m) \in Subscriber
         /\ Put(s, m).queue = Append(s.queue, m) /\ Len(Put(s, m).queue) = Len(s.queue) + 1
         /\ Put(s, m).state = s.state /\ Put(s, m).desynced = s.desynced
         /\ Put(s, m).hidden = s.hidden /\ Put(s, m).dropped = s.dropped
  BY DEF Subscriber, Put

\* Paying the desync that is owed.
LEMMA PayFacts ==
  ASSUME NEW s \in Subscriber, Len(s.queue) <= Capacity, NEW paid, paid = PayDesync(s)
  PROVE  /\ paid \in Subscriber /\ Len(paid.queue) <= Capacity /\ Len(paid.queue) \in Nat
         /\ paid.state = s.state /\ paid.hidden = s.hidden /\ paid.dropped = s.dropped
         /\ \/ paid.queue = s.queue /\ (s.desynced => paid.desynced)
            \/ paid.queue = Append(s.queue, Desync) /\ s.desynced /\ ~paid.desynced
  <1>1. Desync \in Message
    BY MessageFacts
  <1>2. Capacity \in Nat /\ Len(s.queue) \in Nat
    BY CapacityAssumption DEF Subscriber
  <1>3. CASE s.desynced /\ HasRoom(s)
    <2>1. paid = [Put(s, Desync) EXCEPT !.desynced = FALSE]
      BY <1>3 DEF PayDesync
    <2>2. Put(s, Desync) \in Subscriber
      BY <1>1, PutFacts
    <2>3. /\ paid \in Subscriber /\ paid.queue = Put(s, Desync).queue /\ ~paid.desynced
          /\ paid.state = Put(s, Desync).state /\ paid.hidden = Put(s, Desync).hidden
          /\ paid.dropped = Put(s, Desync).dropped
      BY <2>1, <2>2 DEF Subscriber
    <2>4. /\ Put(s, Desync).queue = Append(s.queue, Desync)
          /\ Len(Put(s, Desync).queue) = Len(s.queue) + 1
          /\ Put(s, Desync).state = s.state /\ Put(s, Desync).hidden = s.hidden
          /\ Put(s, Desync).dropped = s.dropped
      BY <1>1, PutFacts
    <2>5. Len(s.queue) < Capacity
      BY <1>3 DEF HasRoom
    <2>6. Len(paid.queue) <= Capacity /\ Len(paid.queue) \in Nat
      BY <1>2, <2>3, <2>4, <2>5
    <2>7. paid.queue = Append(s.queue, Desync)
      BY <2>3, <2>4
    <2>8. /\ paid.state = s.state /\ paid.hidden = s.hidden
          /\ paid.dropped = s.dropped
      BY <2>3, <2>4
    <2> QED BY <1>3, <2>3, <2>6, <2>7, <2>8
  <1>4. CASE ~(s.desynced /\ HasRoom(s))
    BY <1>2, <1>4 DEF PayDesync
  <1> QED BY <1>3, <1>4

OutputOffered(s, m) == Offer(s, m, TRUE)
EndOffered(s, m) == Offer(s, m, FALSE)

\* What one message does to one subscriber: output is not lost without a desync in
\* the queue, the latch or the mark of the gate.
LEMMA OfferOutput ==
  ASSUME NEW s \in Subscriber, Len(s.queue) <= Capacity, NEW m \in Message,
         NEW r, r = OutputOffered(s, m)
  PROVE  /\ r \in Subscriber /\ Len(r.queue) <= Capacity
         /\ r.state = s.state /\ r.hidden = s.hidden
         /\ r.dropped => s.dropped \/ s.hidden
         /\ \/ r.queue = s.queue /\ (r.desynced \/ r.dropped)
            \/ r.queue = Append(s.queue, Desync)
            \/ r.queue = Append(s.queue, m) /\ ~s.desynced /\ ~s.hidden
            \/ r.queue = Append(Append(s.queue, Desync), m)
  <1> PICK paid : paid = PayDesync(s)
    OBVIOUS
  <1>1. /\ paid \in Subscriber /\ Len(paid.queue) <= Capacity /\ Len(paid.queue) \in Nat
        /\ paid.state = s.state /\ paid.hidden = s.hidden /\ paid.dropped = s.dropped
        /\ \/ paid.queue = s.queue /\ (s.desynced => paid.desynced)
           \/ paid.queue = Append(s.queue, Desync) /\ s.desynced /\ ~paid.desynced
    BY PayFacts
  <1>6. paid \in Subscriber /\ paid.queue \in Seq(Message) /\ Len(paid.queue) \in Nat
    BY <1>1 DEF Subscriber
  <1>7. paid \in Subscriber
    BY <1>1
  <1>2. CASE s.hidden
    <2>1. r = [s EXCEPT !.dropped = TRUE]
      BY <1>2 DEF Offer, OutputOffered
    <2> QED BY <1>2, <2>1 DEF Subscriber
  <1>3. CASE ~s.hidden
    <2>1. r = IF paid.desynced THEN paid
              ELSE IF HasRoom(paid) THEN Put(paid, m)
              ELSE [paid EXCEPT !.desynced = TRUE]
      BY <1>3 DEF Offer, OutputOffered
    <2>2. CASE paid.desynced
      BY <1>1, <2>1, <2>2
    <2>3. CASE ~paid.desynced /\ HasRoom(paid)
      <3>1. r = Put(paid, m)
        BY <2>1, <2>3
      <3>2. /\ r \in Subscriber /\ r.queue = Append(paid.queue, m)
            /\ r.state = paid.state /\ r.hidden = paid.hidden /\ r.dropped = paid.dropped
        BY <1>7, <3>1, PutFacts
      <3>3. Len(paid.queue) < Capacity /\ Capacity \in Nat
        BY <2>3, CapacityAssumption DEF HasRoom
      <3>4. Len(r.queue) <= Capacity
        BY <1>6, <3>2, <3>3
      <3> QED BY <1>1, <1>3, <2>3, <3>2, <3>4
    <2>4. CASE ~paid.desynced /\ ~HasRoom(paid)
      <3>1. r = [paid EXCEPT !.desynced = TRUE]
        BY <2>1, <2>4
      <3>2. /\ r \in Subscriber /\ r.queue = paid.queue /\ r.desynced = TRUE
            /\ r.state = paid.state /\ r.hidden = paid.hidden /\ r.dropped = paid.dropped
        BY <1>1, <3>1 DEF Subscriber
      <3> QED BY <1>1, <2>4, <3>2
    <2> QED BY <2>2, <2>3, <2>4
  <1> QED BY <1>2, <1>3

LEMMA OfferEnd ==
  ASSUME NEW s \in Subscriber, Len(s.queue) <= Capacity, NEW m \in Message,
         NEW r, r = EndOffered(s, m)
  PROVE  /\ r \in Subscriber /\ Len(r.queue) <= Capacity
         /\ r.state = s.state /\ r.hidden = s.hidden
         /\ r.dropped => s.dropped \/ s.hidden
         /\ \/ r.queue = s.queue
            \/ r.queue = Append(s.queue, Desync)
            \/ r.queue = Append(s.queue, m)
            \/ r.queue = Append(Append(s.queue, Desync), m)
  <1> PICK paid : paid = PayDesync(s)
    OBVIOUS
  <1>1. /\ paid \in Subscriber /\ Len(paid.queue) <= Capacity /\ Len(paid.queue) \in Nat
        /\ paid.state = s.state /\ paid.hidden = s.hidden /\ paid.dropped = s.dropped
        /\ \/ paid.queue = s.queue /\ (s.desynced => paid.desynced)
           \/ paid.queue = Append(s.queue, Desync) /\ s.desynced /\ ~paid.desynced
    BY PayFacts
  <1>6. paid \in Subscriber /\ paid.queue \in Seq(Message) /\ Len(paid.queue) \in Nat
    BY <1>1 DEF Subscriber
  <1>7. paid \in Subscriber
    BY <1>1
  <1>2. r = IF paid.desynced THEN paid
            ELSE IF HasRoom(paid) THEN Put(paid, m)
            ELSE [paid EXCEPT !.desynced = FALSE]
    BY DEF Offer, EndOffered
  <1>3. CASE paid.desynced
    BY <1>1, <1>2, <1>3
  <1>4. CASE ~paid.desynced /\ HasRoom(paid)
    <2>1. r = Put(paid, m)
      BY <1>2, <1>4
    <2>2. /\ r \in Subscriber /\ r.queue = Append(paid.queue, m)
          /\ r.state = paid.state /\ r.hidden = paid.hidden /\ r.dropped = paid.dropped
      BY <1>7, <2>1, PutFacts
    <2>3. Len(paid.queue) < Capacity /\ Capacity \in Nat
      BY <1>4, CapacityAssumption DEF HasRoom
    <2>4. Len(r.queue) <= Capacity
      BY <1>6, <2>2, <2>3
    <2> QED BY <1>1, <2>2, <2>4
  <1>5. CASE ~paid.desynced /\ ~HasRoom(paid)
    <2>1. r = [paid EXCEPT !.desynced = FALSE]
      BY <1>2, <1>5
    <2>2. /\ r \in Subscriber /\ r.queue = paid.queue
          /\ r.state = paid.state /\ r.hidden = paid.hidden /\ r.dropped = paid.dropped
      BY <1>1, <2>1 DEF Subscriber
    <2> QED BY <1>1, <2>2
  <1> QED BY <1>3, <1>4, <1>5
-----------------------------------------------------------------------------
(* The steps.                                                              *)

LEMMA TypeFacts ==
  ASSUME TypeOK
  PROVE  /\ pushed \in 0..MaxSeq /\ MaxSeq \in Nat /\ skipped \in BOOLEAN
         /\ channel \in Seq(1..MaxSeq)
         /\ sub \in [Client -> Subscriber]
         /\ \A c \in Client : Len(sub[c].queue) <= Capacity
         /\ \A c \in Client : sub[c] \in Subscriber /\ sub[c].queue \in Seq(Message)
         /\ screen \in [Client -> SUBSET (1..MaxSeq)] /\ forgot \in [Client -> BOOLEAN]
  BY CapacityAssumption DEF TypeOK, Subscriber

LEMMA ReaderPushesKeeps ==
  ASSUME IInv, ReaderPushes
  PROVE  IInv'
  <1>1. /\ pushed \in 0..MaxSeq /\ pushed' = pushed + 1 /\ pushed + 1 \in 1..MaxSeq
        /\ ~skipped /\ MaxSeq \in Nat
        /\ UNCHANGED <<session, sub, link, hide, report, screen, told, forgot>>
    BY TypeFacts DEF IInv, ReaderPushes
  <1>2. \/ /\ channel' = Append(channel, pushed + 1) /\ skipped' = FALSE
           /\ Len(channel) < BatchRoom
        \/ channel' = channel /\ skipped' = TRUE
    BY <1>1 DEF ReaderPushes
  <1>3. channel \in Seq(1..MaxSeq) /\ channel \in Seq(Nat) /\ Len(channel) \in Nat
    BY TypeFacts DEF IInv
  <1>4. TypeOK'
    <2>1. channel' \in Seq(1..MaxSeq) /\ Len(channel') <= BatchRoom /\ skipped' \in BOOLEAN
      <3>1. BatchRoom \in Nat
        BY CapacityAssumption
      <3>2. CASE channel' = Append(channel, pushed + 1) /\ Len(channel) < BatchRoom
        <4>1. Append(channel, pushed + 1) \in Seq(1..MaxSeq)
          BY <1>1, <1>3
        <4>2. Len(Append(channel, pushed + 1)) = Len(channel) + 1
          BY <1>1, <1>3
        <4>3. skipped' \in BOOLEAN
          BY <1>2
        <4> QED BY <1>3, <3>1, <3>2, <4>1, <4>2, <4>3
      <3>3. CASE channel' = channel
        BY <1>2, <3>3 DEF IInv, TypeOK
      <3> QED BY <1>2, <3>2, <3>3
    <2>2. pushed' \in 0..MaxSeq
      BY <1>1
    <2> QED BY <1>1, <2>1, <2>2 DEF IInv, TypeOK
  <1>5. ScreenHasNoHole'
    BY <1>1 DEF IInv, ScreenHasNoHole, Whole
  <1>6. ChannelInOrder'
    <2>1. CASE channel' = Append(channel, pushed + 1) /\ skipped' = FALSE
      <3>1. /\ DOMAIN channel' = 1..(Len(channel) + 1) /\ DOMAIN channel = 1..Len(channel)
            /\ channel'[Len(channel) + 1] = pushed + 1
            /\ \A i \in 1..Len(channel) : channel'[i] = channel[i]
        BY <1>3, <1>1, <2>1
      <3>2. \A i \in DOMAIN channel' : i \in DOMAIN channel \/ i = Len(channel) + 1
        BY <1>3, <3>1
      <3>3. \A i \in DOMAIN channel' : channel'[i] \in 1..pushed'
        BY <1>1, <3>1, <3>2 DEF IInv, ChannelInOrder
      <3>4. \A i, j \in DOMAIN channel' : i < j => channel'[i] < channel'[j]
        BY <1>1, <1>3, <3>1, <3>2 DEF IInv, ChannelInOrder
      <3> QED BY <2>1, <3>3, <3>4 DEF ChannelInOrder
    <2>2. CASE channel' = channel
      BY <1>1, <2>2 DEF IInv, ChannelInOrder
    <2> QED BY <1>2, <2>1, <2>2
  <1>7. ChunkIsOwed'
    <2>1. \A n : Holds(Append(channel, pushed + 1), n) <=> Holds(channel, n) \/ n = pushed + 1
      BY <1>1, <1>3, HoldsAppend
    <2>2. \A n : Holds(channel, n) => Holds(channel', n)
      BY <1>2, <2>1
    <2>3. Holds(channel', pushed') \/ skipped'
      BY <1>1, <1>2, <2>1
    <2>4. \A n \in 1..pushed' : n \in 1..pushed \/ n = pushed'
      BY <1>1
    <2> SUFFICES ASSUME NEW c \in Client, Open(c), NEW n \in 1..pushed'
                 PROVE  \/ n \in screen[c]
                        \/ Holds(channel', n)
                        \/ Holds(sub[c].queue, Output(n)) \/ Holds(sub[c].queue, Desync)
                        \/ sub[c].desynced \/ sub[c].dropped \/ forgot[c]
                        \/ skipped' /\ n = pushed'
      BY <1>1 DEF ChunkIsOwed, Open
    <2>5. CASE n \in 1..pushed
      BY <1>1, <2>2, <2>5 DEF IInv, ChunkIsOwed
    <2>6. CASE n = pushed'
      BY <2>3, <2>6
    <2> QED BY <2>4, <2>5, <2>6
  <1>8. QueueHasNoHole'
    BY <1>1 DEF IInv, QueueHasNoHole
  <1>9. Bounded'
    <2>1. 1..pushed \subseteq 1..pushed'
      BY <1>1
    <2>2. ASSUME NEW c \in Client
          PROVE  Below(sub[c].queue, pushed')
      <3>1. sub[c].queue \in Seq(Message) /\ Below(sub[c].queue, pushed)
        BY TypeFacts DEF IInv, Bounded
      <3>2. \A i \in DOMAIN sub[c].queue : sub[c].queue[i].seq \in Int
        BY <3>1, MessageFacts
      <3> QED BY <1>1, <3>1, <3>2 DEF Below
    <2> QED BY <1>1, <2>1, <2>2 DEF IInv, Bounded
  <1> QED BY <1>4, <1>5, <1>6, <1>7, <1>8, <1>9 DEF IInv

\* What an addition to the queue of a subscriber keeps of the invariant.
LEMMA AppendMessage ==
  ASSUME NEW q \in Seq(Message), NEW m \in Message, NEW p \in Nat, m.seq <= p, Below(q, p)
  PROVE  /\ Append(q, m) \in Seq(Message) /\ Below(Append(q, m), p)
         /\ \A x : Holds(Append(q, m), x) <=> Holds(q, x) \/ x = m
         /\ m.kind # "output" => \A shown : NoHoleIn(q, shown) => NoHoleIn(Append(q, m), shown)
  BY BelowAppend, HoldsAppend, AppendOther

LEMMA AppendDesync ==
  ASSUME NEW q \in Seq(Message), NEW p \in Nat, Below(q, p)
  PROVE  /\ Append(q, Desync) \in Seq(Message) /\ Below(Append(q, Desync), p)
         /\ Holds(Append(q, Desync), Desync)
         /\ \A x : Holds(q, x) => Holds(Append(q, Desync), x)
         /\ \A shown : NoHoleIn(q, shown) => NoHoleIn(Append(q, Desync), shown)
  BY MessageFacts, AppendMessage

LEMMA SignalledFacts ==
  ASSUME NEW s \in Subscriber, Len(s.queue) <= Capacity, NEW r, r = Signalled(s)
  PROVE  /\ r \in Subscriber /\ Len(r.queue) <= Capacity
         /\ r.state = s.state /\ r.hidden = s.hidden
         /\ r.dropped => s.dropped \/ s.hidden
         /\ \/ r.queue = s.queue /\ (r.desynced \/ r.dropped)
            \/ r.queue = Append(s.queue, Desync)
  <1>1. Capacity \in Nat /\ Len(s.queue) \in Nat
    BY CapacityAssumption DEF Subscriber
  <1>2. CASE s.hidden
    <2>1. r = [s EXCEPT !.dropped = TRUE]
      BY <1>2 DEF Signalled
    <2> QED BY <1>2, <2>1 DEF Subscriber
  <1>3. CASE ~s.hidden /\ HasRoom(s)
    <2>1. r = [Put(s, Desync) EXCEPT !.desynced = FALSE]
      BY <1>3 DEF Signalled
    <2>2. /\ Put(s, Desync) \in Subscriber
          /\ Put(s, Desync).queue = Append(s.queue, Desync)
          /\ Len(Put(s, Desync).queue) = Len(s.queue) + 1
          /\ Put(s, Desync).state = s.state /\ Put(s, Desync).hidden = s.hidden
          /\ Put(s, Desync).dropped = s.dropped
      BY MessageFacts, PutFacts
    <2>3. /\ r \in Subscriber /\ r.queue = Put(s, Desync).queue
          /\ r.state = Put(s, Desync).state /\ r.hidden = Put(s, Desync).hidden
          /\ r.dropped = Put(s, Desync).dropped
      BY <2>1, <2>2 DEF Subscriber
    <2>4. Len(r.queue) <= Capacity
      BY <1>1, <1>3, <2>2, <2>3 DEF HasRoom
    <2>5. r.queue = Append(s.queue, Desync) /\ r.state = s.state /\ r.hidden = s.hidden
      BY <2>2, <2>3
    <2>6. r.dropped = s.dropped
      BY <2>2, <2>3
    <2> QED BY <2>3, <2>4, <2>5, <2>6
  <1>4. CASE ~s.hidden /\ ~HasRoom(s)
    <2>1. r = [s EXCEPT !.desynced = TRUE]
      BY <1>4 DEF Signalled
    <2> QED BY <2>1 DEF Subscriber
  <1> QED BY <1>2, <1>3, <1>4

LEMMA SignalDesyncKeeps ==
  ASSUME IInv, SignalDesync
  PROVE  IInv'
  <1>1. /\ skipped' = FALSE
        /\ UNCHANGED <<pushed, channel, session, link, hide, report, screen, told, forgot>>
        /\ sub' = [c \in Client |-> IF Open(c) THEN Signalled(sub[c]) ELSE sub[c]]
    BY DEF SignalDesync
  <1>2. /\ pushed \in Nat
        /\ \A c \in Client : /\ sub[c] \in Subscriber /\ sub[c].queue \in Seq(Message)
                             /\ Len(sub[c].queue) <= Capacity
                             /\ Below(sub[c].queue, pushed)
    BY TypeFacts DEF IInv, Bounded
  <1>3. ASSUME NEW c \in Client
        PROVE  /\ sub'[c] \in Subscriber /\ Len(sub'[c].queue) <= Capacity
               /\ sub'[c].state = sub[c].state /\ sub'[c].hidden = sub[c].hidden
               /\ sub'[c].dropped => sub[c].dropped \/ sub[c].hidden
               /\ \/ /\ sub'[c].queue = sub[c].queue
                     /\ Open(c) => sub'[c].desynced \/ sub'[c].dropped
                  \/ sub'[c].queue = Append(sub[c].queue, Desync) /\ Open(c)
    <2>1. CASE Open(c)
      <3>1. sub'[c] = Signalled(sub[c])
        BY <1>1, <2>1
      <3> QED BY <1>2, <2>1, <3>1, SignalledFacts
    <2>2. CASE ~Open(c)
      <3>1. sub'[c] = sub[c]
        BY <1>1, <2>2
      <3> QED BY <1>2, <2>2, <3>1
    <2> QED BY <2>1, <2>2
  <1>4. TypeOK'
    <2>1. sub' \in [Client -> Subscriber]
      BY <1>1, <1>3
    <2> QED BY <1>1, <1>3, <2>1 DEF IInv, TypeOK, Subscriber
  <1>5. ScreenHasNoHole'
    BY <1>1 DEF IInv, ScreenHasNoHole, Whole
  <1>6. ChannelInOrder'
    BY <1>1 DEF IInv, ChannelInOrder
  <1>7. ChunkIsOwed'
    <2>1. ASSUME NEW c \in Client, sub'[c].state = "open"
          PROVE  sub'[c].desynced \/ sub'[c].dropped \/ Holds(sub'[c].queue, Desync)
      BY <1>2, <1>3, <2>1, AppendDesync DEF Open
    <2> QED BY <2>1 DEF ChunkIsOwed, Open
  <1>8. QueueHasNoHole'
    <2>1. ASSUME NEW c \in Client, NoHoleIn(sub[c].queue, screen[c])
          PROVE  NoHoleIn(sub'[c].queue, screen[c])
      BY <1>2, <1>3, <2>1, AppendDesync
    <2> QED BY <1>1, <2>1 DEF IInv, QueueHasNoHole
  <1>9. Bounded'
    <2>1. ASSUME NEW c \in Client
          PROVE  Below(sub'[c].queue, pushed)
      BY <1>2, <1>3, AppendDesync
    <2>2. ASSUME NEW c \in Client
          PROVE  /\ sub'[c].dropped => sub'[c].hidden
                 /\ sub'[c].state = "none" => sub'[c].queue = <<>>
      BY <1>3 DEF IInv, Bounded, Open
    <2> QED BY <1>1, <2>1, <2>2 DEF IInv, Bounded
  <1> QED BY <1>4, <1>5, <1>6, <1>7, <1>8, <1>9 DEF IInv

LEMMA EmitOutputKeeps ==
  ASSUME IInv, EmitOutput
  PROVE  IInv'
  <1> DEFINE n == Head(channel)
  <1>1. /\ channel # <<>> /\ channel' = Tail(channel)
        /\ UNCHANGED <<pushed, skipped, session, link, hide, report, screen, told, forgot>>
        /\ sub' = [c \in Client |-> IF Open(c) THEN OutputOffered(sub[c], Output(n)) ELSE sub[c]]
    BY DEF EmitOutput, Published, OutputOffered
  <1>2. /\ pushed \in Nat /\ channel \in Seq(1..MaxSeq) /\ MaxSeq \in Nat
        /\ \A c \in Client : /\ sub[c] \in Subscriber /\ sub[c].queue \in Seq(Message)
                             /\ Len(sub[c].queue) <= Capacity
                             /\ Below(sub[c].queue, pushed)
    BY TypeFacts DEF IInv, Bounded
  <1>3. /\ DOMAIN channel = 1..Len(channel) /\ DOMAIN Tail(channel) = 1..(Len(channel) - 1)
        /\ n = channel[1] /\ Len(channel) \in Nat \ {0} /\ 1 \in DOMAIN channel
        /\ \A i \in 1..(Len(channel) - 1) : Tail(channel)[i] = channel[i + 1]
        /\ Tail(channel) \in Seq(1..MaxSeq)
        /\ Len(Tail(channel)) = Len(channel) - 1
    BY <1>1, <1>2
  <1>4. n \in 1..MaxSeq /\ n \in 1..pushed
    BY <1>2, <1>3 DEF IInv, ChannelInOrder
  <1>5. /\ Output(n) \in Message /\ Output(n).kind = "output" /\ Output(n).seq = n
        /\ n <= pushed
    BY <1>2, <1>4, MessageFacts
  <1>6. \A k : Holds(channel, k) <=> k = n \/ Holds(channel', k)
    BY <1>1, <1>2, HoldsTail
  \* what precedes the head of the channel has left it and is not the last chunk
  <1>7. ASSUME NEW k \in 1..(n - 1)
        PROVE  k \in 1..pushed /\ ~Holds(channel, k) /\ k # pushed
    <2>1. \A i \in DOMAIN channel : i = 1 \/ 1 < i
      BY <1>3
    <2>2. ASSUME NEW i \in DOMAIN channel
          PROVE  n <= channel[i]
      <3>1. CASE i = 1
        BY <1>2, <1>3, <1>4, <3>1
      <3>2. CASE 1 < i
        <4>1. channel[1] < channel[i] /\ channel[i] \in 1..pushed
          BY <1>3, <3>2 DEF IInv, ChannelInOrder
        <4> QED BY <1>2, <1>4, <4>1
      <3> QED BY <2>1, <3>1, <3>2
    <2>3. \A i \in DOMAIN channel : channel[i] # k
      BY <1>2, <1>3, <1>4, <2>2
    <2> QED BY <1>2, <1>4, <2>3 DEF Holds
  <1> HIDE DEF n
  <1>8. ASSUME NEW c \in Client
        PROVE  /\ sub'[c] \in Subscriber /\ Len(sub'[c].queue) <= Capacity
               /\ sub'[c].state = sub[c].state /\ sub'[c].hidden = sub[c].hidden
               /\ sub'[c].dropped => sub[c].dropped \/ sub[c].hidden
    <2>1. CASE Open(c)
      <3>1. sub'[c] = OutputOffered(sub[c], Output(n))
        BY <1>1, <2>1
      <3> QED BY <1>2, <1>5, <3>1, OfferOutput
    <2>2. CASE ~Open(c)
      <3>1. sub'[c] = sub[c]
        BY <1>1, <2>2
      <3> QED BY <1>2, <3>1
    <2> QED BY <2>1, <2>2
  <1>9. ASSUME NEW c \in Client, Open(c)
        PROVE  \/ /\ sub'[c].queue = sub[c].queue
                  /\ sub'[c].desynced \/ sub'[c].dropped
               \/ sub'[c].queue = Append(sub[c].queue, Desync)
               \/ /\ sub'[c].queue = Append(sub[c].queue, Output(n))
                  /\ ~sub[c].desynced /\ ~sub[c].hidden
               \/ sub'[c].queue = Append(Append(sub[c].queue, Desync), Output(n))
    <2>1. sub'[c] = OutputOffered(sub[c], Output(n))
      BY <1>1, <1>9
    <2> QED BY <1>2, <1>5, <2>1, OfferOutput
  <1>10. ASSUME NEW c \in Client, ~Open(c)
         PROVE  sub'[c] = sub[c]
    BY <1>1, <1>10
  <1>11. TypeOK'
    <2>1. sub' \in [Client -> Subscriber]
      BY <1>1, <1>8
    <2>2. channel' \in Seq(1..MaxSeq) /\ Len(channel') <= BatchRoom
      <3>1. BatchRoom \in Nat /\ Len(channel) <= BatchRoom
        BY CapacityAssumption DEF IInv, TypeOK
      <3> QED BY <1>1, <1>3, <3>1
    <2> QED BY <1>1, <1>8, <2>1, <2>2 DEF IInv, TypeOK, Subscriber
  <1>12. ScreenHasNoHole'
    BY <1>1 DEF IInv, ScreenHasNoHole, Whole
  <1>13. ChannelInOrder'
    <2>1. \A i \in DOMAIN channel' : i + 1 \in DOMAIN channel /\ channel'[i] = channel[i + 1]
                                     /\ i \in Int
      BY <1>1, <1>3
    <2>2. \A i, j \in DOMAIN channel' : i < j => i + 1 < j + 1
      BY <2>1
    <2> QED BY <1>1, <2>1, <2>2 DEF IInv, ChannelInOrder
  <1>14. ASSUME NEW c \in Client, Open(c),
                sub'[c].queue = Append(sub[c].queue, Output(n)), ~sub[c].desynced,
                ~sub[c].hidden, ~forgot[c]
         PROVE  \/ Holds(sub[c].queue, Desync)
                \/ \A k \in 1..(n - 1) : k \in screen[c] \/ Holds(sub[c].queue, Output(k))
    <2>1. ~sub[c].dropped
      BY <1>14 DEF IInv, Bounded
    <2> QED BY <1>7, <1>14, <2>1 DEF IInv, ChunkIsOwed
  <1>15. ASSUME NEW c \in Client
         PROVE  /\ Append(sub[c].queue, Desync) \in Seq(Message)
                /\ \A x : Holds(sub[c].queue, x) \/ x = Desync
                             => Holds(Append(sub[c].queue, Desync), x)
                /\ \A x : Holds(sub[c].queue, x) \/ x = Output(n)
                             => Holds(Append(sub[c].queue, Output(n)), x)
                /\ Holds(Append(Append(sub[c].queue, Desync), Output(n)), Desync)
                /\ Below(Append(sub[c].queue, Desync), pushed)
                /\ Below(Append(sub[c].queue, Output(n)), pushed)
                /\ Below(Append(Append(sub[c].queue, Desync), Output(n)), pushed)
    <2> DEFINE d == Append(sub[c].queue, Desync)
    <2>1. /\ d \in Seq(Message) /\ Below(d, pushed)
          /\ \A x : Holds(sub[c].queue, x) \/ x = Desync => Holds(d, x)
      BY <1>2, AppendDesync
    <2> HIDE DEF d
    <2>2. /\ Below(Append(sub[c].queue, Output(n)), pushed)
          /\ \A x : Holds(sub[c].queue, x) \/ x = Output(n)
                       => Holds(Append(sub[c].queue, Output(n)), x)
      BY <1>2, <1>5, AppendMessage
    <2>3. Below(Append(d, Output(n)), pushed) /\ Holds(Append(d, Output(n)), Desync)
      BY <1>2, <1>5, <2>1, AppendMessage
    <2> QED BY <2>1, <2>2, <2>3 DEF d
  <1>16. ChunkIsOwed'
    <2> SUFFICES ASSUME NEW c \in Client, Open(c), NEW k \in 1..pushed
                 PROVE  \/ k \in screen[c] \/ Holds(channel', k)
                        \/ Holds(sub'[c].queue, Output(k)) \/ Holds(sub'[c].queue, Desync)
                        \/ sub'[c].desynced \/ sub'[c].dropped \/ forgot[c]
                        \/ skipped /\ k = pushed
      BY <1>1, <1>8 DEF ChunkIsOwed, Open
    <2>1. CASE sub'[c].queue = Append(sub[c].queue, Output(n)) /\ ~sub[c].desynced
                                                              /\ ~sub[c].hidden
      <3>1. ~sub[c].dropped
        BY <2>1 DEF IInv, Bounded
      <3>2. \/ k \in screen[c] \/ Holds(channel, k) \/ Holds(sub[c].queue, Output(k))
            \/ Holds(sub[c].queue, Desync) \/ forgot[c]
            \/ skipped /\ k = pushed
        <4>1. \/ k \in screen[c] \/ Holds(channel, k)
              \/ Holds(sub[c].queue, Output(k)) \/ Holds(sub[c].queue, Desync)
              \/ sub[c].desynced \/ sub[c].dropped \/ forgot[c]
              \/ skipped /\ k = pushed
          BY DEF IInv, ChunkIsOwed
        <4> QED BY <2>1, <3>1, <4>1
      <3> QED BY <1>6, <1>15, <2>1, <3>2
    <2>2. CASE \/ sub'[c].queue = Append(sub[c].queue, Desync)
               \/ sub'[c].queue = Append(Append(sub[c].queue, Desync), Output(n))
      BY <1>15, <2>2
    <2> QED BY <1>9, <2>1, <2>2
  <1>17. QueueHasNoHole'
    <2> SUFFICES ASSUME NEW c \in Client, ~forgot[c]
                 PROVE  NoHoleIn(sub'[c].queue, screen[c])
      BY <1>1 DEF QueueHasNoHole
    <2>1. NoHoleIn(sub[c].queue, screen[c])
      BY DEF IInv, QueueHasNoHole
    <2>2. NoHoleIn(Append(sub[c].queue, Desync), screen[c])
      BY <1>2, <2>1, AppendDesync
    <2>3. NoHoleIn(Append(Append(sub[c].queue, Desync), Output(n)), screen[c])
      <3>1. Holds(Append(sub[c].queue, Desync), Desync)
        BY <1>15
      <3> QED BY <1>4, <1>15, <2>2, <3>1, AppendOutput
    <2>4. CASE Open(c) /\ sub'[c].queue = Append(sub[c].queue, Output(n))
               /\ ~sub[c].desynced /\ ~sub[c].hidden
      BY <1>2, <1>4, <1>14, <2>1, <2>4, AppendOutput
    <2>5. CASE ~Open(c)
      BY <1>10, <2>1, <2>5
    <2> QED BY <1>9, <2>1, <2>2, <2>3, <2>4, <2>5
  <1>18. Bounded'
    <2>1. ASSUME NEW c \in Client
          PROVE  Below(sub'[c].queue, pushed)
      BY <1>2, <1>9, <1>10, <1>15
    <2>2. ASSUME NEW c \in Client
          PROVE  /\ sub'[c].dropped => sub'[c].hidden
                 /\ sub'[c].state = "none" => sub'[c].queue = <<>>
      BY <1>8, <1>10 DEF IInv, Bounded, Open
    <2> QED BY <1>1, <2>1, <2>2 DEF IInv, Bounded
  <1> QED BY <1>11, <1>12, <1>13, <1>16, <1>17, <1>18 DEF IInv

LEMMA EndSessionKeeps ==
  ASSUME IInv, NEW kind \in {"killed", "exit"}, EndSession(kind),
         session' \in {"killed", "exited"},
         UNCHANGED <<pushed, channel, skipped, link, hide, report, screen, forgot>>
  PROVE  IInv'
  <1>1. sub' = [c \in Client |->
                  IF Open(c) THEN [EndOffered(sub[c], End(kind)) EXCEPT !.state = "ended"]
                  ELSE sub[c]]
    BY DEF EndSession, EndOffered
  <1>2. /\ pushed \in Nat
        /\ \A c \in Client : /\ sub[c] \in Subscriber /\ sub[c].queue \in Seq(Message)
                             /\ Len(sub[c].queue) <= Capacity
                             /\ Below(sub[c].queue, pushed)
    BY TypeFacts DEF IInv, Bounded
  <1>3. /\ End(kind) \in Message /\ End(kind).kind # "output" /\ End(kind).seq <= pushed
    BY <1>2, MessageFacts
  <1>4. ASSUME NEW c \in Client, Open(c)
        PROVE  /\ sub'[c] \in Subscriber /\ Len(sub'[c].queue) <= Capacity
               /\ sub'[c].state = "ended" /\ sub'[c].hidden = sub[c].hidden
               /\ sub'[c].dropped => sub[c].dropped \/ sub[c].hidden
               /\ \/ sub'[c].queue = sub[c].queue
                  \/ sub'[c].queue = Append(sub[c].queue, Desync)
                  \/ sub'[c].queue = Append(sub[c].queue, End(kind))
                  \/ sub'[c].queue = Append(Append(sub[c].queue, Desync), End(kind))
    <2> DEFINE r == EndOffered(sub[c], End(kind))
    <2>1. /\ r \in Subscriber /\ Len(r.queue) <= Capacity /\ r.hidden = sub[c].hidden
          /\ r.dropped => sub[c].dropped \/ sub[c].hidden
          /\ \/ r.queue = sub[c].queue
             \/ r.queue = Append(sub[c].queue, Desync)
             \/ r.queue = Append(sub[c].queue, End(kind))
             \/ r.queue = Append(Append(sub[c].queue, Desync), End(kind))
      BY <1>2, <1>3, OfferEnd
    <2>2. sub'[c] = [r EXCEPT !.state = "ended"]
      BY <1>1, <1>4
    <2> HIDE DEF r
    <2>3. /\ sub'[c] \in Subscriber /\ sub'[c].state = "ended" /\ sub'[c].queue = r.queue
          /\ sub'[c].hidden = r.hidden /\ sub'[c].dropped = r.dropped
      BY <2>1, <2>2 DEF Subscriber
    <2> QED BY <2>1, <2>3
  <1>5. ASSUME NEW c \in Client, ~Open(c)
        PROVE  sub'[c] = sub[c]
    BY <1>1, <1>5
  <1>6. ASSUME NEW c \in Client
        PROVE  /\ Below(sub'[c].queue, pushed)
               /\ \A shown : NoHoleIn(sub[c].queue, shown) => NoHoleIn(sub'[c].queue, shown)
    <2> DEFINE d == Append(sub[c].queue, Desync)
    <2>1. /\ d \in Seq(Message) /\ Below(d, pushed)
          /\ \A shown : NoHoleIn(sub[c].queue, shown) => NoHoleIn(d, shown)
      BY <1>2, AppendDesync
    <2> HIDE DEF d
    <2>2. /\ Below(Append(sub[c].queue, End(kind)), pushed)
          /\ \A shown : NoHoleIn(sub[c].queue, shown)
                          => NoHoleIn(Append(sub[c].queue, End(kind)), shown)
      BY <1>2, <1>3, AppendMessage
    <2>3. /\ Below(Append(d, End(kind)), pushed)
          /\ \A shown : NoHoleIn(d, shown) => NoHoleIn(Append(d, End(kind)), shown)
      BY <1>2, <1>3, <2>1, AppendMessage
    <2>4. CASE Open(c)
      BY <1>2, <1>4, <2>1, <2>2, <2>3, <2>4 DEF d
    <2>5. CASE ~Open(c)
      BY <1>2, <1>5, <2>5
    <2> QED BY <2>4, <2>5
  <1>7. told' \in [Client -> BOOLEAN]
    <2>1. CASE UNCHANGED told
      BY <2>1 DEF IInv, TypeOK
    <2>2. CASE \E heard \in SUBSET {c \in Client : link[c].up} :
                  told' = [c \in Client |-> told[c] \/ c \in heard]
      BY <2>2
    <2> QED BY <2>1, <2>2 DEF EndSession
  <1>8. TypeOK'
    <2>1. \A c \in Client : sub'[c] \in Subscriber /\ Len(sub'[c].queue) <= Capacity
      BY <1>2, <1>4, <1>5
    <2>2. sub' \in [Client -> Subscriber]
      BY <1>1, <2>1
    <2> QED BY <1>7, <2>1, <2>2 DEF IInv, TypeOK, Subscriber
  <1>9. ScreenHasNoHole'
    BY DEF IInv, ScreenHasNoHole, Whole
  <1>10. ChannelInOrder'
    BY DEF IInv, ChannelInOrder
  <1>11. ChunkIsOwed'
    <2>1. \A c \in Client : sub'[c].state # "open"
      BY <1>4, <1>5 DEF Open
    <2> QED BY <2>1 DEF ChunkIsOwed, Open
  <1>12. QueueHasNoHole'
    BY <1>6 DEF IInv, QueueHasNoHole
  <1>13. Bounded'
    <2>1. ASSUME NEW c \in Client
          PROVE  /\ sub'[c].dropped => sub'[c].hidden
                 /\ sub'[c].state = "none" => sub'[c].queue = <<>>
      BY <1>4, <1>5 DEF IInv, Bounded
    <2> QED BY <1>6, <2>1 DEF IInv, Bounded
  <1> QED BY <1>8, <1>9, <1>10, <1>11, <1>12, <1>13 DEF IInv

\* A step that touches one client has to keep the invariant for that client only.
LEMMA OneClient ==
  ASSUME IInv, NEW c \in Client,
         UNCHANGED <<pushed, channel, skipped, session>>,
         sub' \in [Client -> Subscriber], Len(sub'[c].queue) <= Capacity,
         screen' \in [Client -> SUBSET (1..MaxSeq)], forgot' \in [Client -> BOOLEAN],
         link' \in [Client -> [up : BOOLEAN, stale : BOOLEAN]],
         {hide', report'} \subseteq [Client -> BOOLEAN], told' \in [Client -> BOOLEAN],
         \A d \in Client \ {c} : sub'[d] = sub[d] /\ screen'[d] = screen[d]
                                                  /\ forgot'[d] = forgot[d],
         (\A n \in screen'[c] : 1..n \subseteq screen'[c]) \/ forgot'[c],
         sub'[c].state = "open" =>
            \A n \in 1..pushed :
               \/ n \in screen'[c]
               \/ Holds(channel, n)
               \/ Holds(sub'[c].queue, Output(n)) \/ Holds(sub'[c].queue, Desync)
               \/ sub'[c].desynced \/ sub'[c].dropped \/ forgot'[c]
               \/ skipped /\ n = pushed,
         forgot'[c] \/ NoHoleIn(sub'[c].queue, screen'[c]),
         screen'[c] \subseteq 1..pushed, Below(sub'[c].queue, pushed),
         sub'[c].dropped => sub'[c].hidden,
         sub'[c].state = "none" => sub'[c].queue = <<>>
  PROVE  IInv'
  <1>1. TypeOK'
    <2>1. \A d \in Client : Len(sub'[d].queue) <= Capacity
      BY DEF IInv, TypeOK
    <2> QED BY <2>1 DEF IInv, TypeOK, Subscriber
  <1>2. ScreenHasNoHole'
    <2>1. \A d \in Client \ {c} : Whole(d)' \/ forgot'[d]
      BY DEF IInv, ScreenHasNoHole, Whole
    <2> QED BY <2>1 DEF ScreenHasNoHole, Whole
  <1>3. ChannelInOrder'
    BY DEF IInv, ChannelInOrder
  <1>4. ChunkIsOwed'
    <2> SUFFICES ASSUME NEW d \in Client, sub'[d].state = "open", NEW n \in 1..pushed
                 PROVE  \/ n \in screen'[d]
                        \/ Holds(channel, n)
                        \/ Holds(sub'[d].queue, Output(n)) \/ Holds(sub'[d].queue, Desync)
                        \/ sub'[d].desynced \/ sub'[d].dropped \/ forgot'[d]
                        \/ skipped /\ n = pushed
      BY DEF ChunkIsOwed, Open
    <2>1. CASE d = c
      BY <2>1
    <2>2. CASE d # c
      <3>1. sub'[d] = sub[d] /\ screen'[d] = screen[d] /\ forgot'[d] = forgot[d] /\ Open(d)
        BY <2>2 DEF Open
      <3>2. \/ n \in screen[d]
            \/ Holds(channel, n)
            \/ Holds(sub[d].queue, Output(n)) \/ Holds(sub[d].queue, Desync)
            \/ sub[d].desynced \/ sub[d].dropped \/ forgot[d]
            \/ skipped /\ n = pushed
        BY <3>1 DEF IInv, ChunkIsOwed
      <3> QED BY <3>1, <3>2
    <2> QED BY <2>1, <2>2
  <1>5. QueueHasNoHole'
    BY DEF IInv, QueueHasNoHole
  <1>6. Bounded'
    BY DEF IInv, Bounded
  <1> QED BY <1>1, <1>2, <1>3, <1>4, <1>5, <1>6 DEF IInv

\* A queue without messages has no hole.
LEMMA EmptyQueue ==
  /\ NoSub \in Subscriber /\ NoSub.state = "none" /\ NoSub.queue = <<>> /\ ~NoSub.dropped
  /\ OpenSub \in Subscriber /\ OpenSub.state = "open" /\ OpenSub.queue = <<>>
  /\ ~OpenSub.dropped
  /\ Len(<<>>) = 0 /\ \A shown : NoHoleIn(<<>>, shown) /\ \A p : Below(<<>>, p)
  <1>1. NoSub \in Subscriber /\ NoSub.state = "none" /\ NoSub.queue = <<>> /\ ~NoSub.dropped
    BY DEF NoSub, Subscriber
  <1>2. /\ OpenSub \in Subscriber /\ OpenSub.state = "open" /\ OpenSub.queue = <<>>
        /\ ~OpenSub.dropped
    BY <1>1 DEF OpenSub, Subscriber
  <1>3. DOMAIN <<>> = {} /\ Len(<<>>) = 0
    OBVIOUS
  <1>4. \A shown : NoHoleIn(<<>>, shown)
    BY <1>3 DEF NoHoleIn
  <1>5. \A p : Below(<<>>, p)
    BY <1>3 DEF Below
  <1> QED BY <1>1, <1>2, <1>3, <1>4, <1>5

LEMMA OtherTypes ==
  ASSUME TypeOK
  PROVE  /\ link \in [Client -> [up : BOOLEAN, stale : BOOLEAN]]
         /\ {hide, report} \subseteq [Client -> BOOLEAN] /\ told \in [Client -> BOOLEAN]
         /\ hide \in [Client -> BOOLEAN] /\ report \in [Client -> BOOLEAN]
         /\ Capacity \in Nat
  BY CapacityAssumption DEF TypeOK

LEMMA SubscribeKeeps ==
  ASSUME IInv, NEW c \in Client, Subscribe(c)
  PROVE  IInv'
  <1>1. /\ UNCHANGED <<pushed, channel, skipped, session, link, hide, report, told>>
        /\ sub' = [sub EXCEPT ![c] = OpenSub]
        /\ screen' = [screen EXCEPT ![c] = 1..pushed]
        /\ forgot' = [forgot EXCEPT ![c] = FALSE]
    BY DEF Subscribe
  <1>2. /\ TypeOK /\ pushed \in 0..MaxSeq /\ MaxSeq \in Nat /\ sub \in [Client -> Subscriber]
        /\ screen \in [Client -> SUBSET (1..MaxSeq)] /\ forgot \in [Client -> BOOLEAN]
    BY TypeFacts DEF IInv
  <1>3. sub'[c] = OpenSub /\ screen'[c] = 1..pushed /\ forgot'[c] = FALSE
    BY <1>1, <1>2
  <1>4. \A d \in Client \ {c} : sub'[d] = sub[d] /\ screen'[d] = screen[d]
                                                 /\ forgot'[d] = forgot[d]
    BY <1>1, <1>2
  <1>5. 1..pushed \subseteq 1..MaxSeq /\ \A n \in 1..pushed : 1..n \subseteq 1..pushed
    BY <1>2
  <1>6. /\ sub' \in [Client -> Subscriber] /\ screen' \in [Client -> SUBSET (1..MaxSeq)]
        /\ forgot' \in [Client -> BOOLEAN]
    BY <1>1, <1>2, <1>5, EmptyQueue
  <1>7. /\ sub'[c].queue = <<>> /\ ~sub'[c].dropped /\ sub'[c].state = "open"
        /\ Len(sub'[c].queue) <= Capacity
        /\ NoHoleIn(sub'[c].queue, screen'[c]) /\ Below(sub'[c].queue, pushed)
    BY <1>2, <1>3, EmptyQueue, OtherTypes
  <1> QED BY <1>1, <1>2, <1>3, <1>4, <1>5, <1>6, <1>7, OneClient, OtherTypes

\* A client that has no mirror shows nothing of the session.
LEMMA LeaveKeeps ==
  ASSUME IInv, NEW c \in Client,
         UNCHANGED <<pushed, channel, skipped, session, link, hide, report>>,
         told' \in [Client -> BOOLEAN],
         sub' = [sub EXCEPT ![c] = NoSub],
         screen' = [screen EXCEPT ![c] = {}],
         forgot' = [forgot EXCEPT ![c] = FALSE]
  PROVE  IInv'
  <1>1. /\ TypeOK /\ pushed \in 0..MaxSeq /\ MaxSeq \in Nat /\ sub \in [Client -> Subscriber]
        /\ screen \in [Client -> SUBSET (1..MaxSeq)] /\ forgot \in [Client -> BOOLEAN]
    BY TypeFacts DEF IInv
  <1>2. sub'[c] = NoSub /\ screen'[c] = {} /\ forgot'[c] = FALSE
    BY <1>1
  <1>3. \A d \in Client \ {c} : sub'[d] = sub[d] /\ screen'[d] = screen[d]
                                                 /\ forgot'[d] = forgot[d]
    BY <1>1
  <1>4. /\ sub' \in [Client -> Subscriber] /\ screen' \in [Client -> SUBSET (1..MaxSeq)]
        /\ forgot' \in [Client -> BOOLEAN]
    BY <1>1, EmptyQueue
  <1>5. /\ sub'[c].queue = <<>> /\ ~sub'[c].dropped /\ sub'[c].state # "open"
        /\ Len(sub'[c].queue) <= Capacity
        /\ NoHoleIn(sub'[c].queue, screen'[c]) /\ Below(sub'[c].queue, pushed)
    <2>1. sub'[c].queue = <<>> /\ ~sub'[c].dropped /\ sub'[c].state = "none"
      BY <1>2, EmptyQueue
    <2>2. 0 <= Capacity
      BY <1>1, OtherTypes
    <2> QED BY <2>1, <2>2, EmptyQueue
  <1> QED BY <1>1, <1>2, <1>3, <1>4, <1>5, OneClient, OtherTypes

LEMMA MirrorLeaves ==
  ASSUME IInv, NEW c \in Client, Unsubscribe(c) \/ MirrorCloses(c)
  PROVE  IInv'
  <1>1. CASE Unsubscribe(c)
    <2>1. told' \in [Client -> BOOLEAN]
      BY <1>1, OtherTypes DEF Unsubscribe, IInv
    <2> QED BY <1>1, <2>1, LeaveKeeps DEF Unsubscribe
  <1>2. CASE MirrorCloses(c)
    <2>1. told' \in [Client -> BOOLEAN]
      BY <1>2, OtherTypes DEF MirrorCloses, IInv
    <2> QED BY <1>2, <2>1, LeaveKeeps DEF MirrorCloses
  <1> QED BY <1>1, <1>2

LEMMA ForwardKeeps ==
  ASSUME IInv, NEW c \in Client, Forward(c)
  PROVE  IInv'
  <1> DEFINE q == sub[c].queue
             m == Head(q)
             shown == screen[c]
             after == CASE m.kind = "output" -> shown \cup {m.seq}
                        [] m.kind = "desync" -> 1..pushed
                        [] OTHER -> shown
  <1>1. /\ UNCHANGED <<pushed, channel, skipped, session, link, hide, report>>
        /\ q # <<>>
        /\ sub' = [sub EXCEPT ![c].queue = Tail(@)]
        /\ screen' = [screen EXCEPT ![c] = after]
        /\ forgot' = [forgot EXCEPT ![c] = @ /\ m.kind # "desync"]
        /\ told' = [told EXCEPT ![c] = @ \/ m.kind \in {"exit", "killed"}]
    BY DEF Forward
  <1>2. /\ TypeOK /\ pushed \in 0..MaxSeq /\ MaxSeq \in Nat /\ sub \in [Client -> Subscriber]
        /\ screen \in [Client -> SUBSET (1..MaxSeq)] /\ forgot \in [Client -> BOOLEAN]
        /\ q \in Seq(Message) /\ shown \subseteq 1..MaxSeq /\ sub[c] \in Subscriber
        /\ Len(q) <= Capacity
    BY TypeFacts DEF IInv
  <1>3. /\ m \in Message /\ m = q[1] /\ 1 \in DOMAIN q /\ DOMAIN q = 1..Len(q)
        /\ Tail(q) \in Seq(Message) /\ Len(Tail(q)) = Len(q) - 1 /\ Len(q) \in Nat
    BY <1>1, <1>2
  <1>4. /\ m.kind \in {"output", "desync", "killed", "exit"} /\ m.seq \in 0..MaxSeq
        /\ m.kind = "output" => m.seq \in 1..MaxSeq /\ m = Output(m.seq)
        /\ m.kind = "desync" => m = Desync
    BY <1>3, MessageFacts
  <1>5. Below(q, pushed) /\ m.seq <= pushed /\ shown \subseteq 1..pushed
    BY <1>3 DEF IInv, Bounded, Below
  <1>6. /\ m.kind = "output" => after = shown \cup {m.seq}
        /\ m.kind = "desync" => after = 1..pushed
        /\ m.kind \in {"killed", "exit"} => after = shown
    OBVIOUS
  <1>7. \A x : Holds(q, x) <=> x = m \/ Holds(Tail(q), x)
    BY <1>1, <1>2, HoldsTail
  <1>8. /\ screen'[c] = after /\ forgot'[c] = (forgot[c] /\ m.kind # "desync")
        /\ sub'[c] = [sub[c] EXCEPT !.queue = Tail(q)]
    BY <1>1, <1>2
  <1>9. \A d \in Client \ {c} : sub'[d] = sub[d] /\ screen'[d] = screen[d]
                                                 /\ forgot'[d] = forgot[d]
    BY <1>1, <1>2
  <1>10. Below(Tail(q), pushed)
    BY <1>1, <1>2, <1>5, BelowTail
  <1>11. forgot[c] \/ NoHoleIn(q, shown)
    BY DEF IInv, QueueHasNoHole
  <1>12. (\A n \in shown : 1..n \subseteq shown) \/ forgot[c]
    BY DEF IInv, ScreenHasNoHole, Whole
  <1>13. sub[c].state = "open" =>
           \A n \in 1..pushed :
              \/ n \in shown
              \/ Holds(channel, n)
              \/ Holds(q, Output(n)) \/ Holds(q, Desync)
              \/ sub[c].desynced \/ sub[c].dropped \/ forgot[c]
              \/ skipped /\ n = pushed
    BY DEF IInv, ChunkIsOwed, Open
  <1>14. (sub[c].dropped => sub[c].hidden) /\ (sub[c].state = "none" => q = <<>>)
    BY DEF IInv, Bounded
  <1>15. told' \in [Client -> BOOLEAN]
    BY <1>1, <1>2, OtherTypes
  <1> HIDE DEF q, m, shown, after
  <1>16. /\ sub'[c] \in Subscriber /\ sub'[c].queue = Tail(q)
         /\ sub'[c].state = sub[c].state /\ sub'[c].desynced = sub[c].desynced
         /\ sub'[c].hidden = sub[c].hidden /\ sub'[c].dropped = sub[c].dropped
    BY <1>2, <1>3, <1>8 DEF Subscriber
  <1>17. sub' \in [Client -> Subscriber]
    BY <1>1, <1>2, <1>16
  <1>18. after \subseteq 1..pushed /\ after \subseteq 1..MaxSeq /\ shown \subseteq after
    <2>1. CASE m.kind = "output"
      <3>1. m.seq \in 1..pushed
        <4>1. m.seq \in 1..MaxSeq
          BY <1>4, <2>1
        <4>2. m.seq <= pushed
          BY <1>5
        <4>3. pushed \in Nat /\ MaxSeq \in Nat
          BY <1>2
        <4> QED BY <4>1, <4>2, <4>3
      <3>2. after = shown \cup {m.seq} /\ m.seq \in 1..MaxSeq
        BY <1>4, <1>6, <2>1
      <3>3. shown \subseteq 1..pushed /\ shown \subseteq 1..MaxSeq
        BY <1>2, <1>5
      <3> QED BY <3>1, <3>2, <3>3
    <2>2. CASE m.kind = "desync"
      BY <1>2, <1>5, <1>6, <2>2
    <2>3. CASE m.kind \in {"killed", "exit"}
      BY <1>2, <1>5, <1>6, <2>3
    <2> QED BY <1>4, <2>1, <2>2, <2>3
  <1>19. /\ screen' \in [Client -> SUBSET (1..MaxSeq)] /\ forgot' \in [Client -> BOOLEAN]
    BY <1>1, <1>2, <1>18
  <1>20. Len(sub'[c].queue) <= Capacity
    BY <1>2, <1>3, <1>16, OtherTypes
  <1>21. (\A n \in after : 1..n \subseteq after) \/ forgot'[c]
    <2>1. CASE m.kind = "output" /\ ~forgot[c]
      <3>1. \A n \in 1..(m.seq - 1) : n \in shown
        <4>1. 1..(1 - 1) = {}
          OBVIOUS
        <4> QED BY <1>3, <1>11, <2>1, <4>1 DEF NoHoleIn
      <3>2. \A n \in 1..m.seq : n \in 1..(m.seq - 1) \/ n = m.seq
        BY <1>4, <1>2
      <3> QED BY <1>6, <1>12, <2>1, <3>1, <3>2
    <2>2. CASE m.kind = "output" /\ forgot[c]
      BY <1>8, <2>2
    <2>3. CASE m.kind = "desync"
      <3>1. \A n \in 1..pushed : 1..n \subseteq 1..pushed
        BY <1>2
      <3> QED BY <1>6, <2>3, <3>1
    <2>4. CASE m.kind \in {"killed", "exit"}
      BY <1>6, <1>8, <1>12, <2>4
    <2> QED BY <1>4, <2>1, <2>2, <2>3, <2>4
  <1>22. \A n \in 1..pushed : sub'[c].state = "open" =>
            \/ n \in after
            \/ Holds(channel, n)
            \/ Holds(Tail(q), Output(n)) \/ Holds(Tail(q), Desync)
            \/ sub'[c].desynced \/ sub'[c].dropped \/ forgot'[c]
            \/ skipped /\ n = pushed
    <2> SUFFICES ASSUME NEW n \in 1..pushed, sub'[c].state = "open"
                 PROVE  \/ n \in after
                        \/ Holds(channel, n)
                        \/ Holds(Tail(q), Output(n)) \/ Holds(Tail(q), Desync)
                        \/ sub'[c].desynced \/ sub'[c].dropped \/ forgot'[c]
                        \/ skipped /\ n = pushed
      OBVIOUS
    <2>1. CASE m.kind = "desync"
      BY <1>6, <2>1
    <2>2. CASE m.kind # "desync"
      <3>1. m # Desync
        BY <2>2, MessageFacts
      <3>2. \/ n \in shown
            \/ Holds(channel, n)
            \/ Holds(q, Output(n)) \/ Holds(q, Desync)
            \/ sub[c].desynced \/ sub[c].dropped \/ forgot[c]
            \/ skipped /\ n = pushed
        BY <1>13, <1>16
      <3>3. Holds(q, Desync) => Holds(Tail(q), Desync)
        BY <1>7, <3>1
      <3>4. Holds(q, Output(n)) => Holds(Tail(q), Output(n)) \/ n \in after
        <4>1. CASE m = Output(n)
          <5>1. n \in 1..MaxSeq
            BY <1>2
          <5>2. m.kind = "output" /\ m.seq = n
            BY <4>1, <5>1, MessageFacts
          <5> QED BY <1>6, <5>2
        <4>2. CASE m # Output(n)
          BY <1>7, <4>2
        <4> QED BY <4>1, <4>2
      <3>5. forgot[c] => forgot'[c]
        BY <1>8, <2>2
      <3> QED BY <1>16, <1>18, <3>2, <3>3, <3>4, <3>5
    <2> QED BY <2>1, <2>2
  <1>23. forgot'[c] \/ NoHoleIn(Tail(q), after)
    <2>1. CASE m.kind = "desync"
      <3>1. pushed \in Nat
        BY <1>2
      <3> QED BY <1>3, <1>6, <1>10, <2>1, <3>1, AllShown
    <2>2. CASE m.kind # "desync" /\ ~forgot[c]
      <3>1. m # Desync
        BY <2>2, MessageFacts
      <3>2. m.kind = "output" => m.seq \in after
        BY <1>6
      <3>3. NoHoleIn(q, shown)
        BY <1>11, <2>2
      <3> QED BY <1>1, <1>2, <1>18, <3>1, <3>2, <3>3, TailKeeps DEF m
    <2>3. CASE m.kind # "desync" /\ forgot[c]
      BY <1>8, <2>3
    <2> QED BY <2>1, <2>2, <2>3
  <1>24. sub'[c].state = "none" => sub'[c].queue = <<>>
    BY <1>1, <1>14, <1>16
  <1>25. sub'[c].dropped => sub'[c].hidden
    BY <1>14, <1>16
  <1>26. UNCHANGED <<pushed, channel, skipped, session, link, hide, report>>
    BY <1>1
  <1>27. TypeOK /\ screen'[c] = after /\ sub'[c].queue = Tail(q)
    BY <1>2, <1>8, <1>16
  <1>28. /\ (\A n \in screen'[c] : 1..n \subseteq screen'[c]) \/ forgot'[c]
         /\ forgot'[c] \/ NoHoleIn(sub'[c].queue, screen'[c])
         /\ screen'[c] \subseteq 1..pushed /\ Below(sub'[c].queue, pushed)
    BY <1>10, <1>18, <1>21, <1>23, <1>27
  <1>29. sub'[c].state = "open" =>
           \A n \in 1..pushed :
              \/ n \in screen'[c]
              \/ Holds(channel, n)
              \/ Holds(sub'[c].queue, Output(n)) \/ Holds(sub'[c].queue, Desync)
              \/ sub'[c].desynced \/ sub'[c].dropped \/ forgot'[c]
              \/ skipped /\ n = pushed
    BY <1>22, <1>27
  <1>30. /\ link' \in [Client -> [up : BOOLEAN, stale : BOOLEAN]]
         /\ {hide', report'} \subseteq [Client -> BOOLEAN]
    BY <1>26, <1>27, OtherTypes
  <1> QED BY <1>9, <1>15, <1>17, <1>19, <1>20, <1>24, <1>25, <1>26, <1>28, <1>29, <1>30,
             OneClient

LEMMA ShownFacts ==
  ASSUME NEW s \in Subscriber, Len(s.queue) <= Capacity, NEW r, r = Shown(s)
  PROVE  /\ r \in Subscriber /\ Len(r.queue) <= Capacity
         /\ r.state = s.state /\ (s.desynced => r.desynced \/ r.queue = Append(s.queue, Desync))
         /\ r.dropped => s.dropped /\ r.hidden
         /\ s.dropped => r.desynced \/ r.queue = Append(s.queue, Desync)
         /\ r.queue = s.queue \/ r.queue = Append(s.queue, Desync)
  <1>1. Capacity \in Nat /\ Len(s.queue) \in Nat /\ Desync \in Message
    BY CapacityAssumption, MessageFacts DEF Subscriber
  <1>2. CASE ~s.dropped
    <2>1. r = [s EXCEPT !.hidden = FALSE]
      BY <1>2 DEF Shown
    <2> QED BY <1>2, <2>1 DEF Subscriber
  <1>3. CASE s.dropped
    <2> DEFINE v == [s EXCEPT !.hidden = FALSE, !.dropped = FALSE]
    <2>1. /\ v \in Subscriber /\ v.queue = s.queue /\ v.state = s.state
          /\ v.desynced = s.desynced /\ v.hidden = FALSE /\ v.dropped = FALSE
      BY DEF Subscriber
    <2>2. r = IF HasRoom(v) THEN Put(v, Desync) ELSE [v EXCEPT !.desynced = TRUE]
      BY <1>3 DEF Shown
    <2> HIDE DEF v
    <2>3. CASE HasRoom(v)
      <3>1. r = Put(v, Desync)
        BY <2>2, <2>3
      <3>2. v \in Subscriber
        BY <2>1
      <3>3. /\ r \in Subscriber /\ r.queue = Append(v.queue, Desync)
            /\ Len(r.queue) = Len(v.queue) + 1 /\ r.state = v.state
            /\ r.dropped = v.dropped
        BY <1>1, <3>1, <3>2, PutFacts
      <3>4. Len(s.queue) < Capacity
        BY <2>1, <2>3 DEF HasRoom
      <3>5. Len(r.queue) <= Capacity
        BY <1>1, <2>1, <3>3, <3>4
      <3>6. r.queue = Append(s.queue, Desync) /\ r.state = s.state /\ ~r.dropped
        BY <2>1, <3>3
      <3> QED BY <3>3, <3>5, <3>6
    <2>4. CASE ~HasRoom(v)
      <3>1. r = [v EXCEPT !.desynced = TRUE]
        BY <2>2, <2>4
      <3>2. /\ r \in Subscriber /\ r.queue = v.queue /\ r.state = v.state
            /\ r.desynced = TRUE /\ r.dropped = v.dropped
        BY <2>1, <3>1 DEF Subscriber
      <3> QED BY <2>1, <3>2
    <2> QED BY <2>3, <2>4
  <1> QED BY <1>2, <1>3

LEMMA ReportHiddenKeeps ==
  ASSUME IInv, NEW c \in Client, ReportHidden(c)
  PROVE  IInv'
  <1>1. /\ UNCHANGED <<pushed, channel, skipped, session, link, hide, screen, told, forgot>>
        /\ report' = [report EXCEPT ![c] = FALSE]
    BY DEF ReportHidden
  <1>2. /\ TypeOK /\ pushed \in Nat /\ sub \in [Client -> Subscriber]
        /\ screen \in [Client -> SUBSET (1..MaxSeq)] /\ forgot \in [Client -> BOOLEAN]
        /\ sub[c].queue \in Seq(Message) /\ sub[c] \in Subscriber
        /\ Len(sub[c].queue) <= Capacity
    BY TypeFacts DEF IInv
  <1> DEFINE s == sub[c]
             r == sub'[c]
  <1>3. r = CASE ~Open(c) -> s
              [] Open(c) /\ hide[c] -> [s EXCEPT !.hidden = TRUE]
              [] Open(c) /\ ~hide[c] /\ s.hidden -> Shown(s)
              [] OTHER -> s
    BY <1>2 DEF ReportHidden
  <1>4. sub' = [sub EXCEPT ![c] = r] /\ \A d \in Client \ {c} : sub'[d] = sub[d]
    BY <1>2 DEF ReportHidden
  <1>5. \/ r = s
        \/ r = [s EXCEPT !.hidden = TRUE]
        \/ r = Shown(s)
    BY <1>3
  <1>6. (s.dropped => s.hidden) /\ (s.state = "none" => s.queue = <<>>) /\ Below(s.queue, pushed)
        /\ screen[c] \subseteq 1..pushed
    BY DEF IInv, Bounded
  <1>7. /\ r \in Subscriber /\ Len(r.queue) <= Capacity /\ r.state = s.state
        /\ s.desynced => r.desynced \/ r.queue = Append(s.queue, Desync)
        /\ s.dropped => r.dropped \/ r.desynced \/ r.queue = Append(s.queue, Desync)
        /\ r.queue = s.queue \/ r.queue = Append(s.queue, Desync)
        /\ r.dropped => r.hidden
    <2>1. CASE r = s
      BY <1>2, <1>6, <2>1
    <2>2. CASE r = [s EXCEPT !.hidden = TRUE]
      <3>1. s \in Subscriber /\ Len(s.queue) <= Capacity
        BY <1>2
      <3> HIDE DEF s, r
      <3> QED BY <2>2, <3>1 DEF Subscriber
    <2>3. CASE r = Shown(s)
      <3>1. s \in Subscriber /\ Len(s.queue) <= Capacity
        BY <1>2
      <3> HIDE DEF s, r
      <3> QED BY <2>3, <3>1, ShownFacts
    <2> QED BY <1>5, <2>1, <2>2, <2>3
  <1>8. r.state = "none" => r.queue = <<>>
    <2>1. CASE Open(c)
      BY <1>7, <2>1 DEF Open
    <2>2. CASE ~Open(c)
      BY <1>3, <1>6, <2>2
    <2> QED BY <2>1, <2>2
  <1>9. /\ Below(r.queue, pushed)
        /\ \A x : Holds(s.queue, x) => Holds(r.queue, x)
        /\ r.queue = Append(s.queue, Desync) => Holds(r.queue, Desync)
        /\ \A shown : NoHoleIn(s.queue, shown) => NoHoleIn(r.queue, shown)
    BY <1>2, <1>6, <1>7, AppendDesync
  <1>10. \A n \in 1..pushed : r.state = "open" =>
            \/ n \in screen[c]
            \/ Holds(channel, n)
            \/ Holds(r.queue, Output(n)) \/ Holds(r.queue, Desync)
            \/ r.desynced \/ r.dropped \/ forgot[c]
            \/ skipped /\ n = pushed
    <2> SUFFICES ASSUME NEW n \in 1..pushed, r.state = "open"
                 PROVE  \/ n \in screen[c]
                        \/ Holds(channel, n)
                        \/ Holds(r.queue, Output(n)) \/ Holds(r.queue, Desync)
                        \/ r.desynced \/ r.dropped \/ forgot[c]
                        \/ skipped /\ n = pushed
      OBVIOUS
    <2>1. \/ n \in screen[c]
          \/ Holds(channel, n)
          \/ Holds(s.queue, Output(n)) \/ Holds(s.queue, Desync)
          \/ s.desynced \/ s.dropped \/ forgot[c]
          \/ skipped /\ n = pushed
      BY <1>7 DEF IInv, ChunkIsOwed, Open
    <2> HIDE DEF s, r
    <2> QED BY <1>7, <1>9, <2>1
  <1>11. forgot[c] \/ NoHoleIn(r.queue, screen[c])
    BY <1>9 DEF IInv, QueueHasNoHole
  <1>12. (\A n \in screen[c] : 1..n \subseteq screen[c]) \/ forgot[c]
    BY DEF IInv, ScreenHasNoHole, Whole
  <1>13. sub' \in [Client -> Subscriber]
    BY <1>2, <1>4, <1>7
  <1>14. {hide', report'} \subseteq [Client -> BOOLEAN]
    BY <1>1, <1>2, OtherTypes
  <1> QED BY <1>1, <1>2, <1>4, <1>6, <1>7, <1>8, <1>9, <1>10, <1>11, <1>12, <1>13, <1>14,
             OneClient, OtherTypes

LEMMA ClearHiddenKeeps ==
  ASSUME IInv, NEW c \in Client, ClearHidden(c)
  PROVE  IInv'
  <1>1. /\ UNCHANGED <<pushed, channel, skipped, session, hide, report, screen, told>>
        /\ link' = [link EXCEPT ![c].stale = FALSE]
        /\ sub' = [sub EXCEPT ![c].hidden = FALSE, ![c].dropped = FALSE]
        /\ forgot' = [forgot EXCEPT ![c] = @ \/ sub[c].dropped]
    BY DEF ClearHidden
  <1>2. /\ TypeOK /\ pushed \in Nat /\ sub \in [Client -> Subscriber]
        /\ screen \in [Client -> SUBSET (1..MaxSeq)] /\ forgot \in [Client -> BOOLEAN]
        /\ sub[c] \in Subscriber /\ Len(sub[c].queue) <= Capacity
    BY TypeFacts DEF IInv
  <1>3. link' \in [Client -> [up : BOOLEAN, stale : BOOLEAN]]
    BY <1>1, <1>2, OtherTypes
  <1>4. /\ sub'[c] = [sub[c] EXCEPT !.hidden = FALSE, !.dropped = FALSE]
        /\ \A d \in Client \ {c} : sub'[d] = sub[d]
    BY <1>1, <1>2
  <1>5. /\ sub'[c] \in Subscriber /\ sub'[c].state = sub[c].state
        /\ sub'[c].queue = sub[c].queue /\ sub'[c].desynced = sub[c].desynced
        /\ ~sub'[c].dropped
    BY <1>2, <1>4 DEF Subscriber
  <1>6. /\ forgot' \in [Client -> BOOLEAN]
        /\ \A d \in Client \ {c} : forgot'[d] = forgot[d]
    BY <1>1, <1>2
  <1>7. forgot'[c] <=> forgot[c] \/ sub[c].dropped
    BY <1>1, <1>2
  <1>8. sub' \in [Client -> Subscriber]
    BY <1>1, <1>2, <1>5
  <1>9. /\ sub[c].state = "none" => sub[c].queue = <<>>
        /\ Below(sub[c].queue, pushed) /\ screen[c] \subseteq 1..pushed
    BY DEF IInv, Bounded
  <1>10. \A n \in 1..pushed : sub'[c].state = "open" =>
            \/ n \in screen[c]
            \/ Holds(channel, n)
            \/ Holds(sub'[c].queue, Output(n)) \/ Holds(sub'[c].queue, Desync)
            \/ sub'[c].desynced \/ sub'[c].dropped \/ forgot'[c]
            \/ skipped /\ n = pushed
    <2> SUFFICES ASSUME NEW n \in 1..pushed, sub'[c].state = "open"
                 PROVE  \/ n \in screen[c]
                        \/ Holds(channel, n)
                        \/ Holds(sub'[c].queue, Output(n)) \/ Holds(sub'[c].queue, Desync)
                        \/ sub'[c].desynced \/ sub'[c].dropped \/ forgot'[c]
                        \/ skipped /\ n = pushed
      OBVIOUS
    <2>1. \/ n \in screen[c]
          \/ Holds(channel, n)
          \/ Holds(sub[c].queue, Output(n)) \/ Holds(sub[c].queue, Desync)
          \/ sub[c].desynced \/ sub[c].dropped \/ forgot[c]
          \/ skipped /\ n = pushed
      BY <1>5 DEF IInv, ChunkIsOwed, Open
    <2> QED BY <1>5, <1>7, <2>1
  <1>11. forgot'[c] \/ NoHoleIn(sub'[c].queue, screen[c])
    BY <1>5, <1>7 DEF IInv, QueueHasNoHole
  <1>12. (\A n \in screen[c] : 1..n \subseteq screen[c]) \/ forgot'[c]
    BY <1>7 DEF IInv, ScreenHasNoHole, Whole
  <1> QED BY <1>1, <1>2, <1>3, <1>4, <1>5, <1>6, <1>8, <1>9, <1>10, <1>11, <1>12,
             OneClient, OtherTypes

LEMMA OutsideKeeps ==
  ASSUME IInv, NEW c \in Client, ChangeVisibility(c) \/ LinkDown(c) \/ LinkUp(c)
  PROVE  IInv'
  <1>1. UNCHANGED <<pushed, channel, skipped, session, sub, screen, told, forgot>>
    BY DEF ChangeVisibility, LinkDown, LinkUp
  <1>2. TypeOK
    BY DEF IInv
  <1>3. /\ link' \in [Client -> [up : BOOLEAN, stale : BOOLEAN]]
        /\ hide' \in [Client -> BOOLEAN] /\ report' \in [Client -> BOOLEAN]
    <2>1. CASE ChangeVisibility(c)
      BY <1>2, <2>1, OtherTypes DEF ChangeVisibility
    <2>2. CASE LinkDown(c)
      BY <1>2, <2>2, OtherTypes DEF LinkDown
    <2>3. CASE LinkUp(c)
      BY <1>2, <2>3, OtherTypes DEF LinkUp
    <2> QED BY <2>1, <2>2, <2>3
  <1>4. TypeOK'
    BY <1>1, <1>2, <1>3 DEF TypeOK
  <1>5. ScreenHasNoHole' /\ QueueHasNoHole' /\ Bounded'
    BY <1>1 DEF IInv, ScreenHasNoHole, Whole, QueueHasNoHole, Bounded
  <1>6. ChannelInOrder'
    BY <1>1 DEF IInv, ChannelInOrder
  <1>7. ChunkIsOwed'
    BY <1>1 DEF IInv, ChunkIsOwed, Open
  <1> QED BY <1>4, <1>5, <1>6, <1>7 DEF IInv
-----------------------------------------------------------------------------
LEMMA InitIInv == Init => IInv
  <1> SUFFICES ASSUME Init
               PROVE  IInv
    OBVIOUS
  <1>1. /\ pushed = 0 /\ channel = <<>> /\ skipped = FALSE
        /\ \A c \in Client : /\ sub[c] = NoSub /\ screen[c] = {}
                             /\ sub[c].queue = <<>> /\ ~sub[c].dropped
                             /\ sub[c].state = "none"
    BY EmptyQueue DEF Init
  <1>2. TypeOK
    <2>1. channel \in Seq(1..MaxSeq) /\ Len(channel) <= BatchRoom /\ pushed \in 0..MaxSeq
      BY <1>1, CapacityAssumption
    <2>2. sub \in [Client -> Subscriber]
      BY EmptyQueue DEF Init
    <2>3. \A c \in Client : Len(sub[c].queue) <= Capacity
      BY <1>1, EmptyQueue, CapacityAssumption
    <2> QED BY <2>1, <2>2, <2>3 DEF Init, TypeOK, Subscriber
  <1>3. ScreenHasNoHole
    BY <1>1 DEF ScreenHasNoHole, Whole
  <1>4. ChannelInOrder
    BY <1>1 DEF ChannelInOrder
  <1>5. ChunkIsOwed
    BY <1>1 DEF ChunkIsOwed, Open
  <1>6. QueueHasNoHole
    BY <1>1, EmptyQueue DEF QueueHasNoHole
  <1>7. Bounded
    BY <1>1, EmptyQueue DEF Bounded
  <1> QED BY <1>2, <1>3, <1>4, <1>5, <1>6, <1>7 DEF IInv

LEMMA NextIInv == IInv /\ [Next]_vars => IInv'
  <1> SUFFICES ASSUME IInv, [Next]_vars
               PROVE  IInv'
    OBVIOUS
  <1>1. CASE ReaderPushes
    BY <1>1, ReaderPushesKeeps
  <1>2. CASE SignalDesync
    BY <1>2, SignalDesyncKeeps
  <1>3. CASE EmitOutput
    BY <1>3, EmitOutputKeeps
  <1>4. CASE EmitKilled
    BY <1>4, EndSessionKeeps DEF EmitKilled
  <1>5. CASE EmitExit
    BY <1>5, EndSessionKeeps DEF EmitExit
  <1>6. ASSUME NEW c \in Client, ClientStep(c)
        PROVE  IInv'
    BY <1>6, SubscribeKeeps, MirrorLeaves, ForwardKeeps, OutsideKeeps, ReportHiddenKeeps,
       ClearHiddenKeeps DEF ClientStep
  <1>7. CASE UNCHANGED vars
    <2>1. UNCHANGED <<pushed, channel, skipped, session, sub, link, hide, report, screen, told,
                      forgot>>
      BY <1>7 DEF vars
    <2>2. TypeOK'
      BY <2>1 DEF IInv, TypeOK
    <2>3. ScreenHasNoHole' /\ QueueHasNoHole' /\ Bounded'
      BY <2>1 DEF IInv, ScreenHasNoHole, Whole, QueueHasNoHole, Bounded
    <2>4. ChannelInOrder'
      BY <2>1 DEF IInv, ChannelInOrder
    <2>5. ChunkIsOwed'
      BY <2>1 DEF IInv, ChunkIsOwed, Open
    <2> QED BY <2>2, <2>3, <2>4, <2>5 DEF IInv
  <1> QED BY <1>1, <1>2, <1>3, <1>4, <1>5, <1>6, <1>7 DEF Next

LEMMA Invariance == Spec => []IInv
  BY InitIInv, NextIInv, PTL DEF Spec

\* Every variable of the mirror keeps its type and no queue of a subscriber outgrows
\* SESSION_CHANNEL_CAPACITY (publish_session, ws_emitter.rs), for every capacity, every
\* number of clients and chunks, and whether or not control links break.
THEOREM MirrorTypes == Spec => []TypeOK
  <1>1. IInv => TypeOK
    BY DEF IInv
  <1> QED BY <1>1, Invariance, PTL

\* No screen has a hole (the desync contract of ws_emitter.rs): whatever was dropped,
\* hidden or skipped, in whatever order the desyncs, the hidden marks and the broken
\* links come, a client shows a beginning of the session's output, except one whose
\* broken link has taken with it what the gate had dropped.
THEOREM NeverCut == Spec => []ScreenHasNoHole
  <1>1. IInv => ScreenHasNoHole
    BY DEF IInv
  <1> QED BY <1>1, Invariance, PTL

\* Output that a client misses is on its way or owed to it: the latch of a desync, the
\* mark of the hidden gate and the duty of the reader that skipped a chunk
\* (publish_session, signal_desync, set_session_hidden) forget nothing between them.
THEOREM GapsAreOwed == Spec => []GapIsOwed
  <1>1. IInv => GapIsOwed
    <2> SUFFICES ASSUME IInv, NEW c \in Subscribers, NEW n \in 1..pushed
                 PROVE  \/ n \in screen[c] \/ n \in ToSet(channel) \/ Queued(c, Output(n))
                        \/ Owed(c) \/ forgot[c]
      BY DEF GapIsOwed
    <2>1. c \in Client /\ Open(c)
      BY DEF Subscribers
    <2>2. \/ n \in screen[c]
          \/ Holds(channel, n)
          \/ Holds(sub[c].queue, Output(n)) \/ Holds(sub[c].queue, Desync)
          \/ sub[c].desynced \/ sub[c].dropped \/ forgot[c]
          \/ skipped /\ n = pushed
      BY <2>1 DEF IInv, ChunkIsOwed
    <2>3. Holds(channel, n) => n \in ToSet(channel)
      BY DEF Holds, ToSet
    <2>4. \A m : Holds(sub[c].queue, m) => Queued(c, m)
      BY DEF Holds, Queued, ToSet
    <2> QED BY <2>2, <2>3, <2>4 DEF Owed
  <1> QED BY <1>1, Invariance, PTL
=============================================================================
