------------------------- MODULE SessionLaunchProofs -------------------------
(***************************************************************************)
(* Theorems about SessionLaunch, for every number of attempts and faults.  *)
(*                                                                         *)
(* The inductive invariant says what the locks of reserve_launch, register *)
(* and cancel_launch give to each other: the attempts that were not sent   *)
(* yet have left no trace; a launch that has no session yet has nothing in *)
(* the map; and an attempt that a cancellation saw before its session was  *)
(* registered still has the mark before it.                                *)
(***************************************************************************)
EXTENDS SessionLaunch, TLAPS

\* The attempts are sent in order, and before the first one nothing is sent.
SentInOrder ==
    /\ \A a \in Attempt : a > call.a => pc[a] = "unsent"
    /\ ui = "idle" => pc[call.a] = "unsent" /\ call.a = 1 /\ call.at = "idle"

\* Before the PTY is spawned there is no process, before register no session.
NothingYet ==
    \A a \in Attempt :
        /\ pc[a] \in {"unsent", "reserve", "begin", "prepared"} =>
               process[a] = "none" /\ a \notin dying
        /\ pc[a] \in {"unsent", "reserve", "begin", "prepared", "spawned", "guarded",
                      "register"} => a \notin sessions

\* Once registered, a running process is in the map or a kill has taken it.
RegisteredOrTaken ==
    \A a \in Attempt :
        pc[a] = "threads" /\ Running(a) => a \in sessions \/ a \in dying

\* A cancellation cannot have seen an attempt that is not under way yet; one it
\* saw before its registration meets the mark at the next checkpoint.
MarkWaits ==
    \A a \in doomed :
        /\ pc[a] \notin {"unsent", "reserve"}
        /\ pc[a] \in {"begin", "prepared", "spawned", "guarded", "register"} => marked

IInv ==
    /\ TypeOK
    /\ OneSessionPerLaunch
    /\ NoProcessLeaks
    /\ CancelledIsNotKept
    /\ SentInOrder
    /\ NothingYet
    /\ RegisteredOrTaken
    /\ MarkWaits
-----------------------------------------------------------------------------
LEMMA InitIInv == Init => IInv
  <1> SUFFICES ASSUME Init
               PROVE  IInv
    OBVIOUS
  <1>1. \A a \in Attempt : ~InFlight(a) /\ ~Running(a) /\ pc[a] = "unsent"
    BY DEF Init, InFlight, UnderWay, Running
  <1>2. TypeOK
    <2>1. active = \E a \in Attempt : InFlight(a)
      BY <1>1 DEF Init
    <2>2. 1 \in Attempt /\ faults \in 0..MaxFaults
      BY BoundsAssumption DEF Init, Attempt
    <2> QED BY <2>1, <2>2 DEF Init, TypeOK
  <1>3. OneSessionPerLaunch /\ NoProcessLeaks /\ CancelledIsNotKept /\ MarkWaits
    BY <1>1 DEF Init, OneSessionPerLaunch, NoProcessLeaks, CancelledIsNotKept, MarkWaits
  <1>4. SentInOrder /\ NothingYet /\ RegisteredOrTaken
    BY <1>1, BoundsAssumption
       DEF Init, SentInOrder, NothingYet, RegisteredOrTaken, Attempt
  <1> QED BY <1>2, <1>3, <1>4 DEF IInv
-----------------------------------------------------------------------------
(* The thread that creates the session.                                    *)

LEMMA OnlyOneUnderWay ==
  ASSUME IInv, NEW a \in Attempt, InFlight(a)
  PROVE  active /\ \A b \in Attempt \ {a} : ~InFlight(b) /\ b \notin sessions
  BY DEF IInv, TypeOK, OneSessionPerLaunch

\* A launch is refused, or it fails: its thread drops the reservation, and its
\* process is dead or never was.
LEMMA RefusalKeeps ==
  ASSUME IInv, NEW a \in Attempt, Return(a, "error"),
         \/ pc[a] \in {"begin", "prepared"} /\ UNCHANGED process
         \/ pc[a] \in {"spawned", "reap"} /\ process' = [process EXCEPT ![a] = "dead"],
         marked' \in BOOLEAN, faults' \in 0..MaxFaults,
         UNCHANGED <<ui, call, handler, sessions, cancel, dying, lost>>
  PROVE  IInv'
  <1>1. InFlight(a) /\ pc[a] \notin {"unsent", "reserve", "ended"}
    BY DEF InFlight, UnderWay
  <1>2. /\ pc' = [pc EXCEPT ![a] = "ended"]
        /\ outcome' = [outcome EXCEPT ![a] = "error"]
        /\ active' = FALSE
        /\ doomed' = doomed \ {a}
    BY DEF Return
  <1>3. \A b \in Attempt : ~InFlight(b)'
    BY <1>1, <1>2, OnlyOneUnderWay DEF IInv, TypeOK, InFlight, UnderWay
  <1>4. process' \in [Attempt -> {"none", "running", "dead"}]
    BY DEF IInv, TypeOK
  <1>5. \A b \in Attempt : Running(b)' => Running(b) /\ b # a
    BY DEF IInv, TypeOK, NothingYet, Running
  <1>6. \A b \in Attempt : pc'[b] = IF b = a THEN "ended" ELSE pc[b]
    BY <1>2 DEF IInv, TypeOK
  <1>7. \A b \in Attempt \ {a} : pc[b] \notin UnderWay
    BY <1>1, OnlyOneUnderWay DEF InFlight
  <1>8. TypeOK'
    <2>1. (active = \E b \in Attempt : InFlight(b))'
      BY <1>2, <1>3
    <2> QED BY <1>2, <1>4, <2>1 DEF IInv, TypeOK
  <1>9. OneSessionPerLaunch'
    BY <1>3 DEF IInv, OneSessionPerLaunch
  <1>10. NoProcessLeaks'
    BY <1>3, <1>5, <1>7 DEF IInv, NoProcessLeaks, InFlight
  <1>11. CancelledIsNotKept'
    BY <1>2, <1>6 DEF IInv, CancelledIsNotKept
  <1>12. SentInOrder'
    BY <1>1, <1>6 DEF IInv, TypeOK, SentInOrder
  <1>13. NothingYet'
    BY <1>5, <1>6 DEF IInv, TypeOK, NothingYet
  <1>14. RegisteredOrTaken' /\ MarkWaits'
    BY <1>2, <1>6, <1>7 DEF IInv, TypeOK, RegisteredOrTaken, MarkWaits, UnderWay
  <1> QED BY <1>8, <1>9, <1>10, <1>11, <1>12, <1>13, <1>14 DEF IInv

\* A launch that is not marked goes on to its next stage; from "prepared" on
\* it has a process.
LEMMA AdvanceKeeps ==
  ASSUME IInv, NEW a \in Attempt, NEW stage, ~marked, marked' = FALSE,
         pc' = [pc EXCEPT ![a] = stage],
         \/ pc[a] = "begin" /\ stage = "prepared" /\ UNCHANGED process
         \/ pc[a] = "prepared" /\ stage = "spawned"
                               /\ process' = [process EXCEPT ![a] = "running"]
         \/ pc[a] = "spawned" /\ stage = "guarded" /\ UNCHANGED process,
         UNCHANGED <<ui, call, handler, outcome, sessions, active, cancel, dying, doomed,
                     faults, lost>>
  PROVE  IInv'
  <1>1. InFlight(a) /\ stage \in {"prepared", "spawned", "guarded"}
    BY DEF InFlight, UnderWay
  <1>2. \A b \in Attempt : pc'[b] = IF b = a THEN stage ELSE pc[b]
    BY DEF IInv, TypeOK
  <1>3. \A b \in Attempt : InFlight(b)' <=> InFlight(b)
    BY <1>1, <1>2 DEF InFlight, UnderWay
  <1>4. \A b \in Attempt \ {a} : Running(b)' <=> Running(b)
    BY DEF IInv, TypeOK, Running
  <1>5. TypeOK'
    <2>1. pc' \in [Attempt -> {"unsent", "reserve", "ended"} \cup UnderWay]
      BY <1>1 DEF IInv, TypeOK, UnderWay
    <2>2. process' \in [Attempt -> {"none", "running", "dead"}]
      BY DEF IInv, TypeOK
    <2>3. (\E b \in Attempt : InFlight(b)') <=> (\E b \in Attempt : InFlight(b))
      BY <1>3
    <2>4. (active = \E b \in Attempt : InFlight(b))'
      BY <2>3 DEF IInv, TypeOK
    <2> QED BY <2>1, <2>2, <2>4 DEF IInv, TypeOK
  <1>6. OneSessionPerLaunch'
    BY <1>3 DEF IInv, OneSessionPerLaunch
  <1>7. NoProcessLeaks'
    BY <1>1, <1>3, <1>4 DEF IInv, NoProcessLeaks
  <1>8. CancelledIsNotKept'
    BY <1>1, <1>2 DEF IInv, TypeOK, CancelledIsNotKept
  <1>9. SentInOrder'
    BY <1>2 DEF IInv, TypeOK, SentInOrder
  <1>10. NothingYet'
    <2>1. \/ process[a] = "none" /\ a \notin dying
          \/ stage # "prepared"
      BY DEF IInv, NothingYet
    <2> QED BY <1>1, <1>2, <2>1 DEF IInv, TypeOK, NothingYet
  <1>11. RegisteredOrTaken'
    BY <1>1, <1>2, <1>4 DEF IInv, RegisteredOrTaken
  <1>12. MarkWaits'
    <2>1. a \notin doomed
      BY DEF IInv, TypeOK, MarkWaits
    <2>2. \A b \in doomed : pc'[b] = pc[b]
      BY <1>2, <2>1 DEF IInv, TypeOK
    <2> QED BY <2>2 DEF IInv, MarkWaits
  <1> QED BY <1>5, <1>6, <1>7, <1>8, <1>9, <1>10, <1>11, <1>12 DEF IInv

LEMMA ReserveKeeps ==
  ASSUME IInv, NEW a \in Attempt, Reserve(a)
  PROVE  IInv'
  <1>1. pc[a] = "reserve" /\ ~InFlight(a)
    BY DEF Reserve, InFlight, UnderWay
  <1>2. CASE active \/ sessions # {}
    <2>1. /\ pc' = [pc EXCEPT ![a] = "ended"]
          /\ outcome' = [outcome EXCEPT ![a] = "error"]
          /\ UNCHANGED <<ui, call, handler, process, sessions, active, marked, cancel,
                         dying, doomed, faults, lost>>
      BY <1>2 DEF Reserve
    <2>2. \A b \in Attempt : pc'[b] = IF b = a THEN "ended" ELSE pc[b]
      BY <2>1 DEF IInv, TypeOK
    <2>3. \A b \in Attempt : InFlight(b)' <=> InFlight(b)
      BY <1>1, <2>2 DEF InFlight, UnderWay
    <2>4. TypeOK'
      <3>1. (active = \E b \in Attempt : InFlight(b))'
        <4>1. (\E b \in Attempt : InFlight(b)') <=> (\E b \in Attempt : InFlight(b))
          BY <2>3
        <4> QED BY <2>1, <4>1 DEF IInv, TypeOK
      <3> QED BY <2>1, <3>1 DEF IInv, TypeOK
    <2>5. OneSessionPerLaunch' /\ NoProcessLeaks'
      BY <2>1, <2>3 DEF IInv, OneSessionPerLaunch, NoProcessLeaks, Running
    <2>6. CancelledIsNotKept' /\ MarkWaits'
      BY <1>1, <2>1, <2>2 DEF IInv, TypeOK, CancelledIsNotKept, MarkWaits
    <2>7. SentInOrder'
      BY <1>1, <2>1, <2>2 DEF IInv, TypeOK, SentInOrder
    <2>8. NothingYet' /\ RegisteredOrTaken'
      BY <2>1, <2>2 DEF IInv, NothingYet, RegisteredOrTaken, Running
    <2> QED BY <2>4, <2>5, <2>6, <2>7, <2>8 DEF IInv
  <1>3. CASE ~active /\ sessions = {}
    <2>1. /\ pc' = [pc EXCEPT ![a] = "begin"]
          /\ active' = TRUE
          /\ UNCHANGED <<ui, call, handler, outcome, process, sessions, marked, cancel,
                         dying, doomed, faults, lost>>
      BY <1>3 DEF Reserve
    <2>2. \A b \in Attempt : pc'[b] = IF b = a THEN "begin" ELSE pc[b]
      BY <2>1 DEF IInv, TypeOK
    <2>3. \A b \in Attempt : InFlight(b)' <=> b = a
      BY <1>3, <2>2 DEF IInv, TypeOK, InFlight, UnderWay
    <2>4. TypeOK'
      <3>1. pc' \in [Attempt -> {"unsent", "reserve", "ended"} \cup UnderWay]
        BY <2>1 DEF IInv, TypeOK, UnderWay
      <3>2. (active = \E b \in Attempt : InFlight(b))'
        BY <2>1, <2>3
      <3> QED BY <2>1, <3>1, <3>2 DEF IInv, TypeOK
    <2>5. OneSessionPerLaunch' /\ NoProcessLeaks'
      BY <1>3, <2>1, <2>3 DEF IInv, TypeOK, OneSessionPerLaunch, NoProcessLeaks, Running
    <2>6. CancelledIsNotKept' /\ MarkWaits'
      <3>1. a \notin doomed
        BY <1>1 DEF IInv, MarkWaits
      <3> QED BY <1>3, <2>1, <2>2, <3>1 DEF IInv, TypeOK, CancelledIsNotKept, MarkWaits
    <2>7. SentInOrder'
      BY <1>1, <2>1, <2>2 DEF IInv, TypeOK, SentInOrder
    <2>8. NothingYet' /\ RegisteredOrTaken'
      BY <1>1, <2>1, <2>2 DEF IInv, NothingYet, RegisteredOrTaken, Running
    <2> QED BY <2>4, <2>5, <2>6, <2>7, <2>8 DEF IInv
  <1> QED BY <1>2, <1>3

LEMMA LaunchBeginKeeps ==
  ASSUME IInv, NEW a \in Attempt, LaunchBegin(a) \/ PtyBegin(a) \/ PtySpawned(a)
  PROVE  IInv'
  <1>1. CASE marked
    <2>1. /\ Return(a, "error")
          /\ marked' = FALSE
          /\ UNCHANGED <<ui, call, handler, sessions, cancel, dying, faults, lost>>
          /\ \/ pc[a] \in {"begin", "prepared"} /\ UNCHANGED process
             \/ pc[a] = "spawned" /\ process' = [process EXCEPT ![a] = "dead"]
      BY <1>1 DEF LaunchBegin, PtyBegin, PtySpawned, EnsureActive
    <2>2. marked' \in BOOLEAN /\ faults' \in 0..MaxFaults
      BY <2>1 DEF IInv, TypeOK
    <2> QED BY <2>1, <2>2, RefusalKeeps
  <1>2. CASE ~marked
    <2>1. CASE LaunchBegin(a)
      BY <1>2, <2>1, AdvanceKeeps DEF LaunchBegin, EnsureActive
    <2>2. CASE PtyBegin(a)
      BY <1>2, <2>2, AdvanceKeeps DEF PtyBegin, EnsureActive
    <2>3. CASE PtySpawned(a)
      BY <1>2, <2>3, AdvanceKeeps DEF PtySpawned, EnsureActive
    <2> QED BY <2>1, <2>2, <2>3
  <1> QED BY <1>1, <1>2

LEMMA FailureKeeps ==
  ASSUME IInv, NEW a \in Attempt, PrepareFails(a) \/ GuardReap(a)
  PROVE  IInv'
  <1>1. /\ Return(a, "error")
        /\ \/ pc[a] = "prepared" /\ UNCHANGED process
           \/ pc[a] = "reap" /\ process' = [process EXCEPT ![a] = "dead"]
        /\ UNCHANGED <<ui, call, handler, sessions, cancel, dying, lost>>
    BY DEF PrepareFails, GuardReap
  <1>2. marked' \in BOOLEAN
    BY DEF PrepareFails, GuardReap, IInv, TypeOK
  <1>3. faults' \in 0..MaxFaults
    BY BoundsAssumption DEF PrepareFails, GuardReap, Fault, IInv, TypeOK
  <1> QED BY <1>1, <1>2, <1>3, RefusalKeeps

LEMMA RegisterKeeps ==
  ASSUME IInv, NEW a \in Attempt, Register(a)
  PROVE  IInv'
  <1>1. /\ pc[a] = "register" /\ InFlight(a)
        /\ marked' = FALSE
        /\ UNCHANGED <<ui, call, handler, outcome, active, cancel, dying, doomed, faults,
                       lost>>
    BY DEF Register, InFlight, UnderWay
  <1>2. sessions = {}
    BY <1>1, OnlyOneUnderWay DEF IInv, TypeOK, NothingYet
  <1>3. PICK stage \in {"drop", "threads"} :
           /\ pc' = [pc EXCEPT ![a] = stage]
           /\ stage = "drop" => /\ process' = [process EXCEPT ![a] = "dead"]
                                /\ sessions' = {}
           /\ stage = "threads" => /\ ~marked
                                   /\ process' = process
                                   /\ sessions' = {a}
    BY <1>2 DEF Register
  <1>4. \A b \in Attempt : pc'[b] = IF b = a THEN stage ELSE pc[b]
    BY <1>3 DEF IInv, TypeOK
  <1>5. \A b \in Attempt : InFlight(b)' <=> b = a
    BY <1>1, <1>4, OnlyOneUnderWay DEF InFlight, UnderWay
  <1>6. \A b \in Attempt : Running(b)' => Running(b)
    BY <1>3 DEF IInv, TypeOK, Running
  <1>7. TypeOK'
    <2>1. pc' \in [Attempt -> {"unsent", "reserve", "ended"} \cup UnderWay]
      BY <1>3 DEF IInv, TypeOK, UnderWay
    <2>2. /\ process' \in [Attempt -> {"none", "running", "dead"}]
          /\ sessions' \subseteq Attempt
      BY <1>3 DEF IInv, TypeOK
    <2>3. (active = \E b \in Attempt : InFlight(b))'
      BY <1>1, <1>5, OnlyOneUnderWay DEF IInv, TypeOK
    <2> QED BY <1>1, <2>1, <2>2, <2>3 DEF IInv, TypeOK
  <1>8. OneSessionPerLaunch'
    BY <1>3, <1>5 DEF OneSessionPerLaunch
  <1>9. NoProcessLeaks'
    BY <1>1, <1>2, <1>5, <1>6, OnlyOneUnderWay DEF IInv, NoProcessLeaks
  <1>10. CancelledIsNotKept' /\ MarkWaits'
    <2>1. stage = "threads" => doomed = {} \/ a \notin doomed
      BY <1>1, <1>3 DEF IInv, MarkWaits
    <2>2. \A b \in Attempt \ {a} : pc[b] \notin UnderWay
      BY <1>1, OnlyOneUnderWay DEF InFlight
    <2> QED BY <1>1, <1>3, <1>4, <2>1, <2>2
            DEF IInv, TypeOK, CancelledIsNotKept, MarkWaits, UnderWay
  <1>11. SentInOrder'
    BY <1>1, <1>4 DEF IInv, TypeOK, SentInOrder
  <1>12. NothingYet'
    BY <1>1, <1>3, <1>4 DEF IInv, TypeOK, NothingYet
  <1>13. RegisteredOrTaken'
    BY <1>1, <1>2, <1>3, <1>4, <1>6 DEF IInv, RegisteredOrTaken
  <1> QED BY <1>7, <1>8, <1>9, <1>10, <1>11, <1>12, <1>13 DEF IInv

-----------------------------------------------------------------------------
(* The application and the handler of the daemon.                          *)

LEMMA LaunchKeeps ==
  ASSUME IInv, Launch
  PROVE  IInv'
  <1>1. TypeOK'
    BY BoundsAssumption
       DEF Attempt, App, Canceller, UnderWay, InFlight, Post, Launch, TypeOK,
           SentInOrder, IInv
  <1>2. OneSessionPerLaunch'
    BY DEF Attempt, UnderWay, InFlight, Post, Launch, OneSessionPerLaunch, IInv
  <1>3. NoProcessLeaks'
    BY DEF Attempt, App, Canceller, UnderWay, InFlight, Running, Post, Launch, TypeOK,
           NoProcessLeaks, SentInOrder, IInv
  <1>4. CancelledIsNotKept'
    BY DEF Attempt, App, Canceller, UnderWay, InFlight, Post, Launch, TypeOK,
           CancelledIsNotKept, SentInOrder, IInv
  <1>5. SentInOrder'
    BY DEF Attempt, Post, Launch, SentInOrder, IInv
  <1>6. NothingYet'
    BY DEF Attempt, App, Canceller, UnderWay, InFlight, Post, Launch, TypeOK,
           SentInOrder, NothingYet, IInv
  <1>7. RegisteredOrTaken'
    BY DEF Attempt, Running, Post, Launch, RegisteredOrTaken, IInv
  <1>8. MarkWaits'
    BY DEF Attempt, App, Canceller, UnderWay, InFlight, Post, Launch, TypeOK,
           SentInOrder, MarkWaits, IInv
  <1> QED BY <1>1, <1>2, <1>3, <1>4, <1>5, <1>6, <1>7, <1>8 DEF IInv

LEMMA RetryKeeps ==
  ASSUME IInv, Retry
  PROVE  IInv'
  <1>1. TypeOK'
    BY BoundsAssumption
       DEF Attempt, App, Canceller, UnderWay, InFlight, Post, Retry, TypeOK,
           SentInOrder, IInv
  <1>2. OneSessionPerLaunch'
    BY DEF Attempt, UnderWay, InFlight, Post, Retry, OneSessionPerLaunch, IInv
  <1>3. NoProcessLeaks'
    BY DEF Attempt, App, Canceller, UnderWay, InFlight, Running, Post, Retry, TypeOK,
           NoProcessLeaks, SentInOrder, IInv
  <1>4. CancelledIsNotKept'
    BY DEF Attempt, App, Canceller, UnderWay, InFlight, Post, Retry, TypeOK,
           CancelledIsNotKept, SentInOrder, IInv
  <1>5. SentInOrder'
    BY DEF Attempt, App, Canceller, UnderWay, InFlight, Post, Retry, TypeOK,
           SentInOrder, IInv
  <1>6. NothingYet'
    BY DEF Attempt, App, Canceller, UnderWay, InFlight, Post, Retry, TypeOK,
           SentInOrder, NothingYet, IInv
  <1>7. RegisteredOrTaken'
    BY DEF Attempt, Running, Post, Retry, RegisteredOrTaken, IInv
  <1>8. MarkWaits'
    BY DEF Attempt, App, Canceller, UnderWay, InFlight, Post, Retry, TypeOK,
           SentInOrder, MarkWaits, IInv
  <1> QED BY <1>1, <1>2, <1>3, <1>4, <1>5, <1>6, <1>7, <1>8 DEF IInv

LEMMA AnswerLostKeeps ==
  ASSUME IInv, AnswerLost
  PROVE  IInv'
  <1>1. /\ OneSessionPerLaunch' /\ NoProcessLeaks' /\ CancelledIsNotKept' /\ NothingYet'
        /\ RegisteredOrTaken' /\ MarkWaits'
    BY DEF Attempt, App, Canceller, UnderWay, InFlight, Running, AnswerLost,
           OneSessionPerLaunch, NoProcessLeaks, CancelledIsNotKept, NothingYet,
           RegisteredOrTaken, MarkWaits, IInv
  <1>2. TypeOK'
    BY BoundsAssumption
       DEF Attempt, App, Canceller, UnderWay, InFlight, Fault, AnswerLost, TypeOK, IInv
  <1>3. SentInOrder'
    BY DEF Attempt, Fault, AnswerLost, SentInOrder, IInv
  <1> QED BY <1>1, <1>2, <1>3 DEF IInv

LEMMA GiveUpKeeps ==
  ASSUME IInv, GiveUp
  PROVE  IInv'
  <1>1. /\ OneSessionPerLaunch' /\ NoProcessLeaks' /\ CancelledIsNotKept' /\ NothingYet'
        /\ RegisteredOrTaken' /\ MarkWaits'
    BY DEF Attempt, App, Canceller, UnderWay, InFlight, Running, GiveUp,
           OneSessionPerLaunch, NoProcessLeaks, CancelledIsNotKept, NothingYet,
           RegisteredOrTaken, MarkWaits, IInv
  <1>2. TypeOK'
    BY BoundsAssumption
       DEF Attempt, App, Canceller, UnderWay, InFlight, GiveUp, TypeOK, IInv
  <1>3. SentInOrder'
    BY DEF Attempt, GiveUp, SentInOrder, IInv
  <1> QED BY <1>1, <1>2, <1>3 DEF IInv

LEMMA AppDeadlineKeeps ==
  ASSUME IInv, AppDeadline
  PROVE  IInv'
  <1>1. /\ OneSessionPerLaunch' /\ NoProcessLeaks' /\ NothingYet' /\ RegisteredOrTaken'
        /\ MarkWaits'
    BY DEF Attempt, UnderWay, InFlight, Running, AppDeadline, OneSessionPerLaunch,
           NoProcessLeaks, NothingYet, RegisteredOrTaken, MarkWaits, IInv
  <1>2. TypeOK'
    <2>1. cancel' \in [Canceller -> [at : {"idle", "due", "found"},
                                     found : SUBSET Attempt]]
      BY DEF AppDeadline, IInv, TypeOK, Canceller
    <2> QED BY <2>1 DEF AppDeadline, IInv, TypeOK, InFlight
  <1>3. CancelledIsNotKept'
    BY DEF Attempt, App, Canceller, AppDeadline, CancelledIsNotKept, IInv
  <1>4. SentInOrder'
    BY DEF Attempt, App, AppDeadline, SentInOrder, IInv
  <1> QED BY <1>1, <1>2, <1>3, <1>4 DEF IInv

LEMMA DeliverKeeps ==
  ASSUME IInv, Deliver
  PROVE  IInv'
  <1>1. /\ OneSessionPerLaunch' /\ NoProcessLeaks' /\ CancelledIsNotKept' /\ NothingYet'
        /\ RegisteredOrTaken' /\ MarkWaits'
    BY DEF Attempt, App, Canceller, UnderWay, InFlight, Running, Deliver,
           OneSessionPerLaunch, NoProcessLeaks, CancelledIsNotKept, NothingYet,
           RegisteredOrTaken, MarkWaits, IInv
  <1>2. TypeOK'
    BY BoundsAssumption
       DEF Attempt, App, Canceller, UnderWay, InFlight, Deliver, TypeOK, IInv
  <1>3. SentInOrder'
    BY DEF Attempt, Deliver, SentInOrder, IInv
  <1> QED BY <1>1, <1>2, <1>3 DEF IInv

LEMMA LateAnswerKeeps ==
  ASSUME IInv, LateAnswer
  PROVE  IInv'
  <1>1. TypeOK'
    BY BoundsAssumption
       DEF Attempt, App, Canceller, UnderWay, InFlight, Take, LateAnswer, TypeOK, IInv
  <1>2. OneSessionPerLaunch'
    BY DEF Attempt, UnderWay, InFlight, Take, LateAnswer, OneSessionPerLaunch, IInv
  <1>3. NoProcessLeaks'
    BY DEF Attempt, UnderWay, InFlight, Take, Running, LateAnswer, NoProcessLeaks, IInv
  <1>4. CancelledIsNotKept'
    BY DEF Attempt, App, Canceller, Take, LateAnswer, CancelledIsNotKept, IInv
  <1>5. SentInOrder'
    BY DEF Attempt, Take, LateAnswer, SentInOrder, IInv
  <1>6. NothingYet'
    BY DEF Attempt, Take, LateAnswer, NothingYet, IInv
  <1>7. RegisteredOrTaken'
    BY DEF Attempt, Take, Running, LateAnswer, RegisteredOrTaken, IInv
  <1>8. MarkWaits'
    BY DEF Take, LateAnswer, MarkWaits, IInv
  <1> QED BY <1>1, <1>2, <1>3, <1>4, <1>5, <1>6, <1>7, <1>8 DEF IInv

LEMMA AnswerKeeps ==
  ASSUME IInv, NEW a \in Attempt, Answer(a)
  PROVE  IInv'
  <1>1. /\ OneSessionPerLaunch' /\ NoProcessLeaks' /\ CancelledIsNotKept' /\ NothingYet'
        /\ RegisteredOrTaken' /\ MarkWaits'
    BY DEF Attempt, App, Canceller, UnderWay, InFlight, Running, Answer,
           OneSessionPerLaunch, NoProcessLeaks, CancelledIsNotKept, NothingYet,
           RegisteredOrTaken, MarkWaits, IInv
  <1>2. TypeOK'
    BY BoundsAssumption
       DEF Attempt, App, Canceller, UnderWay, InFlight, Receives, Answer, TypeOK, IInv
  <1>3. SentInOrder'
    BY DEF Attempt, Receives, Answer, SentInOrder, IInv
  <1> QED BY <1>1, <1>2, <1>3 DEF IInv

LEMMA DaemonDeadlineKeeps ==
  ASSUME IInv, NEW a \in Attempt, DaemonDeadline(a)
  PROVE  IInv'
  <1>1. /\ OneSessionPerLaunch' /\ NoProcessLeaks' /\ NothingYet' /\ RegisteredOrTaken'
        /\ MarkWaits'
    BY DEF Attempt, UnderWay, InFlight, Running, DaemonDeadline, OneSessionPerLaunch,
           NoProcessLeaks, NothingYet, RegisteredOrTaken, MarkWaits, IInv
  <1>2. TypeOK'
    <2>1. cancel' \in [Canceller -> [at : {"idle", "due", "found"},
                                     found : SUBSET Attempt]]
      BY DEF DaemonDeadline, IInv, TypeOK, Canceller
    <2> QED BY <2>1 DEF DaemonDeadline, IInv, TypeOK, InFlight, Receives
  <1>3. CancelledIsNotKept'
    BY DEF Attempt, App, Canceller, Receives, DaemonDeadline, CancelledIsNotKept, IInv
  <1>4. SentInOrder'
    BY DEF Attempt, Receives, DaemonDeadline, SentInOrder, IInv
  <1> QED BY <1>1, <1>2, <1>3, <1>4 DEF IInv

LEMMA LateOutcomeKeeps ==
  ASSUME IInv, NEW a \in Attempt, LateOutcome(a)
  PROVE  IInv'
  <1>1. SentInOrder'
    BY DEF Attempt, LateOutcome, SentInOrder, IInv
  <1>2. TypeOK'
    BY BoundsAssumption
       DEF Attempt, App, Canceller, UnderWay, InFlight, Take, LateOutcome, TypeOK, IInv
  <1>3. OneSessionPerLaunch'
    BY DEF Attempt, UnderWay, InFlight, Take, LateOutcome, OneSessionPerLaunch, IInv
  <1>4. NoProcessLeaks'
    BY DEF Attempt, UnderWay, InFlight, Take, Running, LateOutcome, NoProcessLeaks, IInv
  <1>5. CancelledIsNotKept'
    BY DEF Attempt, App, Canceller, Take, LateOutcome, CancelledIsNotKept, IInv
  <1>6. NothingYet'
    BY DEF Attempt, Take, LateOutcome, NothingYet, IInv
  <1>7. RegisteredOrTaken'
    BY DEF Attempt, Take, Running, LateOutcome, RegisteredOrTaken, IInv
  <1>8. MarkWaits'
    BY DEF Take, LateOutcome, MarkWaits, IInv
  <1> QED BY <1>1, <1>2, <1>3, <1>4, <1>5, <1>6, <1>7, <1>8 DEF IInv

-----------------------------------------------------------------------------
(* Cancellations and kills.                                                *)

LEMMA CancelLookKeeps ==
  ASSUME IInv, NEW k \in Canceller, CancelLook(k)
  PROVE  IInv'
  <1>1. /\ OneSessionPerLaunch' /\ NoProcessLeaks' /\ SentInOrder' /\ NothingYet'
        /\ RegisteredOrTaken'
    BY DEF Attempt, UnderWay, InFlight, Running, CancelLook, OneSessionPerLaunch,
           NoProcessLeaks, SentInOrder, NothingYet, RegisteredOrTaken, IInv
  <1>2. TypeOK'
    BY BoundsAssumption
       DEF Attempt, App, Canceller, UnderWay, InFlight, CancelLook, TypeOK, IInv
  <1>3. CancelledIsNotKept'
    BY DEF Attempt, App, Canceller, UnderWay, InFlight, CancelLook, TypeOK,
           CancelledIsNotKept, IInv
  <1>4. MarkWaits'
    <2>1. CASE sessions = {}
      BY <2>1
         DEF Attempt, App, Canceller, UnderWay, InFlight, CancelLook, TypeOK, MarkWaits,
             IInv
    <2>2. CASE sessions # {}
      <3>1. \A b \in Attempt : pc[b] \notin {"begin", "prepared", "spawned", "guarded",
                                            "register"}
        BY <2>2, OnlyOneUnderWay DEF IInv, TypeOK, NothingYet, InFlight, UnderWay
      <3> QED BY <2>2, <3>1 DEF IInv, TypeOK, NothingYet, MarkWaits, CancelLook, InFlight,
                 UnderWay
    <2> QED BY <2>1, <2>2
  <1> QED BY <1>1, <1>2, <1>3, <1>4 DEF IInv

LEMMA CancelKillKeeps ==
  ASSUME IInv, NEW k \in Canceller, CancelKill(k)
  PROVE  IInv'
  <1>1. SentInOrder'
    BY DEF Attempt, CancelKill, SentInOrder, IInv
  <1>2. TypeOK'
    BY BoundsAssumption
       DEF Attempt, App, Canceller, UnderWay, InFlight, Take, CancelKill, TypeOK, IInv
  <1>3. OneSessionPerLaunch'
    BY DEF Attempt, UnderWay, InFlight, Take, CancelKill, OneSessionPerLaunch, IInv
  <1>4. NoProcessLeaks'
    BY DEF Attempt, UnderWay, InFlight, Take, Running, CancelKill, NoProcessLeaks, IInv
  <1>5. CancelledIsNotKept'
    BY DEF Attempt, App, Canceller, Take, CancelKill, CancelledIsNotKept, IInv
  <1>6. NothingYet'
    BY DEF Attempt, Take, CancelKill, NothingYet, IInv
  <1>7. RegisteredOrTaken'
    BY DEF Attempt, Take, Running, CancelKill, RegisteredOrTaken, IInv
  <1>8. MarkWaits'
    BY DEF Take, CancelKill, MarkWaits, IInv
  <1> QED BY <1>1, <1>2, <1>3, <1>4, <1>5, <1>6, <1>7, <1>8 DEF IInv

LEMMA PurgeKeeps ==
  ASSUME IInv, Purge
  PROVE  IInv'
  <1>1. /\ OneSessionPerLaunch' /\ NoProcessLeaks' /\ SentInOrder' /\ NothingYet'
        /\ RegisteredOrTaken'
    BY DEF Attempt, UnderWay, InFlight, Running, Purge, OneSessionPerLaunch,
           NoProcessLeaks, SentInOrder, NothingYet, RegisteredOrTaken, IInv
  <1>2. TypeOK'
    BY BoundsAssumption
       DEF Attempt, App, Canceller, UnderWay, InFlight, Purge, TypeOK, IInv
  <1>3. CancelledIsNotKept'
    BY DEF Attempt, App, Canceller, UnderWay, InFlight, Purge, CancelledIsNotKept, IInv
  <1>4. MarkWaits'
    BY DEF UnderWay, InFlight, Purge, MarkWaits, IInv
  <1> QED BY <1>1, <1>2, <1>3, <1>4 DEF IInv

LEMMA FinishKillKeeps ==
  ASSUME IInv, NEW a \in Attempt, FinishKill(a)
  PROVE  IInv'
  <1>1. OneSessionPerLaunch' /\ CancelledIsNotKept' /\ SentInOrder' /\ MarkWaits'
    BY DEF Attempt, App, Canceller, UnderWay, InFlight, FinishKill, OneSessionPerLaunch,
           CancelledIsNotKept, SentInOrder, MarkWaits, IInv
  <1>2. TypeOK'
    BY BoundsAssumption
       DEF Attempt, App, Canceller, UnderWay, InFlight, FinishKill, TypeOK, IInv
  <1>3. NoProcessLeaks'
    BY DEF Attempt, App, Canceller, UnderWay, InFlight, Running, FinishKill, TypeOK,
           NoProcessLeaks, IInv
  <1>4. NothingYet'
    BY DEF Attempt, FinishKill, NothingYet, IInv
  <1>5. RegisteredOrTaken'
    BY DEF Attempt, App, Canceller, UnderWay, InFlight, Running, FinishKill, TypeOK,
           RegisteredOrTaken, IInv
  <1> QED BY <1>1, <1>2, <1>3, <1>4, <1>5 DEF IInv

-----------------------------------------------------------------------------
(* The other steps of the thread, and the end of the process.              *)

LEMMA PublishKeeps ==
  ASSUME IInv, NEW a \in Attempt, Publish(a)
  PROVE  IInv'
  <1>1. TypeOK'
    BY BoundsAssumption
       DEF Attempt, App, Canceller, UnderWay, InFlight, Publish, TypeOK, IInv
  <1>2. OneSessionPerLaunch'
    BY DEF Attempt, UnderWay, InFlight, Publish, OneSessionPerLaunch, IInv
  <1>3. NoProcessLeaks'
    BY DEF Attempt, UnderWay, InFlight, Running, Publish, NoProcessLeaks, IInv
  <1>4. CancelledIsNotKept'
    BY DEF Attempt, App, Canceller, Publish, CancelledIsNotKept, IInv
  <1>5. SentInOrder'
    BY DEF Attempt, Publish, SentInOrder, IInv
  <1>6. NothingYet'
    BY DEF Attempt, Publish, NothingYet, IInv
  <1>7. RegisteredOrTaken'
    BY DEF Attempt, Running, Publish, RegisteredOrTaken, IInv
  <1>8. MarkWaits'
    BY DEF Publish, MarkWaits, IInv
  <1> QED BY <1>1, <1>2, <1>3, <1>4, <1>5, <1>6, <1>7, <1>8 DEF IInv

LEMMA ThreadFailsKeeps ==
  ASSUME IInv, NEW a \in Attempt, ThreadFails(a)
  PROVE  IInv'
  <1>1. TypeOK'
    BY BoundsAssumption
       DEF Attempt, App, Canceller, UnderWay, InFlight, Fault, ThreadFails, TypeOK, IInv
  <1>2. OneSessionPerLaunch'
    BY DEF Attempt, UnderWay, InFlight, Fault, ThreadFails, OneSessionPerLaunch, IInv
  <1>3. NoProcessLeaks'
    BY DEF Attempt, UnderWay, InFlight, Fault, Running, ThreadFails, NoProcessLeaks,
           IInv
  <1>4. CancelledIsNotKept'
    BY DEF Attempt, App, Canceller, Fault, ThreadFails, CancelledIsNotKept, IInv
  <1>5. SentInOrder'
    BY DEF Attempt, Fault, ThreadFails, SentInOrder, IInv
  <1>6. NothingYet'
    BY DEF Attempt, Fault, ThreadFails, NothingYet, IInv
  <1>7. RegisteredOrTaken'
    BY DEF Attempt, Fault, Running, ThreadFails, RegisteredOrTaken, IInv
  <1>8. MarkWaits'
    BY DEF Fault, ThreadFails, MarkWaits, IInv
  <1> QED BY <1>1, <1>2, <1>3, <1>4, <1>5, <1>6, <1>7, <1>8 DEF IInv

LEMMA GuardDropKeeps ==
  ASSUME IInv, NEW a \in Attempt, GuardDrop(a)
  PROVE  IInv'
  <1>1. TypeOK'
    BY BoundsAssumption
       DEF Attempt, App, Canceller, UnderWay, InFlight, GuardDrop, TypeOK, IInv
  <1>2. OneSessionPerLaunch'
    BY DEF Attempt, UnderWay, InFlight, GuardDrop, OneSessionPerLaunch, IInv
  <1>3. NoProcessLeaks'
    BY DEF Attempt, UnderWay, InFlight, Running, GuardDrop, NoProcessLeaks, IInv
  <1>4. CancelledIsNotKept'
    BY DEF Attempt, App, Canceller, GuardDrop, CancelledIsNotKept, IInv
  <1>5. SentInOrder'
    BY DEF Attempt, GuardDrop, SentInOrder, IInv
  <1>6. NothingYet'
    BY DEF Attempt, GuardDrop, NothingYet, IInv
  <1>7. RegisteredOrTaken'
    BY DEF Attempt, Running, GuardDrop, RegisteredOrTaken, IInv
  <1>8. MarkWaits'
    BY DEF GuardDrop, MarkWaits, IInv
  <1> QED BY <1>1, <1>2, <1>3, <1>4, <1>5, <1>6, <1>7, <1>8 DEF IInv

LEMMA ReadyKeeps ==
  ASSUME IInv, NEW a \in Attempt, Ready(a)
  PROVE  IInv'
  <1>1. TypeOK'
    BY BoundsAssumption
       DEF Attempt, App, Canceller, UnderWay, InFlight, Return, Ready, TypeOK,
           OneSessionPerLaunch, IInv
  <1>2. OneSessionPerLaunch'
    BY DEF Attempt, UnderWay, InFlight, Return, Ready, OneSessionPerLaunch, IInv
  <1>3. NoProcessLeaks'
    BY DEF Attempt, App, Canceller, UnderWay, InFlight, Return, Running, Ready, TypeOK,
           NoProcessLeaks, RegisteredOrTaken, IInv
  <1>4. CancelledIsNotKept'
    BY DEF Attempt, App, Canceller, Return, Ready, CancelledIsNotKept, IInv
  <1>5. SentInOrder'
    BY DEF Attempt, Return, Ready, SentInOrder, IInv
  <1>6. NothingYet'
    BY DEF Attempt, Return, Ready, NothingYet, IInv
  <1>7. RegisteredOrTaken'
    BY DEF Attempt, Return, Running, Ready, RegisteredOrTaken, IInv
  <1>8. MarkWaits'
    BY DEF Return, Ready, MarkWaits, IInv
  <1> QED BY <1>1, <1>2, <1>3, <1>4, <1>5, <1>6, <1>7, <1>8 DEF IInv

LEMMA ExitKeeps ==
  ASSUME IInv, NEW a \in Attempt, Exit(a)
  PROVE  IInv'
  <1>1. OneSessionPerLaunch' /\ CancelledIsNotKept' /\ SentInOrder' /\ MarkWaits'
    BY DEF Attempt, App, Canceller, UnderWay, InFlight, Exit, OneSessionPerLaunch,
           CancelledIsNotKept, SentInOrder, MarkWaits, IInv
  <1>2. TypeOK'
    BY BoundsAssumption
       DEF Attempt, App, Canceller, UnderWay, InFlight, Fault, Running, Exit, TypeOK,
           IInv
  <1>3. NoProcessLeaks'
    BY DEF Attempt, UnderWay, InFlight, Fault, Running, Exit, NoProcessLeaks, IInv
  <1>4. NothingYet'
    BY DEF Attempt, Fault, Running, Exit, NothingYet, IInv
  <1>5. RegisteredOrTaken'
    BY DEF Attempt, Fault, Running, Exit, RegisteredOrTaken, IInv
  <1> QED BY <1>1, <1>2, <1>3, <1>4, <1>5 DEF IInv

LEMMA WaitedKeeps ==
  ASSUME IInv, NEW a \in Attempt, Waited(a)
  PROVE  IInv'
  <1>1. SentInOrder'
    BY DEF Attempt, Waited, SentInOrder, IInv
  <1>2. TypeOK'
    BY BoundsAssumption
       DEF Attempt, App, Canceller, UnderWay, InFlight, Waited, TypeOK, IInv
  <1>3. OneSessionPerLaunch'
    BY DEF Attempt, UnderWay, InFlight, Waited, OneSessionPerLaunch, IInv
  <1>4. NoProcessLeaks'
    BY DEF Attempt, UnderWay, InFlight, Running, Waited, NoProcessLeaks, IInv
  <1>5. CancelledIsNotKept'
    BY DEF Attempt, App, Canceller, Waited, CancelledIsNotKept, IInv
  <1>6. NothingYet'
    BY DEF Attempt, Waited, NothingYet, IInv
  <1>7. RegisteredOrTaken'
    BY DEF Attempt, Running, Waited, RegisteredOrTaken, IInv
  <1>8. MarkWaits'
    BY DEF Waited, MarkWaits, IInv
  <1> QED BY <1>1, <1>2, <1>3, <1>4, <1>5, <1>6, <1>7, <1>8 DEF IInv

-----------------------------------------------------------------------------
LEMMA NextIInv == IInv /\ [Next]_vars => IInv'
  <1> SUFFICES ASSUME IInv, [Next]_vars
               PROVE  IInv'
    OBVIOUS
  <1>1. CASE Launch \/ AppDeadline \/ AnswerLost \/ Purge
    BY <1>1, LaunchKeeps, AppDeadlineKeeps, AnswerLostKeeps, PurgeKeeps
  <1>2. CASE Application
    BY <1>2, RetryKeeps, GiveUpKeeps, DeliverKeeps, LateAnswerKeeps DEF Application
  <1>3. ASSUME NEW k \in Canceller, Cancellation(k)
        PROVE  IInv'
    BY <1>3, CancelLookKeeps, CancelKillKeeps DEF Cancellation
  <1>4. ASSUME NEW a \in Attempt, Creation(a)
        PROVE  IInv'
    BY <1>4, ReserveKeeps, LaunchBeginKeeps, PublishKeeps, RegisterKeeps, GuardDropKeeps,
       FailureKeeps, ReadyKeeps DEF Creation
  <1>5. ASSUME NEW a \in Attempt,
               PrepareFails(a) \/ ThreadFails(a) \/ Answer(a) \/ DaemonDeadline(a)
        PROVE  IInv'
    BY <1>5, FailureKeeps, ThreadFailsKeeps, AnswerKeeps, DaemonDeadlineKeeps
  <1>6. ASSUME NEW a \in Attempt,
               LateOutcome(a) \/ FinishKill(a) \/ Exit(a) \/ Waited(a)
        PROVE  IInv'
    BY <1>6, LateOutcomeKeeps, FinishKillKeeps, ExitKeeps, WaitedKeeps
  <1>7. CASE UNCHANGED vars
    <2>1. TypeOK'
      BY <1>7 DEF vars, IInv, TypeOK, InFlight, UnderWay
    <2>2. OneSessionPerLaunch' /\ NoProcessLeaks' /\ CancelledIsNotKept'
      BY <1>7 DEF vars, IInv, OneSessionPerLaunch, NoProcessLeaks, CancelledIsNotKept,
                  InFlight, UnderWay, Running
    <2>3. SentInOrder' /\ NothingYet' /\ RegisteredOrTaken' /\ MarkWaits'
      BY <1>7 DEF vars, IInv, SentInOrder, NothingYet, RegisteredOrTaken, MarkWaits,
                  Running
    <2> QED BY <2>1, <2>2, <2>3 DEF IInv
  <1> QED BY <1>1, <1>2, <1>3, <1>4, <1>5, <1>6, <1>7 DEF Next

LEMMA Invariance == Spec => []IInv
  BY InitIInv, NextIInv, PTL DEF Spec

\* The types, and: the launch id is reserved exactly while a thread is under way,
\* whichever of the returns, failures and cancellations ends it.
THEOREM LaunchTypes == Spec => []TypeOK
  <1>1. IInv => TypeOK
    BY DEF IInv
  <1> QED BY <1>1, Invariance, PTL

\* However often a request is sent, and whatever is lost or cancelled, at most one
\* attempt of a launch is under way or registered.
THEOREM OneSession == Spec => []OneSessionPerLaunch
  <1>1. IInv => OneSessionPerLaunch
    BY DEF IInv
  <1> QED BY <1>1, Invariance, PTL

\* No failure of a stage and no cancellation leaves a process that neither the map
\* nor a thread nor a kill holds.
THEOREM NoLeak == Spec => []NoProcessLeaks
  <1>1. IInv => NoProcessLeaks
    BY DEF IInv
  <1> QED BY <1>1, Invariance, PTL

\* An attempt that a cancellation saw is never kept in the map without a
\* cancellation about to kill it: the mark and the map leave no gap between them.
THEOREM CancelReaches == Spec => []CancelledIsNotKept
  <1>1. IInv => CancelledIsNotKept
    BY DEF IInv
  <1> QED BY <1>1, Invariance, PTL
=============================================================================
