---------------------------- MODULE WorkerReports ----------------------------
(***************************************************************************)
(* How the reports of workers reach the terminal of their leader           *)
(* (orchestrator_service.rs).  A report is typed into the terminal when the*)
(* leader is idle; while it is busy the report waits in a queue, from which*)
(* a flush takes all at once and sends each again.  A flush is started by  *)
(* the listener of the state machine, by the second look after an enqueue  *)
(* and by a scan every minute; nothing keeps these and the tools that the  *)
(* workers call apart, but for the lock of the queue.                      *)
(***************************************************************************)
EXTENDS Naturals, Sequences, FiniteSets, Selections

CONSTANTS
    Worker,
    MaxPending,     \* PENDING_REPORT_MAX_PER_LEADER
    MaxReports,     \* bound: reports of all workers
    MaxFaults,      \* bound: statuses that cannot be read, submits that fail
    MaxFlushes      \* bound: flushes that have started and taken nothing yet

ASSUME WorkerAssumption == IsFiniteSet(Worker)
ASSUME PendingAssumption == MaxPending \in Nat \ {0}
ASSUME BoundsAssumption ==
    MaxReports \in Nat /\ MaxFaults \in Nat /\ MaxFlushes \in Nat \ {0}

Report == [w : Worker, k : 1..MaxReports]

\* Busy stands for Initializing too, error for Exited, none for no session.
Status == {"busy", "idle", "error", "none"}

VARIABLES
    leader,     \* the status that status_for_automatic_submit tells
    edge,       \* a transition to idle or error whose listener has not run
    issued,     \* per worker: the reports it has made
    queue,      \* pending_worker_reports of the leader
    jobs,       \* sends under way: [todo, pc]; the head of todo is being sent
    flushes,    \* flush_pending_reports spawned
    clock,      \* stamps given so far
    horizon,    \* what was stamped this early has expired
    delivered,  \* reports typed into the terminal
    twice,      \* history: those typed again
    told,       \* workers marked reportDropped or with a Failed event
    untold,     \* history: workers whose expired report went without that
    faults

vars == <<leader, edge, issued, queue, jobs, flushes, clock, horizon, delivered, twice, told, untold, faults>>
time == <<clock, horizon>>
typed == <<delivered, twice>>

----------------------------------------------------------------------------
(* Helpers.                                                                *)

ReportOf(e) == [w |-> e.w, k |-> e.k]
WorkersOf(q) == {q[i].w : i \in DOMAIN q}

\* pending_report_expired.
Expired(e) == e.at <= horizon
FreshIn(q) == Only(q, {i \in DOMAIN q : ~Expired(q[i])})
ExpiredOf(q) == {q[i].w : i \in {i \in DOMAIN q : Expired(q[i])}}

\* The reports made so far.
Made == {r \in Report : r.k <= issued[r.w]}

Pending(r) ==
    \/ \E i \in DOMAIN queue : ReportOf(queue[i]) = r
    \/ \E j \in jobs : \E i \in DOMAIN j.todo : ReportOf(j.todo[i]) = r

\* Job j is at `pc` with the head of its list, or has done with it.
Goto(j, pc) == jobs' = (jobs \ {j}) \cup {[j EXCEPT !.pc = pc]}
Done(j) ==
    jobs' = (jobs \ {j}) \cup
            (IF Len(j.todo) = 1 THEN {} ELSE {[todo |-> Tail(j.todo), pc |-> "read"]})

SpawnFlush == flushes' = IF flushes < MaxFlushes THEN flushes + 1 ELSE flushes

\* clear_pending_reports_and_emit.
Clear == queue' = <<>> /\ told' = told \cup WorkersOf(queue)

Fault == faults < MaxFaults /\ faults' = faults + 1

----------------------------------------------------------------------------
Init ==
    /\ leader \in {"busy", "idle"}
    /\ edge = "none"
    /\ issued = [w \in Worker |-> 0]
    /\ queue = <<>> /\ jobs = {} /\ flushes = 0
    /\ clock = 0 /\ horizon = 0
    /\ delivered = {} /\ twice = {} /\ told = {} /\ untold = {}
    /\ faults = 0

----------------------------------------------------------------------------
(* The leader and the time.                                                *)

\* The status moves.  A status that the machine falls back to after a silence
\* has no transition, so no listener hears of it.
LeaderMoves(s) ==
    /\ leader \notin {s, "none"}
    /\ leader' = s
    /\ \/ edge' = edge
       \/ edge = "none" /\ s \in {"idle", "error"} /\ edge' = s
    /\ UNCHANGED <<issued, queue, jobs, flushes, time, typed, told, faults, untold>>

\* The listener of the transition: flush, clear or nothing.
Listener ==
    /\ edge # "none"
    /\ edge' = "none"
    /\ IF edge = "idle" /\ queue # <<>> THEN SpawnFlush ELSE UNCHANGED flushes
    /\ IF edge = "error" THEN Clear ELSE UNCHANGED <<queue, told>>
    /\ UNCHANGED <<leader, issued, jobs, time, typed, faults, untold>>

\* PENDING_REPORT_TTL_SECS pass for what was stamped up to t.
TimePasses ==
    /\ \E t \in (horizon + 1)..clock : horizon' = t
    /\ UNCHANGED <<leader, edge, issued, queue, jobs, flushes, clock, typed, told, faults, untold>>

----------------------------------------------------------------------------
(* A report is sent (send_worker_report_to_leader_...).                    *)

\* report_to_leader: a worker waits for the answer to its last call.
SendReport(w) ==
    /\ Cardinality(Made) < MaxReports
    /\ \A j \in jobs : ~(Head(j.todo).w = w /\ Head(j.todo).at = 0)
    /\ issued' = [issued EXCEPT ![w] = @ + 1]
    /\ jobs' = jobs \cup {[todo |-> <<[w |-> w, k |-> issued'[w], at |-> 0]>>, pc |-> "read"]}
    /\ UNCHANGED <<leader, edge, queue, flushes, time, typed, told, faults, untold>>

\* The status that was read decides what comes next.
ReadStatus(j) ==
    /\ j.pc = "read"
    /\ \/ leader = "idle" /\ Goto(j, "submit") /\ UNCHANGED told
       \/ leader = "busy" /\ Goto(j, "enqueue") /\ UNCHANGED told
       \/ leader = "error" /\ Goto(j, "clear") /\ UNCHANGED told
       \/ leader = "none" /\ Done(j) /\ told' = told \cup {Head(j.todo).w}
    /\ UNCHANGED <<leader, edge, issued, queue, flushes, time, typed, faults, untold>>

\* The status cannot be read, or the submit fails: skipped, a Failed event.
SendFails(j) ==
    /\ j.pc \in {"read", "submit"}
    /\ Fault
    /\ Done(j)
    /\ told' = told \cup {Head(j.todo).w}
    /\ UNCHANGED <<leader, edge, issued, queue, flushes, time, typed, untold>>

Submit(j) ==
    /\ j.pc = "submit"
    /\ LET r == ReportOf(Head(j.todo)) IN
       /\ delivered' = delivered \cup {r}
       /\ twice' = twice \cup ({r} \cap delivered)
    /\ Done(j)
    /\ UNCHANGED <<leader, edge, issued, queue, flushes, time, told, faults, untold>>

\* The leader was in error: what is queued goes, and the report is skipped.
SkipAndClear(j) ==
    /\ j.pc = "clear"
    /\ queue' = <<>>
    /\ told' = told \cup WorkersOf(queue) \cup {Head(j.todo).w}
    /\ Done(j)
    /\ UNCHANGED <<leader, edge, issued, flushes, time, typed, faults, untold>>

\* Mutant of Stamp: a report that comes from a flush is stamped anew.
StampNow(e) == clock + 1

\* queued_at: a report that comes from a flush keeps its stamp.
Stamp(e) == IF e.at = 0 THEN clock + 1 ELSE e.at

\* Mutant of Overflow: one too late.
OverflowLate(q) == IF Len(q) > MaxPending + 1 THEN 1 ELSE 0

\* How many of the oldest go.
Overflow(q) == IF Len(q) > MaxPending THEN 1 ELSE 0

\* enqueue_pending_report_with_queued_at.  A newer report of the worker that
\* waits already has the older one refused; what the pruning then found
\* expired is not recorded.
Enqueue(j) ==
    LET e == Head(j.todo)
        stamp == Stamp(e)
        fresh == FreshIn(queue)
        others == Only(fresh, {i \in DOMAIN fresh : fresh[i].w # e.w})
        all == Append(others, [e EXCEPT !.at = stamp])
        out == SubSeq(all, 1, Overflow(all))
    IN
    /\ j.pc = "enqueue"
    /\ clock' = IF e.at = 0 THEN stamp ELSE clock
    /\ IF \E i \in DOMAIN fresh : fresh[i].w = e.w /\ fresh[i].at > stamp
       THEN /\ queue' = fresh
            /\ Done(j)
            /\ untold' = untold \cup ExpiredOf(queue)
            /\ UNCHANGED told
       ELSE /\ queue' = SubSeq(all, Len(out) + 1, Len(all))
            /\ told' = told \cup ExpiredOf(queue) \cup WorkersOf(out)
            /\ Goto(j, "recheck")
            /\ UNCHANGED untold
    /\ UNCHANGED <<leader, edge, issued, flushes, horizon, typed, faults>>

\* The leader may have become idle before the enqueue, and its listener run.  A
\* status that cannot be read counts as busy.
Recheck(j) ==
    /\ j.pc = "recheck"
    /\ \/ leader = "idle" /\ SpawnFlush /\ UNCHANGED faults
       \/ leader # "idle" /\ UNCHANGED <<flushes, faults>>
       \/ leader = "idle" /\ Fault /\ UNCHANGED flushes
    /\ Done(j)
    /\ UNCHANGED <<leader, edge, issued, queue, time, typed, told, untold>>

SendStep(j) == ReadStatus(j) \/ Submit(j) \/ SkipAndClear(j) \/ Enqueue(j) \/ Recheck(j)

----------------------------------------------------------------------------
(* Flushes.                                                                *)

\* Mutant of FlushTakes: what is sent stays queued.
FlushCopies ==
    /\ flushes > 0
    /\ flushes' = flushes - 1
    /\ queue' = FreshIn(queue)
    /\ told' = told \cup ExpiredOf(queue)
    /\ jobs' = jobs \cup (IF FreshIn(queue) = <<>> THEN {}
                          ELSE {[todo |-> FreshIn(queue), pc |-> "read"]})
    /\ UNCHANGED <<leader, edge, issued, time, typed, faults, untold>>

\* flush_pending_reports takes the queue; its job sends one after the other.
FlushTakes ==
    /\ flushes > 0
    /\ flushes' = flushes - 1
    /\ queue' = <<>>
    /\ told' = told \cup ExpiredOf(queue)
    /\ jobs' = jobs \cup (IF FreshIn(queue) = <<>> THEN {}
                          ELSE {[todo |-> FreshIn(queue), pc |-> "read"]})
    /\ UNCHANGED <<leader, edge, issued, time, typed, faults, untold>>

\* Mutant of LevelScan: it leaves an idle leader to the listener.
LevelScanClears ==
    /\ queue # <<>>
    /\ leader \in {"error", "none"} /\ Clear
    /\ UNCHANGED <<leader, edge, issued, jobs, flushes, time, typed, faults, untold>>

\* scan_pending_reports_once.
LevelScan ==
    /\ queue # <<>>
    /\ \/ leader = "idle" /\ SpawnFlush /\ UNCHANGED <<queue, told>>
       \/ leader \in {"error", "none"} /\ Clear /\ UNCHANGED flushes
    /\ UNCHANGED <<leader, edge, issued, jobs, time, typed, faults, untold>>

----------------------------------------------------------------------------
SomeSend == \E j \in jobs : SendStep(j)

Next ==
    \/ \E s \in Status : LeaderMoves(s)
    \/ Listener \/ TimePasses
    \/ \E w \in Worker : SendReport(w)
    \/ SomeSend
    \/ \E j \in jobs : SendFails(j)
    \/ FlushTakes \/ LevelScan

Spec == Init /\ [][Next]_vars

\* Tasks run on and the interval of the scan ticks; a listener runs to its end.
FairSpec ==
    /\ Spec
    /\ WF_vars(SomeSend) /\ WF_vars(FlushTakes) /\ WF_vars(LevelScan) /\ WF_vars(Listener)

----------------------------------------------------------------------------
(* Properties.                                                             *)

Entry == [w : Worker, k : 1..MaxReports, at : 0..clock]

\* Typing; one report of a worker in the queue, and no more than it holds.
TypeOK ==
    /\ leader \in Status /\ edge \in {"idle", "error", "none"}
    /\ issued \in [Worker -> 0..MaxReports]
    /\ queue \in Seq(Entry) /\ Len(queue) <= MaxPending
    /\ \A i, j \in DOMAIN queue : queue[i].w = queue[j].w => i = j
    /\ jobs \subseteq [todo : Seq(Entry) \ {<<>>},
                     pc : {"read", "submit", "enqueue", "clear", "recheck"}]
    /\ flushes \in 0..MaxFlushes
    /\ clock \in Nat /\ horizon \in 0..clock
    /\ delivered \subseteq Report /\ twice \subseteq delivered
    /\ told \subseteq Worker /\ untold \subseteq Worker
    /\ faults \in 0..MaxFaults

\* Whoever flushes and whatever a flush meets on its way, no report is typed
\* into the terminal twice.
DeliveredOnce == twice = {}

\* The newest report of a worker is on its way, delivered, or the worker is
\* marked: no older report of a flush takes its place, and nothing is lost
\* between the queue and the batches.
NewestIsKept ==
    \A w \in Worker : issued[w] > 0 =>
        LET r == [w |-> w, k |-> issued[w]] IN
        Pending(r) \/ r \in delivered \/ w \in told \cup untold

\* Once the leader stays out of its turns, everything that waits is delivered
\* or dropped, also when the machine never reported the transition.
WaitingEnds ==
    <>[](leader # "busy") => <>[](queue = <<>> /\ jobs = {})

=============================================================================
