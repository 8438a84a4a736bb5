--------------------------- MODULE SessionLaunch ---------------------------
(***************************************************************************)
(* One launch of a terminal, from the request of the application to the    *)
(* session of the daemon, and everything that may cancel it: the deadline  *)
(* of the daemon's handler (server.rs), the deadline of the application    *)
(* (terminal_commands.rs), and the retry of a request whose answer never   *)
(* came (terminal_backend_state.rs).  The thread that creates the session  *)
(* (TerminalService::create_session) and cancel_launch meet at the mark in *)
(* cancelled_launches, the reservation in active_launches and the map      *)
(* sessions; all of it is about ONE launch id.                             *)
(***************************************************************************)
EXTENDS Naturals, FiniteSets

CONSTANTS
    MaxAttempts,   \* how often the request is sent: once, and once more
    MaxFaults      \* bound: answers lost, probes and stages that fail

ASSUME BoundsAssumption == MaxAttempts \in Nat \ {0} /\ MaxFaults \in Nat

Attempt == 1..MaxAttempts
App == 0                      \* the application, among those who may cancel
Canceller == Attempt \cup {App}

VARIABLES
    ui,        \* the command create_terminal_session that the window waits for
    call,      \* its blocking thread: where it is, and the attempt it sent last
    handler,   \* handler[a]: the daemon's handler of the request
    pc,        \* pc[a]: where the thread that creates the session is
    outcome,   \* outcome[a]: what that thread returned
    process,   \* process[a]: "none", "running" or "dead"
    sessions,  \* attempts whose session is in the sessions map
    active,    \* the launch id is in active_launches
    marked,    \* the launch id is in cancelled_launches
    cancel,    \* cancel[k]: the call of cancel_launch by k and what it found
    dying,     \* sessions taken out of the map by a kill that goes on
    doomed,    \* history: attempts cancelled while under way or registered
    lost,      \* history: attempts whose answer was lost
    faults     \* faults so far

vars == <<ui, call, handler, pc, outcome, process, sessions, active, marked, cancel,
          dying, doomed, lost, faults>>

----------------------------------------------------------------------------
(* Helpers.                                                                *)

\* Stages at which the thread holds the reservation of the launch.
UnderWay == {"begin", "prepared", "spawned", "guarded", "register", "threads",
             "drop", "reap"}
InFlight(a) == pc[a] \in UnderWay

\* Mutant of Return: only a launch that succeeds gives the reservation back.
ReturnKeeps(a, result) ==
    /\ pc' = [pc EXCEPT ![a] = "ended"]
    /\ outcome' = [outcome EXCEPT ![a] = result]
    /\ active' = (active /\ result # "ok")
    /\ doomed' = IF result = "ok" THEN doomed ELSE doomed \ {a}

\* The thread returns: the reservation is dropped after everything else.
Return(a, result) ==
    /\ pc' = [pc EXCEPT ![a] = "ended"]
    /\ outcome' = [outcome EXCEPT ![a] = result]
    /\ active' = FALSE
    /\ doomed' = IF result = "ok" THEN doomed ELSE doomed \ {a}

\* kill_with_reason up to the end of its lock: the session leaves the map and
\* only who took it out kills the process, in FinishKill.
Take(S) ==
    /\ sessions' = sessions \ S
    /\ dying' = dying \cup (S \cap sessions)
    /\ doomed' = doomed \ S

Fault == faults < MaxFaults /\ faults' = faults + 1

Running(a) == process[a] = "running"

----------------------------------------------------------------------------
Init ==
    /\ ui = "idle"
    /\ call = [at |-> "idle", a |-> 1]
    /\ handler = [a \in Attempt |-> "none"]
    /\ pc = [a \in Attempt |-> "unsent"]
    /\ outcome = [a \in Attempt |-> "none"]
    /\ process = [a \in Attempt |-> "none"]
    /\ sessions = {}
    /\ active = FALSE
    /\ marked = FALSE
    /\ cancel = [k \in Canceller |-> [at |-> "idle", found |-> {}]]
    /\ dying = {}
    /\ doomed = {}
    /\ lost = {}
    /\ faults = 0

----------------------------------------------------------------------------
(* The application.                                                        *)

Post(a) ==
    /\ call' = [at |-> "waiting", a |-> a]
    /\ handler' = [handler EXCEPT ![a] = "waiting"]
    /\ pc' = [pc EXCEPT ![a] = "reserve"]

Launch ==
    /\ ui = "idle"
    /\ ui' = "waiting"
    /\ Post(1)
    /\ UNCHANGED <<outcome, process, sessions, active, marked, cancel, dying, doomed,
                   faults, lost>>

\* The connection breaks, or the client's own timeout strikes.
AnswerLost ==
    /\ call.at = "waiting"
    /\ Fault
    /\ call' = [call EXCEPT !.at = "lost"]
    /\ lost' = lost \cup {call.a}
    /\ UNCHANGED <<ui, handler, pc, outcome, process, sessions, active, marked, cancel,
                   dying, doomed>>

\* create_session_recovering: the daemon does not answer the probe, the
\* application reconnects and sends the same request once more.  It does so
\* even when the window has given up meanwhile.
Retry ==
    /\ call.at \in {"lost", "refused"}
    /\ call.a < MaxAttempts
    /\ Post(call.a + 1)
    /\ UNCHANGED <<ui, outcome, process, sessions, active, marked, cancel, dying,
                   doomed, lost, faults>>

\* The daemon is healthy, or the retry failed too: the error is returned.
GiveUp ==
    /\ call.at \in {"lost", "refused"}
    /\ call' = [call EXCEPT !.at = "over"]
    /\ ui' = IF ui = "waiting" THEN "done" ELSE ui
    /\ UNCHANGED <<handler, pc, outcome, process, sessions, active, marked, cancel, dying,
                   doomed, faults, lost>>

\* TAURI_CREATE_DEADLINE: the window is told, cancel_launch is sent.
AppDeadline ==
    /\ ui = "waiting"
    /\ ui' = "timedout"
    /\ cancel' = [cancel EXCEPT ![App].at = "due"]
    /\ UNCHANGED <<call, handler, pc, outcome, process, sessions, active, marked, dying,
                   doomed, faults, lost>>

\* The answer came in time: the window gets the session.
Deliver ==
    /\ call.at = "ok"
    /\ ui = "waiting"
    /\ ui' = "done"
    /\ call' = [call EXCEPT !.at = "over"]
    /\ UNCHANGED <<handler, pc, outcome, process, sessions, active, marked, cancel,
                   dying, doomed, faults, lost>>

\* Mutant of LateAnswer: the late answer is dropped.
LateAnswerDropped ==
    /\ call.at = "ok"
    /\ ui = "timedout"
    /\ call' = [call EXCEPT !.at = "over"]
    /\ UNCHANGED <<ui, handler, pc, outcome, process, sessions, active, marked, cancel,
                   dying, doomed, faults, lost>>

\* The answer came too late: the session is killed.
LateAnswer ==
    /\ call.at = "ok"
    /\ ui = "timedout"
    /\ call' = [call EXCEPT !.at = "over"]
    /\ Take({call.a})
    /\ UNCHANGED <<ui, handler, pc, outcome, process, active, marked, cancel,
                   faults, lost>>

----------------------------------------------------------------------------
(* The handler of the daemon.                                              *)

Receives(a, result) ==
    call' = IF call.at = "waiting" /\ call.a = a THEN [call EXCEPT !.at = result] ELSE call

Answer(a) ==
    /\ handler[a] = "waiting"
    /\ pc[a] = "ended"
    /\ handler' = [handler EXCEPT ![a] = "closed"]
    /\ Receives(a, IF outcome[a] = "ok" THEN "ok" ELSE "refused")
    /\ UNCHANGED <<ui, pc, outcome, process, sessions, active, marked, cancel, dying,
                   doomed, faults, lost>>

\* DAEMON_CREATE_DEADLINE: publication_cancelled is set, a task waits for the
\* outcome, another calls cancel_launch, and the error goes out.
DaemonDeadline(a) ==
    /\ handler[a] = "waiting"
    /\ handler' = [handler EXCEPT ![a] = "timedout"]
    /\ cancel' = [cancel EXCEPT ![a].at = "due"]
    /\ Receives(a, "refused")
    /\ UNCHANGED <<ui, pc, outcome, process, sessions, active, marked, dying, doomed,
                   faults, lost>>

\* Mutant of LateOutcome: the late session is only logged.
LateOutcomeIgnored(a) ==
    /\ handler[a] = "timedout"
    /\ pc[a] = "ended"
    /\ handler' = [handler EXCEPT ![a] = "closed"]
    /\ UNCHANGED <<ui, call, pc, outcome, process, sessions, active, marked, cancel,
                   dying, doomed, faults, lost>>

LateOutcome(a) ==
    /\ handler[a] = "timedout"
    /\ pc[a] = "ended"
    /\ handler' = [handler EXCEPT ![a] = "closed"]
    /\ Take(IF outcome[a] = "ok" THEN {a} ELSE {})
    /\ UNCHANGED <<ui, call, pc, outcome, process, active, marked, cancel,
                   faults, lost>>

----------------------------------------------------------------------------
(* cancel_launch.                                                          *)

\* Mutant of CancelLook: the mark is left only if a session was found.
CancelLookLiveOnly(k) ==
    /\ cancel[k].at = "due"
    /\ doomed' = doomed \cup sessions \cup {a \in Attempt : InFlight(a)}
    /\ marked' = FALSE
    /\ cancel' = [cancel EXCEPT ![k] = [at |-> "found", found |-> sessions]]
    /\ UNCHANGED <<ui, call, handler, pc, outcome, process, sessions, active, dying,
                   faults, lost>>

\* Under both locks: the mark is set, and taken back if a session is there.
CancelLook(k) ==
    /\ cancel[k].at = "due"
    /\ doomed' = doomed \cup sessions \cup {a \in Attempt : InFlight(a)}
    /\ marked' = (sessions = {})
    /\ cancel' = [cancel EXCEPT ![k] = [at |-> "found", found |-> sessions]]
    /\ UNCHANGED <<ui, call, handler, pc, outcome, process, sessions, active, dying,
                   faults, lost>>

CancelKill(k) ==
    /\ cancel[k].at = "found"
    /\ cancel' = [cancel EXCEPT ![k] = [at |-> "idle", found |-> {}]]
    /\ Take(cancel[k].found)
    /\ UNCHANGED <<ui, call, handler, pc, outcome, process, active, marked,
                   faults, lost>>

\* The cancellation of another launch drops the marks older than 300 s.  An
\* attempt that was under way when the mark was set is past the deadline of
\* its handler by then.
Purge ==
    /\ marked
    /\ \A a \in doomed : InFlight(a) => handler[a] = "timedout"
    /\ marked' = FALSE
    /\ doomed' = {a \in doomed : ~InFlight(a)}
    /\ UNCHANGED <<ui, call, handler, pc, outcome, process, sessions, active, cancel,
                   dying, faults, lost>>

\* The rest of kill_with_reason: the flags, then the process.
FinishKill(a) ==
    /\ a \in dying
    /\ dying' = dying \ {a}
    /\ process' = [process EXCEPT ![a] = "dead"]
    /\ UNCHANGED <<ui, call, handler, pc, outcome, sessions, active, marked, cancel,
                   doomed, faults, lost>>

----------------------------------------------------------------------------
(* The thread that creates the session.                                    *)

\* Mutant of Reserve: only launches under way count as duplicates.
ReserveActiveOnly(a) ==
    /\ pc[a] = "reserve"
    /\ IF active
       THEN /\ pc' = [pc EXCEPT ![a] = "ended"]
            /\ outcome' = [outcome EXCEPT ![a] = "error"]
            /\ UNCHANGED active
       ELSE /\ pc' = [pc EXCEPT ![a] = "begin"]
            /\ active' = TRUE
            /\ UNCHANGED outcome
    /\ UNCHANGED <<ui, call, handler, process, sessions, marked, cancel, dying, doomed,
                   faults, lost>>

\* reserve_launch, under both locks: a launch id under way or in use is refused.
Reserve(a) ==
    /\ pc[a] = "reserve"
    /\ IF active \/ sessions # {}
       THEN /\ pc' = [pc EXCEPT ![a] = "ended"]
            /\ outcome' = [outcome EXCEPT ![a] = "error"]
            /\ UNCHANGED active
       ELSE /\ pc' = [pc EXCEPT ![a] = "begin"]
            /\ active' = TRUE
            /\ UNCHANGED outcome
    /\ UNCHANGED <<ui, call, handler, process, sessions, marked, cancel, dying, doomed,
                   faults, lost>>

\* ensure_launch_active consumes the mark.  At "begin" and "prepared" nothing
\* has been started yet.
EnsureActive(a, from, to) ==
    /\ pc[a] = from
    /\ marked' = FALSE
    /\ IF marked THEN Return(a, "error")
       ELSE pc' = [pc EXCEPT ![a] = to] /\ UNCHANGED <<outcome, active, doomed>>

LaunchBegin(a) ==
    /\ EnsureActive(a, "begin", "prepared")
    /\ UNCHANGED <<ui, call, handler, process, sessions, cancel, dying, faults,
                   lost>>

\* "launch.pty.begin", and the PTY is spawned.
PtyBegin(a) ==
    /\ EnsureActive(a, "prepared", "spawned")
    /\ process' = IF marked THEN process ELSE [process EXCEPT ![a] = "running"]
    /\ UNCHANGED <<ui, call, handler, sessions, cancel, dying, faults, lost>>

\* Mutant of PtySpawned: the error is returned before the process is killed.
PtySpawnedNoKill(a) ==
    /\ EnsureActive(a, "spawned", "guarded")
    /\ UNCHANGED <<ui, call, handler, process, sessions, cancel, dying, faults,
                   lost>>

\* "launch.pty.spawned": from here on LaunchThreadGuard owns the process.
PtySpawned(a) ==
    /\ EnsureActive(a, "spawned", "guarded")
    /\ process' = IF marked THEN [process EXCEPT ![a] = "dead"] ELSE process
    /\ UNCHANGED <<ui, call, handler, sessions, cancel, dying, faults, lost>>

\* The launch fails before there is a process: what it needs cannot be prepared.
PrepareFails(a) ==
    /\ pc[a] = "prepared"
    /\ Fault
    /\ Return(a, "error")
    /\ UNCHANGED <<ui, call, handler, process, sessions, marked, cancel, dying,
                   lost>>

\* The publisher of the daemon, under its visibility lock.
Publish(a) ==
    /\ pc[a] = "guarded"
    /\ pc' = [pc EXCEPT ![a] = IF handler[a] = "timedout"
                               THEN "drop" ELSE "register"]
    /\ UNCHANGED <<ui, call, handler, outcome, process, sessions, active, marked, cancel,
                   dying, doomed, faults, lost>>

\* The closure register, under the locks that cancel_launch takes.
Register(a) ==
    /\ pc[a] = "register"
    /\ marked' = FALSE
    /\ IF marked
       THEN /\ process' = [process EXCEPT ![a] = "dead"]
            /\ pc' = [pc EXCEPT ![a] = "drop"]
            /\ UNCHANGED sessions
       ELSE /\ sessions' = sessions \cup {a}
            /\ pc' = [pc EXCEPT ![a] = "threads"]
            /\ UNCHANGED process
    /\ UNCHANGED <<ui, call, handler, outcome, active, cancel, dying, doomed, faults,
                   lost>>

\* A thread cannot be started: the writer before, the others after publication.
ThreadFails(a) ==
    /\ pc[a] \in {"guarded", "threads"}
    /\ Fault
    /\ pc' = [pc EXCEPT ![a] = "drop"]
    /\ UNCHANGED <<ui, call, handler, outcome, process, sessions, active, marked, cancel,
                   dying, doomed, lost>>

\* LaunchThreadGuard::drop: out of the map first, then killed and reaped.
GuardDrop(a) ==
    /\ pc[a] = "drop"
    /\ sessions' = sessions \ {a}
    /\ pc' = [pc EXCEPT ![a] = "reap"]
    /\ UNCHANGED <<ui, call, handler, outcome, process, active, marked, cancel, dying,
                   doomed, faults, lost>>

GuardReap(a) ==
    /\ pc[a] = "reap"
    /\ process' = [process EXCEPT ![a] = "dead"]
    /\ Return(a, "error")
    /\ UNCHANGED <<ui, call, handler, sessions, marked, cancel, dying, faults,
                   lost>>

\* Batch, reader and wait threads run: the guard is disarmed.
Ready(a) ==
    /\ pc[a] = "threads"
    /\ Return(a, "ok")
    /\ UNCHANGED <<ui, call, handler, process, sessions, marked, cancel, dying,
                   faults, lost>>

\* The process ends by itself, while it is launched only as one of the faults;
\* the wait thread removes the session.
Exit(a) ==
    /\ Running(a)
    /\ IF pc[a] = "ended" THEN UNCHANGED faults ELSE Fault
    /\ process' = [process EXCEPT ![a] = "dead"]
    /\ UNCHANGED <<ui, call, handler, pc, outcome, sessions, active, marked, cancel,
                   dying, doomed, lost>>

Waited(a) ==
    /\ a \in sessions
    /\ outcome[a] = "ok"
    /\ process[a] = "dead"
    /\ sessions' = sessions \ {a}
    /\ doomed' = doomed \ {a}
    /\ UNCHANGED <<ui, call, handler, pc, outcome, process, active, marked, cancel, dying,
                   faults, lost>>

----------------------------------------------------------------------------
Creation(a) ==
    \/ Reserve(a) \/ LaunchBegin(a) \/ PtyBegin(a) \/ PtySpawned(a) \/ Publish(a)
    \/ Register(a) \/ GuardDrop(a) \/ GuardReap(a) \/ Ready(a)

Application == Retry \/ GiveUp \/ Deliver \/ LateAnswer

Cancellation(k) == CancelLook(k) \/ CancelKill(k)

Next ==
    \/ Launch \/ AppDeadline \/ AnswerLost \/ Purge \/ Application
    \/ \E k \in Canceller : Cancellation(k)
    \/ \E a \in Attempt : \/ Creation(a) \/ PrepareFails(a) \/ ThreadFails(a)
                          \/ Answer(a) \/ DaemonDeadline(a) \/ LateOutcome(a)
                          \/ FinishKill(a) \/ Exit(a) \/ Waited(a)

Spec == Init /\ [][Next]_vars

\* Threads and tasks that can go on do; deadlines and faults need not come.
FairSpec ==
    /\ Spec
    /\ WF_vars(Application)
    /\ \A k \in Canceller : WF_vars(Cancellation(k))
    /\ \A a \in Attempt : /\ WF_vars(Creation(a)) /\ WF_vars(Answer(a))
                          /\ WF_vars(LateOutcome(a)) /\ WF_vars(FinishKill(a))

----------------------------------------------------------------------------
(* Properties.                                                             *)

\* Typing; the reservation is held exactly while one thread is under way.
TypeOK ==
    /\ ui \in {"idle", "waiting", "timedout", "done"}
    /\ call \in [at : {"idle", "waiting", "lost", "refused", "ok", "over"}, a : Attempt]
    /\ handler \in [Attempt -> {"none", "waiting", "timedout", "closed"}]
    /\ pc \in [Attempt -> {"unsent", "reserve", "ended"} \cup UnderWay]
    /\ outcome \in [Attempt -> {"none", "ok", "error"}]
    /\ process \in [Attempt -> {"none", "running", "dead"}]
    /\ sessions \subseteq Attempt
    /\ marked \in BOOLEAN
    /\ cancel \in [Canceller -> [at : {"idle", "due", "found"},
                              found : SUBSET Attempt]]
    /\ dying \subseteq Attempt
    /\ doomed \subseteq Attempt
    /\ lost \subseteq Attempt
    /\ faults \in 0..MaxFaults
    /\ active = (\E a \in Attempt : InFlight(a))

\* Of one launch id at most one attempt is under way or registered: a retry
\* whose first request is still alive in the daemon does not start a second
\* agent in the same project.
OneSessionPerLaunch ==
    \A a, b \in Attempt :
        (InFlight(a) \/ a \in sessions) /\ (InFlight(b) \/ b \in sessions) => a = b

\* A process that runs is in the map, or its thread is still at it, or a kill
\* has it in hand: whatever fails or is cancelled, none is left to itself.
NoProcessLeaks ==
    \A a \in Attempt : Running(a) => a \in sessions \/ a \in dying \/ InFlight(a)

\* An attempt that was under way or registered when a cancellation looked is
\* in the map only while that cancellation, or one after it, is about to
\* kill it: the mark and the map are read and written under the same locks.
CancelledIsNotKept ==
    \A a \in doomed \cap sessions :
        pc[a] # "drop" => \E k \in Canceller : a \in cancel[k].found

\* Given up is gone: a request that the daemon answered with LAUNCH_TIMEOUT leaves
\* no process, and neither does a launch that the window has given up, retried or
\* not; only an attempt whose answer was lost may outlive it.
GivenUpLaunchGoes ==
    /\ \A a \in Attempt : handler[a] = "timedout" ~> (pc[a] = "ended" /\ ~Running(a))
    /\ ui = "timedout" ~>
           /\ call.at = "over"
           /\ \A a \in Attempt \ lost : pc[a] \in {"unsent", "ended"} /\ ~Running(a)
=============================================================================
