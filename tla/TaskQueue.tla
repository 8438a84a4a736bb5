----------------------------- MODULE TaskQueue -----------------------------
(***************************************************************************)
(* The persistent terminal task queue: the rows of the SQLite tables       *)
(* task_queue_runtime, terminal_task_queues and                            *)
(* terminal_task_queue_items, the user commands that edit them, and the    *)
(* one worker that claims the head of a queue, checks the session again    *)
(* and writes the prompt to the terminal.                                  *)
(*                                                                         *)
(* Every repository call is one transaction and so one action.  The        *)
(* dispatcher (check_session) is a chain of such calls: each program point *)
(* of it is a value of worker.pc, and user commands, the global switch and *)
(* a crash of the application interleave between any two of them.          *)
(*                                                                         *)
(* Not in the state: the text of a task, timestamps, error messages, the   *)
(* display revision, and the unattended flag, which no transition of the   *)
(* queue reads.                                                            *)
(***************************************************************************)
EXTENDS Integers, FiniteSets

CONSTANTS
    Sessions,       \* terminal (PTY) sessions that own a queue
    Items,          \* ids that Uuid::new_v4 may hand to a new task
    Tokens,         \* dispatch tokens; a claim takes one nobody holds
    None,           \* SQL NULL: no session, no item, no token
    MaxItems,       \* active items a queue may hold (100 in the code)
    MaxGeneration,  \* bound: switch toggles and restarts explored
    MaxRetries,     \* bound: explicit retries explored per item
    GatewayErrors   \* TRUE when a readiness query may fail with an error

ASSUME MaxItemsAssumption == MaxItems \in Nat \ {0}
ASSUME NoneAssumption == None \notin Tokens \cup Items \cup Sessions
ASSUME GatewayErrorsAssumption == GatewayErrors \in BOOLEAN

VARIABLES
    enabled,     \* task_queue_runtime.enabled
    generation,  \* task_queue_runtime.dispatch_generation
    queue,       \* terminal_task_queues, one row per session
    row,         \* terminal_task_queue_items: a function on the ids in the table
    worker,      \* program point and locals of check_session
    sent,        \* history: how often the text of an item reached the terminal
    retries,     \* history: how often the user asked to retry an item
    ahead,       \* history: the items queued before this one when it was added
    revoked      \* history: the switch moved under the check that is running

vars == <<enabled, generation, queue, row, worker, sent, retries, ahead, revoked>>

ItemStates == {"queued", "dispatching", "failed", "delivery_unknown"}

\* What a readiness query answers (TaskQueueReadiness).
Readiness == {"ready", "global_disabled", "confirming_idle", "waiting_input",
              "automatic_write_unavailable", "session_error", "session_exited"}

\* What the gateway can answer: global_disabled comes from runtime_blocker only.
GatewayReadiness == Readiness \ {"global_disabled"}

\* runtime_state and reason of a queue as one value: the reason fixes the state.
Statuses == {"running", "dispatching", "send_failed", "delivery_unknown"}
              \cup (Readiness \ {"ready", "global_disabled"})

ProgramPoints ==
    {"down", "starting", "idle", "snapshot", "readiness", "claim", "recheck",
     "confirm", "last_check", "submit", "write", "complete", "requeue",
     "persist", "fail", "unknown"}

\* The points at which check_session holds a claim it has not resolved.
Holding == {"recheck", "confirm", "last_check", "submit", "write", "complete",
            "requeue", "fail", "unknown"}

\* The points before the last look at the runtime row (task_queue_dispatcher.rs:172).
BeforeLastCheck == {"snapshot", "readiness", "claim", "recheck", "confirm", "last_check"}

Queue == [paused: BOOLEAN, status: Statuses, token: Tokens \cup {None}]
Row == [session: Sessions, position: Nat, state: ItemStates, token: Tokens \cup {None}]
Worker == [pc: ProgramPoints, session: Sessions \cup {None}, generation: Nat,
           id: Items \cup {None}, token: Tokens \cup {None}, readiness: Readiness]

At(pc) == [pc |-> pc, session |-> None, generation |-> 0,
           id |-> None, token |-> None, readiness |-> "ready"]

Running == worker.pc \notin {"down", "starting"}
-----------------------------------------------------------------------------
(* Reading the item table.                                                 *)

Rows(s) == {i \in DOMAIN row : row[i].session = s}

IsHead(s, i) ==
    /\ i \in Rows(s)
    /\ \A j \in Rows(s) : row[i].position <= row[j].position

\* COALESCE(MAX(position) + 1, 0)
IsEndPosition(s, p) ==
    \/ Rows(s) = {} /\ p = 0
    \/ \E last \in Rows(s) :
          /\ p = row[last].position + 1
          /\ \A j \in Rows(s) : row[j].position <= row[last].position

\* Slip: every other row of the session moves down, not only the later ones.
WithoutShiftingAll(i) ==
    [j \in DOMAIN row \ {i} |->
        IF row[j].session = row[i].session THEN [row[j] EXCEPT !.position = @ - 1] ELSE row[j]]

\* Delete one row and move the later rows of its session down by one.
Without(i) ==
    [j \in DOMAIN row \ {i} |->
        IF row[j].session = row[i].session /\ row[j].position > row[i].position
        THEN [row[j] EXCEPT !.position = @ - 1]
        ELSE row[j]]

\* UPDATE terminal_task_queue_items SET state, dispatch_token
Marked(i, state, t) == [row EXCEPT ![i].state = state, ![i].token = t]

\* UPDATE terminal_task_queues SET runtime_state, reason, active_dispatch_token
Labelled(s, status, t) == [queue EXCEPT ![s].status = status, ![s].token = t]

\* The WHERE clause complete_claim and finish_claim share.
ClaimIsCurrent(s, i, t) ==
    /\ i \in Rows(s)
    /\ row[i].state = "dispatching"
    /\ row[i].token = t
    /\ queue[s].token = t
-----------------------------------------------------------------------------
(* Commands of the user, one transaction each.                             *)

AddItem(s, i) ==
    /\ Running
    /\ i \notin DOMAIN ahead
    /\ Cardinality(Rows(s)) < MaxItems
    /\ \E p \in {0} \cup {row[j].position + 1 : j \in Rows(s)} :
          /\ IsEndPosition(s, p)
          /\ row' = [j \in DOMAIN row \cup {i} |->
                        IF j = i
                        THEN [session |-> s, position |-> p, state |-> "queued", token |-> None]
                        ELSE row[j]]
    /\ ahead' = [j \in DOMAIN ahead \cup {i} |-> IF j = i THEN Rows(s) ELSE ahead[j]]
    /\ UNCHANGED <<enabled, generation, queue, worker, sent, retries, revoked>>

\* Slip: an item can be deleted while it is being written.
DeleteItemInAnyState(i) ==
    /\ Running
    /\ i \in DOMAIN row
    /\ row' = Without(i)
    /\ UNCHANGED <<enabled, generation, queue, worker, sent, retries, ahead, revoked>>

DeleteItem(i) ==
    /\ Running
    /\ i \in DOMAIN row
    /\ row[i].state # "dispatching"
    /\ row' = Without(i)
    /\ UNCHANGED <<enabled, generation, queue, worker, sent, retries, ahead, revoked>>

ClearQueue(s) ==
    /\ Running
    /\ row' = [j \in {k \in DOMAIN row : k \notin Rows(s) \/ row[k].state = "dispatching"}
                  |-> row[j]]
    /\ queue' = IF queue[s].token = None
                THEN [queue EXCEPT ![s].status = "running"]
                ELSE queue
    /\ UNCHANGED <<enabled, generation, worker, sent, retries, ahead, revoked>>

UpdateControl(s, paused) ==
    /\ Running
    /\ queue' = [queue EXCEPT ![s].paused = paused]
    /\ UNCHANGED <<enabled, generation, row, worker, sent, retries, ahead, revoked>>

\* Slip: a retry is accepted in every state.
RetryItemInAnyState(i) ==
    /\ Running
    /\ i \in DOMAIN row
    /\ retries[i] < MaxRetries
    /\ row' = Marked(i, "queued", None)
    /\ queue' = Labelled(row[i].session, "running", None)
    /\ retries' = [retries EXCEPT ![i] = @ + 1]
    /\ UNCHANGED <<enabled, generation, worker, sent, ahead, revoked>>

\* The queue row is reset without a look at its token: that is sound only
\* because a failed or unknown item is the head and no claim exists beside it.
RetryItem(i) ==
    /\ Running
    /\ i \in DOMAIN row
    /\ row[i].state \in {"failed", "delivery_unknown"}
    /\ retries[i] < MaxRetries
    /\ row' = Marked(i, "queued", None)
    /\ queue' = Labelled(row[i].session, "running", None)
    /\ retries' = [retries EXCEPT ![i] = @ + 1]
    /\ UNCHANGED <<enabled, generation, worker, sent, ahead, revoked>>

SetGlobalEnabled(e) ==
    /\ Running
    /\ generation < MaxGeneration
    /\ enabled' = e
    /\ generation' = generation + 1
    /\ revoked' = (revoked \/ worker.pc \in BeforeLastCheck)
    /\ UNCHANGED <<queue, row, worker, sent, retries, ahead>>
-----------------------------------------------------------------------------
(* The application stops at any point and starts again.                    *)

Crash ==
    /\ worker.pc # "down"
    /\ generation < MaxGeneration
    /\ worker' = At("down")
    /\ revoked' = FALSE
    /\ UNCHANGED <<enabled, generation, queue, row, sent, retries, ahead>>

\* Start-up writes the switch from the settings file: a new generation.
StartRuntime ==
    /\ worker.pc = "down"
    /\ generation' = generation + 1
    /\ enabled' \in BOOLEAN
    /\ worker' = At("starting")
    /\ UNCHANGED <<queue, row, sent, retries, ahead, revoked>>

\* recover_inflight: what was being written when the application died is
\* unknown, never queued again by itself.
StartWorker ==
    /\ worker.pc = "starting"
    /\ queue' = [s \in Sessions |->
                    IF \/ queue[s].token # None
                       \/ \E i \in Rows(s) : row[i].state = "dispatching"
                    THEN [queue[s] EXCEPT !.status = "delivery_unknown", !.token = None]
                    ELSE queue[s]]
    /\ row' = [i \in DOMAIN row |->
                    IF row[i].state = "dispatching"
                    THEN [row[i] EXCEPT !.state = "delivery_unknown", !.token = None]
                    ELSE row[i]]
    /\ worker' = At("idle")
    /\ UNCHANGED <<enabled, generation, sent, retries, ahead, revoked>>
-----------------------------------------------------------------------------
(* check_session, step by step.                                            *)

Goto(pc) == worker' = [worker EXCEPT !.pc = pc]

\* Leaving check_session: the locals, and what happened under them, are gone.
Return ==
    /\ worker' = At("idle")
    /\ revoked' = FALSE

Begin(s) ==
    /\ worker.pc = "idle"
    /\ enabled
    /\ worker' = [At("snapshot") EXCEPT !.session = s, !.generation = generation]
    /\ UNCHANGED <<enabled, generation, queue, row, sent, retries, ahead, revoked>>

ReadSnapshot ==
    /\ worker.pc = "snapshot"
    /\ \/ /\ ~queue[worker.session].paused
          /\ \E i \in Rows(worker.session) :
                IsHead(worker.session, i) /\ row[i].state = "queued"
          /\ Goto("readiness")
          /\ UNCHANGED revoked
       \/ /\ \/ queue[worker.session].paused
             \/ \A i \in Rows(worker.session) :
                   IsHead(worker.session, i) => row[i].state # "queued"
          /\ Return
    /\ UNCHANGED <<enabled, generation, queue, row, sent, retries, ahead>>

\* gateway.readiness before the claim: an answer, or an error that ends the check.
CheckReadiness ==
    /\ worker.pc = "readiness"
    /\ \/ Goto("claim") /\ UNCHANGED revoked
       \/ \E r \in GatewayReadiness \ {"ready"} :
             /\ worker' = [worker EXCEPT !.pc = "persist", !.readiness = r]
             /\ UNCHANGED revoked
       \/ GatewayErrors /\ Return
    /\ UNCHANGED <<enabled, generation, queue, row, sent, retries, ahead>>

\* Slip: any queued item is claimed, not the head.
MayClaimAnyQueued(s, i) ==
    /\ enabled
    /\ generation = worker.generation
    /\ ~queue[s].paused
    /\ queue[s].token = None
    /\ i \in Rows(s)
    /\ row[i].state = "queued"

\* Slip: only a queue that shows itself running is claimed from.
MayClaimWhileRunning(s, i) ==
    /\ enabled
    /\ generation = worker.generation
    /\ ~queue[s].paused
    /\ queue[s].token = None
    /\ queue[s].status = "running"
    /\ IsHead(s, i)
    /\ row[i].state = "queued"

MayClaim(s, i) ==
    /\ enabled
    /\ generation = worker.generation
    /\ ~queue[s].paused
    /\ queue[s].token = None
    /\ IsHead(s, i)
    /\ row[i].state = "queued"

Fresh(t) ==
    /\ \A s \in Sessions : queue[s].token # t
    /\ \A i \in DOMAIN row : row[i].token # t

ClaimNext ==
    /\ worker.pc = "claim"
    /\ \/ \E i \in Rows(worker.session), t \in Tokens :
             /\ MayClaim(worker.session, i)
             /\ Fresh(t)
             /\ row' = Marked(i, "dispatching", t)
             /\ queue' = Labelled(worker.session, "dispatching", t)
             /\ worker' = [worker EXCEPT !.pc = "recheck", !.id = i, !.token = t]
             /\ UNCHANGED revoked
       \/ /\ \A i \in Rows(worker.session) : ~MayClaim(worker.session, i)
          /\ Return
          /\ UNCHANGED <<queue, row>>
    /\ UNCHANGED <<enabled, generation, sent, retries, ahead>>

\* Slip: the switch is read, the generation is not.
CheckSwitchOnly(next) ==
    /\ \/ enabled /\ Goto(next)
       \/ ~enabled /\ worker' = [worker EXCEPT !.pc = "requeue", !.readiness = "global_disabled"]
    /\ UNCHANGED <<enabled, generation, queue, row, sent, retries, ahead, revoked>>

\* runtime_blocker: go on only under the switch and the generation of the claim.
CheckRuntime(next) ==
    /\ \/ enabled /\ generation = worker.generation /\ Goto(next)
       \/ ~enabled /\ worker' = [worker EXCEPT !.pc = "requeue", !.readiness = "global_disabled"]
       \/ /\ enabled /\ generation # worker.generation
          /\ worker' = [worker EXCEPT !.pc = "requeue", !.readiness = "confirming_idle"]
    /\ UNCHANGED <<enabled, generation, queue, row, sent, retries, ahead, revoked>>

Recheck == worker.pc = "recheck" /\ CheckRuntime("confirm")

\* The second readiness query and effective_prompt.  An error of the query
\* leaves check_session with the claim still in the tables.
Confirm ==
    /\ worker.pc = "confirm"
    /\ \/ Goto("last_check") /\ UNCHANGED revoked
       \/ Goto("fail") /\ UNCHANGED revoked
       \/ \E r \in GatewayReadiness \ {"ready"} :
             /\ worker' = [worker EXCEPT !.pc = "requeue", !.readiness = r]
             /\ UNCHANGED revoked
       \/ GatewayErrors /\ Return
    /\ UNCHANGED <<enabled, generation, queue, row, sent, retries, ahead>>

LastCheck == worker.pc = "last_check" /\ CheckRuntime("submit")

\* The readiness query inside gateway.submit_text: its error is definite.
Submit ==
    /\ worker.pc = "submit"
    /\ \/ Goto("write")
       \/ \E r \in GatewayReadiness \ {"ready"} :
             worker' = [worker EXCEPT !.pc = "requeue", !.readiness = r]
       \/ GatewayErrors /\ Goto("fail")
    /\ UNCHANGED <<enabled, generation, queue, row, sent, retries, ahead, revoked>>

\* submit_text_to_session: written, or an error after which nobody knows.
WriteText ==
    /\ worker.pc = "write"
    /\ \/ Goto("complete") /\ sent' = [sent EXCEPT ![worker.id] = @ + 1]
       \/ /\ Goto("unknown")
          /\ \E n \in {0, 1} : sent' = [sent EXCEPT ![worker.id] = @ + n]
    /\ UNCHANGED <<enabled, generation, queue, row, retries, ahead, revoked>>

CompleteClaim ==
    /\ worker.pc = "complete"
    /\ \/ /\ ClaimIsCurrent(worker.session, worker.id, worker.token)
          /\ row' = Without(worker.id)
          /\ queue' = Labelled(worker.session, "running", None)
       \/ /\ ~ClaimIsCurrent(worker.session, worker.id, worker.token)
          /\ UNCHANGED <<queue, row>>
    /\ Return
    /\ UNCHANGED <<enabled, generation, sent, retries, ahead>>

\* Slip: every finisher shows the queue running again.
StatusAlwaysRunning(state) == "running"

\* The status a queue shows for the state its claimed item ends in.
StatusOfOutcome(state) ==
    CASE state = "queued" -> "running"
      [] state = "failed" -> "send_failed"
      [] state = "delivery_unknown" -> "delivery_unknown"

FinishClaim(state) ==
    /\ ClaimIsCurrent(worker.session, worker.id, worker.token)
    /\ row' = Marked(worker.id, state, None)
    /\ queue' = Labelled(worker.session, StatusOfOutcome(state), None)

\* finish_claim changed no row: QUEUE_CLAIM_CONFLICT ends the check.
ClaimConflict ==
    /\ ~ClaimIsCurrent(worker.session, worker.id, worker.token)
    /\ Return
    /\ UNCHANGED <<queue, row>>

Requeue ==
    /\ worker.pc = "requeue"
    /\ \/ FinishClaim("queued") /\ Goto("persist") /\ UNCHANGED revoked
       \/ ClaimConflict
    /\ UNCHANGED <<enabled, generation, sent, retries, ahead>>

\* persist_readiness and set_runtime_status, which leave a claimed queue alone.
PersistReadiness ==
    /\ worker.pc = "persist"
    /\ queue' = IF queue[worker.session].token = None /\ worker.readiness \in Statuses
                THEN [queue EXCEPT ![worker.session].status = worker.readiness]
                ELSE queue
    /\ Return
    /\ UNCHANGED <<enabled, generation, row, sent, retries, ahead>>

FailClaim ==
    /\ worker.pc = "fail"
    /\ (FinishClaim("failed") /\ Return) \/ ClaimConflict
    /\ UNCHANGED <<enabled, generation, sent, retries, ahead>>

\* Slip: an unknown delivery goes back to the queue like a refused one.
RequeueDeliveryUnknown ==
    /\ worker.pc = "unknown"
    /\ (FinishClaim("queued") /\ Return) \/ ClaimConflict
    /\ UNCHANGED <<enabled, generation, sent, retries, ahead>>

MarkDeliveryUnknown ==
    /\ worker.pc = "unknown"
    /\ (FinishClaim("delivery_unknown") /\ Return) \/ ClaimConflict
    /\ UNCHANGED <<enabled, generation, sent, retries, ahead>>
-----------------------------------------------------------------------------
Init ==
    /\ enabled = TRUE
    /\ generation = 0
    /\ queue = [s \in Sessions |-> [paused |-> FALSE, status |-> "running", token |-> None]]
    /\ row = [i \in {} |-> None]
    /\ worker = At("down")
    /\ sent = [i \in Items |-> 0]
    /\ retries = [i \in Items |-> 0]
    /\ ahead = [i \in {} |-> {}]
    /\ revoked = FALSE

UserCommand ==
    \/ \E s \in Sessions, i \in Items : AddItem(s, i)
    \/ \E i \in Items : DeleteItem(i) \/ RetryItem(i)
    \/ \E s \in Sessions : ClearQueue(s)
    \/ \E s \in Sessions, paused \in BOOLEAN : UpdateControl(s, paused)
    \/ \E e \in BOOLEAN : SetGlobalEnabled(e)

Startup == StartRuntime \/ StartWorker

\* One step of a check that is already running.
Step ==
    \/ ReadSnapshot \/ CheckReadiness \/ ClaimNext \/ Recheck \/ Confirm
    \/ LastCheck \/ Submit \/ WriteText \/ CompleteClaim \/ Requeue
    \/ PersistReadiness \/ FailClaim \/ MarkDeliveryUnknown

Next ==
    \/ UserCommand
    \/ Crash
    \/ Startup
    \/ \E s \in Sessions : Begin(s)
    \/ Step

Spec == Init /\ [][Next]_vars
-----------------------------------------------------------------------------
(* Scheduling: the worker loop runs, and every active session is visited   *)
(* again (level scan with a rotating cursor), however often the worker is  *)
(* busy elsewhere when a session's turn comes.                             *)

Fairness ==
    /\ WF_vars(Startup)
    /\ WF_vars(Step)
    /\ \A s \in Sessions : SF_vars(Begin(s))

FairSpec == Spec /\ Fairness

\* The environment: a session that becomes idle again and again is at some time
\* found ready at each of the three queries.
ReadyFairSpec ==
    /\ FairSpec
    /\ \A s \in Sessions :
         /\ SF_vars(worker.session = s /\ CheckReadiness /\ worker'.pc = "claim")
         /\ SF_vars(worker.session = s /\ Confirm /\ worker'.pc = "last_check")
         /\ SF_vars(worker.session = s /\ Submit /\ worker'.pc = "write")
-----------------------------------------------------------------------------
(* Properties.                                                             *)

\* Every variable keeps its type: the schema's CHECK constraints and the
\* program points of check_session.
TypeOK ==
    /\ enabled \in BOOLEAN
    /\ generation \in Nat
    /\ queue \in [Sessions -> Queue]
    /\ DOMAIN row \subseteq Items
    /\ \A i \in DOMAIN row : row[i] \in Row
    /\ worker \in Worker
    /\ sent \in [Items -> Nat]
    /\ retries \in [Items -> Nat]
    /\ DOMAIN ahead \subseteq Items
    /\ \A i \in DOMAIN ahead : ahead[i] \subseteq Items
    /\ revoked \in BOOLEAN

\* The claim check_session believes it holds is the one in the tables, whatever
\* commands ran since: none of its QUEUE_CLAIM_CONFLICT errors can be reached.
ClaimHeld ==
    worker.pc \in Holding =>
        ClaimIsCurrent(worker.session, worker.id, worker.token)

\* A queue has a token exactly while one of its items is dispatching, that item
\* has the same token, and it is the head: claim_next, the finishers, clear_queue,
\* retry_item and recover_inflight each write only one side of the pair.
OneClaimPerQueue ==
    /\ \A i \in DOMAIN row :
          IF row[i].state = "dispatching"
          THEN row[i].token # None /\ queue[row[i].session].token = row[i].token
          ELSE row[i].token = None
    /\ \A s \in Sessions : queue[s].token # None =>
          \E i \in Rows(s) : row[i].state = "dispatching" /\ IsHead(s, i)

\* Only the head of a queue is ever anything but queued; what follows a failed
\* or unknown item waits for the user.  The unguarded reset in retry_item rests on it.
OnlyHeadMoves ==
    \A i \in DOMAIN row : row[i].state # "queued" => IsHead(row[i].session, i)

\* UNIQUE(session_id, position).
UniquePositions ==
    \A i, j \in DOMAIN row :
        row[i].session = row[j].session /\ row[i].position = row[j].position => i = j

\* A prompt reaches the terminal at most once for each time the user asked for it
\* (the add and every explicit retry), across crashes, requeues and lost answers.
AtMostOncePerRequest ==
    /\ \A i \in Items : sent[i] <= 1 + retries[i]
    /\ \A i \in DOMAIN row : row[i].state = "queued" => sent[i] <= retries[i]

\* A move of the global switch that lands before the last look at the runtime row
\* stops this prompt, even when the switch is turned off and on again meanwhile.
RevokedNeverWritten ==
    worker.pc \in {"submit", "write", "complete", "unknown"} => ~revoked

\* A queue never shows itself running while its head needs the user: the status
\* written by an earlier check cannot hide a failed, unknown or claimed head.
StatusTellsHead ==
    \A i \in DOMAIN row :
        row[i].state # "queued" =>
            queue[row[i].session].status =
                IF row[i].state = "failed" THEN "send_failed" ELSE row[i].state

\* The promise of the queue: rows, claims and the worker implement AtMostOnceQueue.
\* A task may be written while it is queued, or claimed and not yet written.
Promise == INSTANCE AtMostOnceQueue WITH
    home <- [i \in DOMAIN row |-> row[i].session],
    older <- ahead,
    armed <- {i \in DOMAIN row :
                 \/ row[i].state = "queued"
                 \/ worker.pc \in Holding \ {"complete", "fail", "unknown"} /\ worker.id = i},
    asked <- retries,
    written <- sent

ImplementsPromise == Promise!Spec

\* Nothing to do for this item until the user acts: it left the queue, the queue is
\* stopped, or an item that needs a decision is at the head.
Blocked(i) ==
    \/ i \notin DOMAIN row
    \/ ~enabled
    \/ queue[row[i].session].paused
    \/ \E j \in Rows(row[i].session) : row[j].state \in {"failed", "delivery_unknown"}

\* When readiness queries find the session idle again and again, every queued item
\* is written or waits for the user: no order of requeues starves it.
QueueDrains == \A i \in Items : i \in DOMAIN row ~> Blocked(i)
=============================================================================
