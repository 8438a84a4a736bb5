---------------------------- MODULE SessionState ----------------------------
(***************************************************************************)
(* The status of one session as the hooks of its agent tell it.  A hook is *)
(* a process of its own that runs beside the agent: it posts its event     *)
(* over HTTP and then has it written into the terminal as an OSC mark, so  *)
(* that every event comes twice, in any order (dispatch.rs).               *)
(* SessionStateMachine (session_state_machine.rs) drops the second copy,   *)
(* moves the status on under its lock and, after the lock, tells the       *)
(* listener that writes TerminalSession.status (apply_hook_status).  The   *)
(* queue worker submits the next prompt when the machine says Idle.        *)
(*                                                                         *)
(* Times are not counted: the 2 s of the de-duplication window and the 6 s *)
(* of the fallback pass in actions of their own.                           *)
(***************************************************************************)
EXTENDS Naturals, Sequences, FiniteSets

CONSTANTS
    MaxEvents,     \* bound: events of the agent
    MaxFaults,     \* bound: posts that fail or outlive their hook
    DedupMemory,   \* DEDUP_MEMORY
    Skew           \* events of which copies may be on their way at once

ASSUME BoundsAssumption == MaxEvents \in Nat /\ MaxFaults \in Nat

\* What the code counts on: the two copies of an event come close together.
\* Between them come at most the Skew - 1 events before and after it.
ASSUME MemoryAssumption ==
    /\ DedupMemory \in Nat /\ Skew \in Nat \ {0}
    /\ 2 * (Skew - 1) < DedupMemory

Event == 1..MaxEvents
Kind == {"prompt", "toolBefore", "toolAfter", "end"}
Status == {"Initializing", "Thinking", "ToolRunning", "Idle"}
Busy == {"Thinking", "ToolRunning"}

VARIABLES
    agent,      \* what the agent does: "idle", "busy" or "tool"
    kind,       \* kind[n]: the kind of event n, for the events so far
    hooks,      \* events whose hook process still runs
    http,       \* http[n]: the copy over HTTP: "none", "posted", "writing", "done"
    stream,     \* the OSC copies in the output of the terminal, oldest first
    memory,     \* last_applied_events inside the window: [kind, channel]
    machine,    \* entry.status
    observed,   \* entry.automatic_submit_observed
    stale,      \* last_hook_event_at is older than the fallback time
    turnSeq,    \* entry.turn_seq
    writes,     \* writes[t]: the status thread t goes on to write, or "nothing"
    status,     \* TerminalSession.status
    worker,     \* the queue worker: "ready" or "sent" (submitted, not yet marked)
    submits,    \* history: submits on the strength of an observed Idle
    rearmed,    \* history: events other than a TurnEnd applied to an Idle session
    faults      \* faults so far

vars == <<agent, kind, hooks, http, stream, memory, machine, observed, stale, turnSeq,
          writes, status, worker, submits, rearmed, faults>>

----------------------------------------------------------------------------
(* Helpers.                                                                *)

Reader == 0                    \* the PTY reader, among the threads that apply
Thread == Event \cup {Reader}

Emitted == 1..Len(kind)
InStream(n) == \E i \in DOMAIN stream : stream[i] = n

\* Events of which a copy is still on its way.
Outstanding ==
    {n \in Emitted : n \in hooks \/ http[n] = "posted" \/ InStream(n)}

\* The copies of event n would come close to those still on their way.
Close(n) == \A o \in Outstanding : n < o + Skew

Ends == {n \in Emitted : kind[n] = "end"}

\* The transition table.
Moved(k) ==
    CASE k = "prompt" -> "Thinking"
      [] k = "toolBefore" -> "ToolRunning"
      [] k = "toolAfter" -> IF machine = "ToolRunning" THEN "Thinking" ELSE machine
      [] k = "end" -> "Idle"

\* The same event over the other channel.
IsCopy(k, ch) == \E i \in DOMAIN memory : memory[i].kind = k /\ memory[i].channel # ch

\* Mutant of Remembered: one slot.
RememberedLast(k, ch) == <<[kind |-> k, channel |-> ch]>>

\* Mutant of Remembered: nothing goes.
RememberedAll(k, ch) == Append(memory, [kind |-> k, channel |-> ch])

\* The oldest goes when the memory is full.
Remembered(k, ch) ==
    Append(IF Len(memory) >= DedupMemory THEN Tail(memory) ELSE memory,
           [kind |-> k, channel |-> ch])

\* Mutant of Apply: every copy counts as an observation.
ApplyObserving(k, ch, t) ==
    /\ observed' = TRUE
    /\ IF IsCopy(k, ch)
       THEN UNCHANGED <<memory, machine, stale, turnSeq, writes, rearmed>>
       ELSE /\ memory' = Remembered(k, ch)
            /\ machine' = Moved(k)
            /\ stale' = FALSE
            /\ turnSeq' = IF k = "end" THEN turnSeq + 1 ELSE turnSeq
            /\ writes' = [writes EXCEPT ![t] =
                            IF Moved(k) # machine \/ k = "toolBefore" THEN Moved(k) ELSE "nothing"]
            /\ rearmed' = IF k # "end" /\ Moved(k) = "Idle" THEN rearmed + 1 ELSE rearmed

\* on_event_with_channel up to the release of the lock, by thread t.
Apply(k, ch, t) ==
    IF IsCopy(k, ch)
    THEN UNCHANGED <<memory, machine, observed, stale, turnSeq, writes, rearmed>>
    ELSE /\ memory' = Remembered(k, ch)
         /\ machine' = Moved(k)
         /\ observed' = TRUE
         /\ stale' = FALSE
         /\ turnSeq' = IF k = "end" THEN turnSeq + 1 ELSE turnSeq
         /\ writes' = [writes EXCEPT ![t] =
                         IF Moved(k) # machine \/ k = "toolBefore" THEN Moved(k) ELSE "nothing"]
         /\ rearmed' = IF k # "end" /\ Moved(k) = "Idle" THEN rearmed + 1 ELSE rearmed

Fault == faults < MaxFaults /\ faults' = faults + 1

----------------------------------------------------------------------------
\* The worker has registered the session: a baseline, nothing observed yet.
Init ==
    /\ agent = "idle"
    /\ kind = <<>>
    /\ hooks = {}
    /\ http = [n \in Event |-> "none"]
    /\ stream = <<>>
    /\ memory = <<>>
    /\ machine = "Initializing"
    /\ observed = FALSE
    /\ stale = FALSE
    /\ turnSeq = 0
    /\ writes = [t \in Thread |-> "nothing"]
    /\ status = "Initializing"
    /\ worker = "ready"
    /\ submits = 0
    /\ rearmed = 0
    /\ faults = 0

----------------------------------------------------------------------------
(* The agent and its hooks.                                                *)

Emit(k) ==
    LET n == Len(kind) + 1 IN
    /\ n \in Event
    /\ Close(n)
    /\ kind' = Append(kind, k)
    /\ hooks' = hooks \cup {n}
    /\ http' = [http EXCEPT ![n] = "posted"]
    /\ UNCHANGED <<stream, memory, machine, observed, stale, turnSeq, writes, status, worker,
                   submits, rearmed, faults>>

\* A prompt reaches the agent, typed by the user or submitted by the worker.
Prompt == agent = "idle" /\ agent' = "busy" /\ Emit("prompt")
ToolBefore == agent = "busy" /\ agent' = "tool" /\ Emit("toolBefore")
ToolAfter == agent = "tool" /\ agent' = "busy" /\ Emit("toolAfter")
TurnEnd == agent = "busy" /\ agent' = "idle" /\ Emit("end")

\* The hook has its answer, or gives up after 750 ms: its mark goes into the
\* output.  The post it gave up may still be served.
HookEnds(n) ==
    /\ n \in hooks
    /\ IF http[n] = "posted" THEN Fault ELSE http[n] = "done" /\ UNCHANGED faults
    /\ hooks' = hooks \ {n}
    /\ stream' = Append(stream, n)
    /\ UNCHANGED <<agent, kind, http, memory, machine, observed, stale, turnSeq, writes,
                   status, worker, submits, rearmed>>

\* The orchestrator cannot be reached.
PostFails(n) ==
    /\ http[n] = "posted"
    /\ Fault
    /\ http' = [http EXCEPT ![n] = "done"]
    /\ UNCHANGED <<agent, kind, hooks, stream, memory, machine, observed, stale, turnSeq,
                   writes, status, worker, submits, rearmed>>

----------------------------------------------------------------------------
(* The state machine and its listener.                                     *)

\* handle_hook_event.
ServePost(n) ==
    /\ http[n] = "posted"
    /\ http' = [http EXCEPT ![n] = "writing"]
    /\ Apply(kind[n], "http", n)
    /\ UNCHANGED <<agent, kind, hooks, stream, status, worker, submits, faults>>

\* apply_osc_signal, on the reader's thread.
ReadMark ==
    /\ stream # <<>>
    /\ writes[Reader] = "nothing"
    /\ stream' = Tail(stream)
    /\ Apply(kind[Head(stream)], "osc", Reader)
    /\ UNCHANGED <<agent, kind, hooks, http, status, worker, submits, faults>>

\* notify_listeners after the lock: apply_hook_status, then the answer.
Written(t) == /\ status' = IF writes[t] = "nothing" THEN status ELSE writes[t]
              /\ writes' = [writes EXCEPT ![t] = "nothing"]

PostWritten(n) ==
    /\ http[n] = "writing"
    /\ http' = [http EXCEPT ![n] = "done"]
    /\ Written(n)
    /\ UNCHANGED <<agent, kind, hooks, stream, memory, machine, observed, stale, turnSeq,
                   worker, submits, rearmed, faults>>

MarkWritten ==
    /\ writes[Reader] # "nothing"
    /\ Written(Reader)
    /\ UNCHANGED <<agent, kind, hooks, http, stream, memory, machine, observed, stale,
                   turnSeq, worker, submits, rearmed, faults>>

----------------------------------------------------------------------------
(* Time.                                                                   *)

\* CROSS_CHANNEL_DEDUP_WINDOW_SECS: nothing remembered counts any more.
WindowPasses ==
    /\ memory # <<>>
    /\ Outstanding = {}
    /\ memory' = <<>>
    /\ UNCHANGED <<agent, kind, hooks, http, stream, machine, observed, stale, turnSeq,
                   writes, status, worker, submits, rearmed, faults>>

\* AUTOMATIC_SUBMIT_FALLBACK_IDLE_MS without an event.
FallbackPasses ==
    /\ ~stale
    /\ Outstanding = {}
    /\ stale' = TRUE
    /\ memory' = <<>>
    /\ UNCHANGED <<agent, kind, hooks, http, stream, machine, observed, turnSeq, writes,
                   status, worker, submits, rearmed, faults>>

----------------------------------------------------------------------------
(* The queue worker.                                                       *)

\* The terminal has been silent for a while: what it has printed was read.
PtyOutputStale == stream = <<>>

\* status_for_automatic_submit of a session with the PTY guard, by case.
ObservedIdle == observed /\ machine = "Idle" /\ PtyOutputStale
FallbackIdle ==
    /\ stale /\ PtyOutputStale
    /\ IF observed THEN machine \in Busy ELSE status = "Idle"

\* submit_text; the text becomes a Prompt of the agent.
Submit ==
    /\ worker = "ready"
    /\ ObservedIdle \/ FallbackIdle
    /\ worker' = "sent"
    /\ submits' = IF ObservedIdle THEN submits + 1 ELSE submits
    /\ UNCHANGED <<agent, kind, hooks, http, stream, memory, machine, observed, stale,
                   turnSeq, writes, status, rearmed, faults>>

\* mark_submit_started.
MarkStarted ==
    /\ worker = "sent"
    /\ worker' = "ready"
    /\ observed' = FALSE
    /\ stale' = FALSE
    /\ UNCHANGED <<agent, kind, hooks, http, stream, memory, machine, turnSeq, writes,
                   status, submits, rearmed, faults>>

----------------------------------------------------------------------------
Next ==
    \/ Prompt \/ ToolBefore \/ ToolAfter \/ TurnEnd
    \/ ReadMark \/ MarkWritten \/ WindowPasses \/ FallbackPasses \/ Submit \/ MarkStarted
    \/ \E n \in Event : HookEnds(n) \/ PostFails(n) \/ ServePost(n) \/ PostWritten(n)

Spec == Init /\ [][Next]_vars

----------------------------------------------------------------------------
(* Properties.                                                             *)

\* Typing; a thread has a status to write only while it serves an event.
TypeOK ==
    /\ agent \in {"idle", "busy", "tool"}
    /\ kind \in Seq(Kind) /\ Len(kind) <= MaxEvents
    /\ hooks \subseteq Emitted
    /\ http \in [Event -> {"none", "posted", "writing", "done"}]
    /\ stream \in Seq(Emitted)
    /\ memory \in Seq([kind : Kind, channel : {"http", "osc"}]) /\ Len(memory) <= DedupMemory
    /\ machine \in Status
    /\ observed \in BOOLEAN
    /\ stale \in BOOLEAN
    /\ turnSeq \in Nat
    /\ writes \in [Thread -> Status \cup {"nothing"}]
    /\ status \in Status
    /\ worker \in {"ready", "sent"}
    /\ submits \in Nat /\ rearmed \in Nat
    /\ faults \in 0..MaxFaults
    /\ \A n \in Event : writes[n] # "nothing" => http[n] = "writing"

\* However the two copies of the events mix, a turn is counted at most once,
\* and exactly once when every copy has come.
TurnsCountedOnce ==
    /\ turnSeq <= Cardinality(Ends)
    /\ Outstanding = {} /\ faults = 0 => turnSeq = Cardinality(Ends)

\* The worker submits once for one end of a turn: no copy of it that comes
\* after the submit, and nothing that was consumed, allows a second one.
\* (An event other than a TurnEnd that comes late finds the session Idle and
\* does allow one: it counts as an observation.)
OneSubmitPerTurn == submits <= Cardinality(Ends) + rearmed

=============================================================================
