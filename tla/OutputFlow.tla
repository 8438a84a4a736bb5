----------------------------- MODULE OutputFlow -----------------------------
(***************************************************************************)
(* The output of one terminal session: the PTY reader thread, the batcher  *)
(* thread, the emitter, the view with its cumulative acknowledgements, the *)
(* gate (OutputFlowGate) that pauses the reader while too much output is   *)
(* unacknowledged, and the kill and exit paths that must set it free.      *)
(*                                                                         *)
(* One chunk of output is one unit of sequence: chunk n ends at seq n.     *)
(* The gate's counters are atomics and its parked flag has a lock of its   *)
(* own, so note_sent and note_acked are chains of steps that interleave.   *)
(*                                                                         *)
(* Not in the state: the bytes, the interactive fast path (a flush may     *)
(* happen at any time), status inference, diagnostics and log limits.      *)
(***************************************************************************)
EXTENDS Integers, Sequences, SequencesExt

CONSTANTS
    High,         \* PRODUCER_FLOW_HIGH_WATERMARK_BYTES, in chunks
    Low,          \* PRODUCER_FLOW_LOW_WATERMARK_BYTES, in chunks
    Streak,       \* FAILSAFE_TIMEOUTS_BEFORE_DESYNC
    ChannelSize,  \* OUTPUT_BATCH_CHANNEL_CAPACITY, in chunks
    BatchSize,    \* BATCH_SIZE_THRESHOLD, in chunks
    MaxSeq,       \* bound: chunks the child prints
    MaxDesync,    \* bound: desync events waiting for the view
    CarryTail,    \* TRUE when the last read may leave a carry to flush
    MayRefuse,    \* TRUE when the emitter may answer Err (WsEmitter)
    MaySuspend    \* TRUE when the window may die and be rebuilt (TauriEmitter)

ASSUME WatermarkAssumption == Low \in Nat /\ High \in Nat /\ Low <= High
ASSUME SizeAssumption == {Streak, ChannelSize, BatchSize, MaxSeq, MaxDesync} \subseteq Nat \ {0}
ASSUME SwitchAssumption == {CarryTail, MayRefuse, MaySuspend} \subseteq BOOLEAN

VARIABLES
    alive,     \* the child process runs
    cancelled, \* kill_with_reason has set the flag
    pushed,    \* ReplayBuffer.pushed_seq
    channel,   \* chunks between the reader and the batcher
    batch,     \* chunks the batcher has collected
    sent,      \* OutputFlowGate.sent_seq
    acked,     \* OutputFlowGate.acked_seq
    everAcked, \* OutputFlowGate.ever_acked
    parked,    \* OutputFlowGate.parked
    timeouts,  \* OutputFlowGate.consecutive_failsafe_timeouts
    owed,      \* the emitter refused output and owes the view a desync
    reader, batcher, acker, waiter, killer,  \* program points and locals
    inbox,     \* events on their way to the view
    view,      \* "live", or "gone" while the window is rebuilt (emits are suspended)
    shown,     \* chunks on the screen of the view
    processed, \* the view: processedEndSeq
    reported,  \* the view: reportedEndSeq
    ack,       \* the latest acknowledgement under way, 0 when none
    reached    \* history: the highest seq an event carried to a live view

gate == <<sent, acked, everAcked, parked, timeouts>>
threads == <<reader, batcher, acker, waiter, killer>>
client == <<inbox, view, shown, processed, reported, ack, reached>>
vars == <<alive, cancelled, pushed, channel, batch, gate, owed, threads, client>>

Output(chunks) == [kind |-> "output", chunks |-> chunks]
Desync == [kind |-> "desync", chunks |-> <<>>]
Exit == [kind |-> "exit", chunks |-> <<>>]

Max2(a, b) == IF a > b THEN a ELSE b
Min2(a, b) == IF a < b THEN a ELSE b
InFlight(s, a) == IF s > a THEN s - a ELSE 0

Waiting(kind) == {i \in DOMAIN inbox : inbox[i].kind = kind}

\* What an emit leaves in the event queue of the window: TauriEmitter answers Ok
\* and drops the event while emits are suspended.
Delivered(e) == IF view = "live" THEN Append(inbox, e) ELSE inbox

\* Desync events are idempotent for a view: those beyond the bound merge.
DesyncSent == IF Cardinality(Waiting("desync")) < MaxDesync THEN Delivered(Desync) ELSE inbox
-----------------------------------------------------------------------------
(* The reader thread.                                                      *)

ReaderGoto(pc) == reader' = pc

\* The top of the loop, and park_if_paused up to the wait.
ReaderGate ==
    /\ reader = "gate"
    /\ IF cancelled THEN ReaderGoto("tail")
       ELSE IF parked THEN ReaderGoto("waiting")
       ELSE ReaderGoto("read")
    /\ UNCHANGED <<alive, cancelled, pushed, channel, batch, gate, owed,
                   batcher, acker, waiter, killer, client>>

\* Woken by an ACK below LOW or by release: Resumed.
ReaderWakes ==
    /\ reader = "waiting"
    /\ ~parked \/ cancelled
    /\ parked' = FALSE
    /\ timeouts' = 0
    /\ ReaderGoto("check")
    /\ UNCHANGED <<alive, cancelled, pushed, channel, batch, sent, acked, everAcked,
                   owed, batcher, acker, waiter, killer, client>>

\* Slip: the streak of failsafes is not reset when it is reported.
StreakNeverResets ==
    /\ reader = "waiting"
    /\ parked' = FALSE
    /\ IF timeouts + 1 >= Streak
       THEN timeouts' = timeouts + 1 /\ ReaderGoto("stalled")
       ELSE timeouts' = timeouts + 1 /\ ReaderGoto("check")
    /\ UNCHANGED <<alive, cancelled, pushed, channel, batch, sent, acked, everAcked,
                   owed, batcher, acker, waiter, killer, client>>

\* Slip: the failsafe frees the reader only when the level allows it.
TimesOutWhenDrained ==
    /\ reader = "waiting"
    /\ InFlight(sent, acked) < Low
    /\ parked' = FALSE
    /\ IF timeouts + 1 >= Streak
       THEN timeouts' = 0 /\ ReaderGoto("stalled")
       ELSE timeouts' = timeouts + 1 /\ ReaderGoto("check")
    /\ UNCHANGED <<alive, cancelled, pushed, channel, batch, sent, acked, everAcked,
                   owed, batcher, acker, waiter, killer, client>>

\* The failsafe of one park: TimedOut, or Stalled after Streak of them.
ReaderTimesOut ==
    /\ reader = "waiting"
    /\ parked' = FALSE
    /\ IF timeouts + 1 >= Streak
       THEN timeouts' = 0 /\ ReaderGoto("stalled")
       ELSE timeouts' = timeouts + 1 /\ ReaderGoto("check")
    /\ UNCHANGED <<alive, cancelled, pushed, channel, batch, sent, acked, everAcked,
                   owed, batcher, acker, waiter, killer, client>>

ReaderSignalsStall ==
    /\ reader = "stalled"
    /\ inbox' = DesyncSent
    /\ ReaderGoto("check")
    /\ UNCHANGED <<alive, cancelled, pushed, channel, batch, gate, owed, batcher, acker,
                   waiter, killer, view, shown, processed, reported, ack, reached>>

ReaderChecks ==
    /\ reader = "check"
    /\ ReaderGoto(IF cancelled THEN "tail" ELSE "read")
    /\ UNCHANGED <<alive, cancelled, pushed, channel, batch, gate, owed,
                   batcher, acker, waiter, killer, client>>

\* read(): a chunk (also one left in the PTY by a dead child), or its end.
ReaderReads ==
    /\ reader = "read"
    /\ \/ pushed < MaxSeq /\ ReaderGoto("push")
       \/ ~alive /\ ReaderGoto("tail")
    /\ UNCHANGED <<alive, cancelled, pushed, channel, batch, gate, owed,
                   batcher, acker, waiter, killer, client>>

ReaderPushes ==
    /\ reader = "push"
    /\ IF cancelled
       THEN ReaderGoto("tail") /\ UNCHANGED pushed
       ELSE ReaderGoto("send") /\ pushed' = pushed + 1
    /\ UNCHANGED <<alive, cancelled, channel, batch, gate, owed,
                   batcher, acker, waiter, killer, client>>

\* Slip: a full channel drops the chunk and nobody is told.
DropsWithoutDesync ==
    /\ reader = "send"
    /\ IF Len(channel) < ChannelSize
       THEN channel' = Append(channel, pushed) /\ ReaderGoto("gate")
       ELSE ReaderGoto("gate") /\ UNCHANGED channel
    /\ UNCHANGED <<alive, cancelled, pushed, batch, gate, owed,
                   batcher, acker, waiter, killer, client>>

\* try_send: a full channel drops the whole chunk, never part of it.
ReaderSends ==
    /\ reader = "send"
    /\ IF Len(channel) < ChannelSize
       THEN channel' = Append(channel, pushed) /\ ReaderGoto("gate")
       ELSE ReaderGoto("dropped") /\ UNCHANGED channel
    /\ UNCHANGED <<alive, cancelled, pushed, batch, gate, owed,
                   batcher, acker, waiter, killer, client>>

ReaderSignalsDrop ==
    /\ reader = "dropped"
    /\ inbox' = DesyncSent
    /\ ReaderGoto("gate")
    /\ UNCHANGED <<alive, cancelled, pushed, channel, batch, gate, owed, batcher, acker,
                   waiter, killer, view, shown, processed, reported, ack, reached>>

\* After the loop: flush what the UTF-8 carry still holds, then drop the sender.
ReaderEnds ==
    /\ reader = "tail"
    /\ \/ UNCHANGED <<pushed, channel>>
       \/ /\ CarryTail
          /\ pushed < MaxSeq
          /\ pushed' = pushed + 1
          /\ channel' = IF Len(channel) < ChannelSize THEN Append(channel, pushed') ELSE channel
    /\ ReaderGoto("done")
    /\ UNCHANGED <<alive, cancelled, batch, gate, owed,
                   batcher, acker, waiter, killer, client>>
-----------------------------------------------------------------------------
(* The gate: reevaluate_park, run by the batcher and by the acknowledgement. *)

\* The decision under the lock, from a level measured before it was taken.
Decide(level) ==
    parked' = IF parked THEN ~(level < Low) ELSE level > High

(* The batcher thread.                                                     *)

BatcherGoto(pc) == batcher' = [batcher EXCEPT !.pc = pc]

BatcherReceives ==
    /\ batcher.pc = "recv"
    /\ channel # <<>>
    /\ Len(batch) < BatchSize
    /\ batch' = Append(batch, Head(channel))
    /\ channel' = Tail(channel)
    /\ UNCHANGED <<alive, cancelled, pushed, gate, owed, threads, client>>

\* Slip: the batch is sent but not taken.
EmitsAgain ==
    /\ batcher.pc = "recv"
    /\ batch # <<>>
    /\ batch' = batch
    /\ \/ /\ inbox' = Delivered(Output(batch))
          /\ reached' = IF view = "live" THEN Last(batch) ELSE reached
          /\ batcher' = [batcher EXCEPT !.pc = "note", !.end = Last(batch)]
          /\ UNCHANGED owed
       \/ /\ MayRefuse
          /\ owed' = TRUE
          /\ UNCHANGED <<inbox, reached, batcher>>
    /\ UNCHANGED <<alive, cancelled, pushed, channel, gate, reader, acker, waiter, killer,
                   view, shown, processed, reported, ack>>

\* Slip: a refused emit is counted as sent.
CountsRefused ==
    /\ batcher.pc = "recv"
    /\ batch # <<>>
    /\ batch' = <<>>
    /\ \/ /\ inbox' = Delivered(Output(batch))
          /\ reached' = IF view = "live" THEN Last(batch) ELSE reached
          /\ batcher' = [batcher EXCEPT !.pc = "note", !.end = Last(batch)]
          /\ UNCHANGED owed
       \/ /\ MayRefuse
          /\ owed' = TRUE
          /\ batcher' = [batcher EXCEPT !.pc = "note", !.end = Last(batch)]
          /\ UNCHANGED <<inbox, reached>>
    /\ UNCHANGED <<alive, cancelled, pushed, channel, gate, reader, acker, waiter, killer,
                   view, shown, processed, reported, ack>>

\* A flush: the size, the clock, an echo or the end of the reader.  The view gets
\* the batch, or the emit is swallowed, or it is refused and not counted.
BatcherEmits ==
    /\ batcher.pc = "recv"
    /\ batch # <<>>
    /\ batch' = <<>>
    /\ \/ /\ inbox' = Delivered(Output(batch))
          /\ reached' = IF view = "live" THEN Last(batch) ELSE reached
          /\ batcher' = [batcher EXCEPT !.pc = "note", !.end = Last(batch)]
          /\ UNCHANGED owed
       \/ /\ MayRefuse
          /\ owed' = TRUE
          /\ UNCHANGED <<inbox, reached, batcher>>
    /\ UNCHANGED <<alive, cancelled, pushed, channel, gate, reader, acker, waiter, killer,
                   view, shown, processed, reported, ack>>

BatcherNotes ==
    /\ batcher.pc = "note"
    /\ sent' = Max2(sent, batcher.end)
    /\ BatcherGoto("measure")
    /\ UNCHANGED <<alive, cancelled, pushed, channel, batch, acked, everAcked, parked, timeouts,
                   owed, reader, acker, waiter, killer, client>>

BatcherMeasures ==
    /\ batcher.pc = "measure"
    /\ batcher' = IF everAcked
                  THEN [batcher EXCEPT !.pc = "decide", !.level = InFlight(sent, acked)]
                  ELSE [batcher EXCEPT !.pc = "recv"]
    /\ UNCHANGED <<alive, cancelled, pushed, channel, batch, gate, owed,
                   reader, acker, waiter, killer, client>>

BatcherDecides ==
    /\ batcher.pc = "decide"
    /\ Decide(batcher.level)
    /\ batcher' = [pc |-> "recv", end |-> 0, level |-> 0]
    /\ UNCHANGED <<alive, cancelled, pushed, channel, batch, sent, acked, everAcked, timeouts,
                   owed, reader, acker, waiter, killer, client>>

\* Disconnected: the reader is gone and nothing is left.
BatcherEnds ==
    /\ batcher.pc = "recv"
    /\ reader = "done"
    /\ channel = <<>>
    /\ batch = <<>>
    /\ BatcherGoto("done")
    /\ UNCHANGED <<alive, cancelled, pushed, channel, batch, gate, owed,
                   reader, acker, waiter, killer, client>>

\* Slip: the owed desync is cleared without being sent.
ForgetsTheDebt ==
    /\ owed
    /\ owed' = FALSE
    /\ inbox' = inbox
    /\ UNCHANGED <<alive, cancelled, pushed, channel, batch, gate, threads,
                   view, shown, processed, reported, ack, reached>>

\* The emitter that refused output puts the desync it owes into the stream.
EmitterPays ==
    /\ owed
    /\ owed' = FALSE
    /\ inbox' = DesyncSent
    /\ UNCHANGED <<alive, cancelled, pushed, channel, batch, gate, threads,
                   view, shown, processed, reported, ack, reached>>
-----------------------------------------------------------------------------
(* note_acked.                                                             *)

\* Slip: the acknowledged seq is not clamped to what was sent.
TakesAckUnclamped ==
    /\ acker.pc = "idle"
    /\ ack > 0
    /\ ack' = 0
    /\ IF killer = "idle"
       THEN everAcked' = TRUE /\ acker' = [pc |-> "merge", capped |-> ack, level |-> 0]
       ELSE UNCHANGED <<everAcked, acker>>
    /\ UNCHANGED <<alive, cancelled, pushed, channel, batch, sent, acked, parked, timeouts, owed,
                   reader, batcher, waiter, killer, inbox, view, shown, processed, reported, reached>>

\* ack_terminal_output: a session that kill has taken out of the map is ignored.
AckArrives ==
    /\ acker.pc = "idle"
    /\ ack > 0
    /\ ack' = 0
    /\ IF killer = "idle"
       THEN everAcked' = TRUE /\ acker' = [pc |-> "merge", capped |-> Min2(ack, sent), level |-> 0]
       ELSE UNCHANGED <<everAcked, acker>>
    /\ UNCHANGED <<alive, cancelled, pushed, channel, batch, sent, acked, parked, timeouts, owed,
                   reader, batcher, waiter, killer, inbox, view, shown, processed, reported, reached>>

AckMerges ==
    /\ acker.pc = "merge"
    /\ acked' = Max2(acked, acker.capped)
    /\ acker' = [acker EXCEPT !.pc = "measure", !.capped = 0]
    /\ UNCHANGED <<alive, cancelled, pushed, channel, batch, sent, everAcked, parked, timeouts,
                   owed, reader, batcher, waiter, killer, client>>

AckMeasures ==
    /\ acker.pc = "measure"
    /\ acker' = [acker EXCEPT !.pc = "decide", !.level = InFlight(sent, acked)]
    /\ UNCHANGED <<alive, cancelled, pushed, channel, batch, gate, owed,
                   reader, batcher, waiter, killer, client>>

AckDecides ==
    /\ acker.pc = "decide"
    /\ Decide(acker.level)
    /\ acker' = [pc |-> "idle", capped |-> 0, level |-> 0]
    /\ UNCHANGED <<alive, cancelled, pushed, channel, batch, sent, acked, everAcked, timeouts,
                   owed, reader, batcher, waiter, killer, client>>
-----------------------------------------------------------------------------
(* The view, and the acknowledgements it reports.                          *)

\* An output event is parsed; a desync makes the view rebuild itself from the
\* snapshot; an exit changes nothing here.
ViewConsumes ==
    /\ view = "live"
    /\ inbox # <<>>
    /\ inbox' = Tail(inbox)
    /\ LET e == Head(inbox) IN
       CASE e.kind = "output" -> /\ shown' = shown \cup ToSet(e.chunks)
                                 /\ processed' = Max2(processed, Last(e.chunks))
         [] e.kind = "desync" -> shown' = 1..pushed /\ UNCHANGED processed
         [] OTHER -> UNCHANGED <<shown, processed>>
    /\ UNCHANGED <<alive, cancelled, pushed, channel, batch, gate, owed, threads,
                   view, reported, ack, reached>>

\* flush: only progress is reported, and the report is cumulative.
ViewReports ==
    /\ view = "live"
    /\ processed > reported
    /\ reported' = processed
    /\ ack' = Max2(ack, processed)
    /\ UNCHANGED <<alive, cancelled, pushed, channel, batch, gate, owed, threads,
                   inbox, view, shown, processed, reached>>

\* The link to the daemon is best effort: no answer, no retry.
AckLost ==
    /\ ack > 0
    /\ ack' = 0
    /\ UNCHANGED <<alive, cancelled, pushed, channel, batch, gate, owed, threads,
                   inbox, view, shown, processed, reported, reached>>

\* suspend_webview_emits: the browser process failed, its page is gone.
WindowFails ==
    /\ MaySuspend
    /\ view = "live"
    /\ view' = "gone"
    /\ inbox' = <<>>
    /\ shown' = {}
    /\ processed' = 0
    /\ reported' = 0
    /\ UNCHANGED <<alive, cancelled, pushed, channel, batch, gate, owed, threads, ack, reached>>

\* Slip: the new page does not ask for the snapshot.
WindowRebuiltEmpty ==
    /\ view = "gone"
    /\ view' = "live"
    /\ UNCHANGED <<alive, cancelled, pushed, channel, batch, gate, owed, threads,
                   inbox, shown, processed, reported, ack, reached>>

\* resume_webview_emits, and the new page attaches from the snapshot.
WindowRebuilt ==
    /\ view = "gone"
    /\ view' = "live"
    /\ shown' = 1..pushed
    /\ UNCHANGED <<alive, cancelled, pushed, channel, batch, gate, owed, threads,
                   inbox, processed, reported, ack, reached>>
-----------------------------------------------------------------------------
(* kill_with_reason, the child's own end, and the wait thread.             *)

KillRemoves ==
    /\ killer = "idle"
    /\ killer' = "removed"
    /\ UNCHANGED <<alive, cancelled, pushed, channel, batch, gate, owed,
                   reader, batcher, acker, waiter, client>>

KillCancels ==
    /\ killer = "removed"
    /\ cancelled' = TRUE
    /\ killer' = "cancelled"
    /\ UNCHANGED <<alive, pushed, channel, batch, gate, owed,
                   reader, batcher, acker, waiter, client>>

\* release.
Release ==
    parked' = FALSE /\ UNCHANGED <<sent, acked, everAcked, timeouts>>

KillReleases ==
    /\ killer = "cancelled"
    /\ Release
    /\ killer' = "released"
    /\ UNCHANGED <<alive, cancelled, pushed, channel, batch, owed,
                   reader, batcher, acker, waiter, client>>

\* Slip: the threads are told, the child is not.
KillsNobody ==
    /\ killer = "released"
    /\ alive' = alive
    /\ killer' = "done"
    /\ UNCHANGED <<cancelled, pushed, channel, batch, gate, owed,
                   reader, batcher, acker, waiter, client>>

KillKills ==
    /\ killer = "released"
    /\ alive' = FALSE
    /\ killer' = "done"
    /\ UNCHANGED <<cancelled, pushed, channel, batch, gate, owed,
                   reader, batcher, acker, waiter, client>>

ChildExits ==
    /\ alive
    /\ alive' = FALSE
    /\ UNCHANGED <<cancelled, pushed, channel, batch, gate, owed, threads, client>>

WaiterReleases ==
    /\ waiter = "wait"
    /\ ~alive
    /\ Release
    /\ waiter' = "joinReader"
    /\ UNCHANGED <<alive, cancelled, pushed, channel, batch, owed,
                   reader, batcher, acker, killer, client>>

\* Slip: the exit event does not wait for the batcher.
SkipsBatcherJoin ==
    /\ waiter = "joinReader"
    /\ reader = "done"
    /\ waiter' = "joined"
    /\ UNCHANGED <<alive, cancelled, pushed, channel, batch, gate, owed,
                   reader, batcher, acker, killer, client>>

WaiterJoinsReader ==
    /\ waiter = "joinReader"
    /\ reader = "done"
    /\ waiter' = "joinBatcher"
    /\ UNCHANGED <<alive, cancelled, pushed, channel, batch, gate, owed,
                   reader, batcher, acker, killer, client>>

WaiterJoinsBatcher ==
    /\ waiter = "joinBatcher"
    /\ batcher.pc = "done"
    /\ waiter' = "joined"
    /\ UNCHANGED <<alive, cancelled, pushed, channel, batch, gate, owed,
                   reader, batcher, acker, killer, client>>

\* The exit event follows every output event that was queued.
WaiterEmitsExit ==
    /\ waiter = "joined"
    /\ Release
    /\ inbox' = Delivered(Exit)
    /\ waiter' = "done"
    /\ UNCHANGED <<alive, cancelled, pushed, channel, batch, owed, reader, batcher, acker,
                   killer, view, shown, processed, reported, ack, reached>>
-----------------------------------------------------------------------------
Init ==
    /\ alive = TRUE /\ cancelled = FALSE
    /\ pushed = 0 /\ channel = <<>> /\ batch = <<>>
    /\ sent = 0 /\ acked = 0 /\ everAcked = FALSE /\ parked = FALSE /\ timeouts = 0
    /\ owed = FALSE
    /\ reader = "gate"
    /\ batcher = [pc |-> "recv", end |-> 0, level |-> 0]
    /\ acker = [pc |-> "idle", capped |-> 0, level |-> 0]
    /\ waiter = "wait" /\ killer = "idle"
    /\ inbox = <<>> /\ view = "live" /\ shown = {}
    /\ processed = 0 /\ reported = 0 /\ ack = 0 /\ reached = 0

ReaderRuns ==
    \/ ReaderGate \/ ReaderWakes \/ ReaderTimesOut \/ ReaderSignalsStall \/ ReaderChecks
    \/ ReaderPushes \/ ReaderSends \/ ReaderSignalsDrop \/ ReaderEnds
BatcherRuns ==
    \/ BatcherReceives \/ BatcherEmits \/ BatcherNotes \/ BatcherMeasures \/ BatcherDecides
    \/ BatcherEnds
AckRuns == AckArrives \/ AckMerges \/ AckMeasures \/ AckDecides
ViewRuns == ViewConsumes \/ ViewReports
KillRuns == KillCancels \/ KillReleases \/ KillKills
WaiterRuns == WaiterReleases \/ WaiterJoinsReader \/ WaiterJoinsBatcher \/ WaiterEmitsExit

Next ==
    \/ ReaderReads \/ ReaderRuns \/ BatcherRuns \/ EmitterPays \/ AckRuns
    \/ ViewRuns \/ AckLost \/ WindowFails \/ WindowRebuilt
    \/ KillRemoves \/ KillRuns \/ ChildExits \/ WaiterRuns

Spec == Init /\ [][Next]_vars

\* Threads are scheduled, a wait ends by its timeout, a started kill runs on and
\* the page handles its events.  The child owes no output and need not end; the
\* end of a dead child's output is read.  An acknowledgement may be lost.
Fairness ==
    /\ WF_vars(ReaderRuns) /\ WF_vars(ReaderReads /\ ~alive)
    /\ WF_vars(BatcherRuns) /\ WF_vars(EmitterPays) /\ WF_vars(AckRuns)
    /\ WF_vars(ViewRuns) /\ WF_vars(KillRuns) /\ WF_vars(WaiterRuns)

FairSpec == Spec /\ Fairness
-----------------------------------------------------------------------------
(* Type invariant                                                          *)

Seqs == 0..MaxSeq
Chunks == Seq(1..MaxSeq)
Event == [kind : {"output", "desync", "exit"}, chunks : Chunks]

\* Every variable keeps its type: counters stay in the range of seqs, program
\* points are those of the threads.
TypeOK ==
    /\ {alive, cancelled, everAcked, parked, owed} \subseteq BOOLEAN
    /\ {pushed, sent, acked, processed, reported, ack, reached} \subseteq Seqs
    /\ timeouts \in 0..(Streak - 1)
    /\ channel \in Chunks /\ Len(channel) <= ChannelSize
    /\ batch \in Chunks /\ Len(batch) <= BatchSize
    /\ inbox \in Seq(Event)
    /\ reader \in {"gate", "waiting", "stalled", "check", "read", "push", "send", "dropped",
                   "tail", "done"}
    /\ batcher \in [pc : {"recv", "note", "measure", "decide", "done"}, end : Seqs, level : Seqs]
    /\ acker \in [pc : {"idle", "merge", "measure", "decide"}, capped : Seqs, level : Seqs]
    /\ waiter \in {"wait", "joinReader", "joinBatcher", "joined", "done"}
    /\ killer \in {"idle", "removed", "cancelled", "released", "done"}
    /\ view \in {"live", "gone"}
    /\ shown \subseteq 1..MaxSeq
-----------------------------------------------------------------------------
(* Safety                                                                  *)

Increasing(s) == \A i, j \in DOMAIN s : i < j => s[i] < s[j]
Before(s, t) == \A i \in DOMAIN s, j \in DOMAIN t : s[i] < t[j]

\* The pipeline: the events, then the batch, the channel and the reader's own chunk.
Held == IF reader = "send" THEN <<pushed>> ELSE <<>>
OnItsWay(n) ==
    \/ \E i \in DOMAIN inbox : n \in ToSet(inbox[i].chunks)
    \/ n \in ToSet(batch) \/ n \in ToSet(channel) \/ n \in ToSet(Held)

\* A chunk that ReplayBuffer recorded is on the screen, on its way, or a desync
\* that makes the view rebuild itself is on its way ("a full queue drops the whole
\* chunk and sends a desync").
NoSilentLoss ==
    view = "live" =>
        \A n \in 1..pushed :
            \/ n \in shown \/ OnItsWay(n)
            \/ reader \in {"dropped", "stalled"} \/ owed \/ Waiting("desync") # {}

\* No list of the pipeline is out of order or holds what a later one holds too, and
\* the view has processed none of it.
PipelineInOrder ==
    /\ Increasing(batch) /\ Increasing(channel)
    /\ Before(batch, channel) /\ Before(batch \o channel, Held)
    /\ Before(<<processed>>, batch \o channel \o Held)
    /\ \A i \in DOMAIN inbox :
          /\ Increasing(inbox[i].chunks)
          /\ Before(<<processed>>, inbox[i].chunks)
          /\ Before(inbox[i].chunks, batch \o channel \o Held)
          /\ \A j \in DOMAIN inbox : i < j => Before(inbox[i].chunks, inbox[j].chunks)

\* When the exit event is out both threads are done, nothing is left between the
\* reader and the view's queue, and no output follows it there.
ExitIsLast ==
    waiter = "done" =>
        /\ reader = "done" /\ batcher.pc = "done" /\ channel = <<>> /\ batch = <<>>
        /\ \A i \in Waiting("exit"), j \in Waiting("output") : j < i

\* The stream a view reads: the pipeline never reorders or repeats a chunk, whatever
\* it drops, and the exit event ends it.
StreamInOrder == PipelineInOrder /\ ExitIsLast

\* The accounts of the gate: it counts as sent only what an event carried to a view,
\* since a refused emit would be a debt no acknowledgement clears (note_emitted), and
\* it never believes more consumed than the view consumed (note_acked).
LedgerIsTrue == sent <= reached /\ acked <= Min2(sent, processed)
-----------------------------------------------------------------------------
(* Liveness                                                                *)

\* A dead child is reported and a kill that has begun comes to its end: neither the
\* joins of the wait thread nor the reader hang on a parked gate, on a lost
\* acknowledgement or on a batcher that waits for more.
SessionEnds == (~alive \/ killer # "idle") ~> (waiter = "done")

\* Whatever the channel, the gate and the emitter did to a chunk on its way, a view
\* that stays shows it in the end; a reader that waits for a lost acknowledgement is
\* set free by the failsafe.
OutputReachesView == \A n \in 1..MaxSeq : (pushed >= n) ~> (n \in shown)
=============================================================================
