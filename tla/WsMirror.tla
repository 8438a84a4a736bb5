------------------------------ MODULE WsMirror ------------------------------
(***************************************************************************)
(* The daemon mirrors one session to several clients (WsEmitter): a        *)
(* bounded queue per client, the latch of a desync that is owed, and the   *)
(* gate that stops the output of a session its client does not look at.    *)
(* Each client also holds a control link of the same instance id, which    *)
(* reports what is hidden and which may break and come back by itself.     *)
(*                                                                         *)
(* A client that receives a desync rebuilds its screen from the snapshot,  *)
(* that is, from everything ReplayBuffer holds at that moment.             *)
(***************************************************************************)
EXTENDS Integers, Sequences, SequencesExt

CONSTANTS
    Client,      \* instances, each with one mirror of the session
    Capacity,    \* SESSION_CHANNEL_CAPACITY
    BatchRoom,   \* OUTPUT_BATCH_CHANNEL_CAPACITY
    MaxSeq,      \* bound: chunks the child prints
    LinkBreaks   \* TRUE when a control link may break while the mirror lives

ASSUME CapacityAssumption == {Capacity, BatchRoom, MaxSeq} \subseteq Nat \ {0}
ASSUME LinkAssumption == LinkBreaks \in BOOLEAN

VARIABLES
    pushed,   \* ReplayBuffer.pushed_seq
    channel,  \* chunks on their way to the emitter
    skipped,  \* the reader dropped a chunk and is about to emit the desync
    session,  \* "live", "killed" (session-killed is out) or "exited"
    sub,      \* the SessionSubscriber of each client
    link,     \* control link: is it up, has a broken one still to be cleaned up
    hide,     \* what each client wants: the session is out of its sight
    report,   \* the client has yet to send its control link what it wants
    screen,   \* chunks on the screen of each client
    told,     \* the client knows that the session ended
    forgot    \* history: a broken link took with it what the gate had dropped

vars == <<pushed, channel, skipped, session, sub, link, hide, report, screen, told, forgot>>

Output(n) == [kind |-> "output", seq |-> n]
Desync == [kind |-> "desync", seq |-> 0]
End(kind) == [kind |-> kind, seq |-> 0]

\* "none": no subscription; "open"; "ended": the sender was dropped at the end of
\* the session and the receiver drains what is queued.
NoSub == [state |-> "none", queue |-> <<>>, desynced |-> FALSE, hidden |-> FALSE, dropped |-> FALSE]
OpenSub == [NoSub EXCEPT !.state = "open"]
Open(c) == sub[c].state = "open"
-----------------------------------------------------------------------------
(* deliver                                                                 *)

\* Slip: one message too many.
HasRoomForOneMore(s) == Len(s.queue) <= Capacity

HasRoom(s) == Len(s.queue) < Capacity
Put(s, m) == [s EXCEPT !.queue = Append(@, m)]

\* Slip: the latch is forgotten and the desync never paid.
PayNothing(s) == [s EXCEPT !.desynced = FALSE]

\* The desync that is owed goes in first; it stays owed while the queue is full.
PayDesync(s) ==
    IF s.desynced /\ HasRoom(s) THEN [Put(s, Desync) EXCEPT !.desynced = FALSE] ELSE s

\* One message to one subscriber.  Only output may be gated or may set the latch.
Offer(s, m, dropOnFull) ==
    IF s.hidden /\ dropOnFull THEN [s EXCEPT !.dropped = TRUE]
    ELSE LET paid == PayDesync(s) IN
         IF paid.desynced THEN paid
         ELSE IF HasRoom(paid) THEN Put(paid, m)
         ELSE [paid EXCEPT !.desynced = dropOnFull]

Took(s, m, dropOnFull) ==
    LET after == Offer(s, m, dropOnFull) IN
    after.queue # s.queue /\ Last(after.queue) = m

Subscribers == {c \in Client : Open(c)}
Published(m, dropOnFull) ==
    [c \in Client |-> IF Open(c) THEN Offer(sub[c], m, dropOnFull) ELSE sub[c]]
-----------------------------------------------------------------------------
(* The session: the reader, the batcher and the end.                       *)

\* The reader records a chunk and hands it on, or finds the channel full.
ReaderPushes ==
    /\ session = "live"
    /\ ~skipped
    /\ pushed < MaxSeq
    /\ pushed' = pushed + 1
    /\ IF Len(channel) < BatchRoom
       THEN channel' = Append(channel, pushed') /\ UNCHANGED skipped
       ELSE skipped' = TRUE /\ UNCHANGED channel
    /\ UNCHANGED <<session, sub, link, hide, report, screen, told, forgot>>

\* signal_desync for one subscriber: at once, by the latch, or behind the gate.
Signalled(s) ==
    CASE s.hidden -> [s EXCEPT !.dropped = TRUE]
      [] ~s.hidden /\ HasRoom(s) -> [Put(s, Desync) EXCEPT !.desynced = FALSE]
      [] OTHER -> [s EXCEPT !.desynced = TRUE]

\* emit(terminal-desync).
SignalDesync ==
    /\ skipped
    /\ skipped' = FALSE
    /\ sub' = [c \in Client |-> IF Open(c) THEN Signalled(sub[c]) ELSE sub[c]]
    /\ UNCHANGED <<pushed, channel, session, link, hide, report, screen, told, forgot>>

\* emit(terminal-output): publish to every subscriber.
EmitOutput ==
    /\ channel # <<>>
    /\ channel' = Tail(channel)
    /\ sub' = Published(Output(Head(channel)), TRUE)
    /\ UNCHANGED <<pushed, skipped, session, link, hide, report, screen, told, forgot>>

\* Slip: the end is published and the senders are kept.
EndKeepsSenders(kind) ==
    sub' = Published(End(kind), FALSE) /\ UNCHANGED told

\* The end is published; a client none of whose mirrors took it may hear of it on
\* the control link; then every sender is dropped and its receiver drains.
EndSession(kind) ==
    /\ sub' = [c \in Client |->
                 IF Open(c) THEN [Offer(sub[c], End(kind), FALSE) EXCEPT !.state = "ended"] ELSE sub[c]]
    /\ \/ UNCHANGED told
       \/ /\ \A c \in Subscribers : ~Took(sub[c], End(kind), FALSE)
          /\ \E heard \in SUBSET {c \in Client : link[c].up} :
               told' = [c \in Client |-> told[c] \/ c \in heard]

EmitKilled ==
    /\ session = "live"
    /\ session' = "killed"
    /\ EndSession("killed")
    /\ UNCHANGED <<pushed, channel, skipped, link, hide, report, screen, forgot>>

\* The exit event follows every output event (wait thread).
EmitExit ==
    /\ session \in {"live", "killed"}
    /\ channel = <<>> /\ ~skipped
    /\ session' = "exited"
    /\ EndSession("exit")
    /\ UNCHANGED <<pushed, channel, skipped, link, hide, report, screen, forgot>>
-----------------------------------------------------------------------------
(* The clients: mirror, control link, visibility.                          *)

\* handle_ws subscribes and the client attaches from the snapshot.
Subscribe(c) ==
    /\ session = "live"
    /\ sub[c].state = "none"
    /\ sub' = [sub EXCEPT ![c] = OpenSub]
    /\ screen' = [screen EXCEPT ![c] = 1..pushed]
    /\ forgot' = [forgot EXCEPT ![c] = FALSE]
    /\ UNCHANGED <<pushed, channel, skipped, session, link, hide, report, told>>

\* The client leaves: publish later retains only the senders still open.
Unsubscribe(c) ==
    /\ Open(c)
    /\ sub' = [sub EXCEPT ![c] = NoSub]
    /\ screen' = [screen EXCEPT ![c] = {}]
    /\ forgot' = [forgot EXCEPT ![c] = FALSE]
    /\ UNCHANGED <<pushed, channel, skipped, session, link, hide, report, told>>

\* handle_ws forwards one message and the client acts on it.
Forward(c) ==
    /\ sub[c].queue # <<>>
    /\ sub' = [sub EXCEPT ![c].queue = Tail(@)]
    /\ LET m == Head(sub[c].queue) IN
       /\ screen' = [screen EXCEPT ![c] = CASE m.kind = "output" -> @ \cup {m.seq}
                                            [] m.kind = "desync" -> 1..pushed
                                            [] OTHER -> @]
       /\ forgot' = [forgot EXCEPT ![c] = @ /\ m.kind # "desync"]
       /\ told' = [told EXCEPT ![c] = @ \/ m.kind \in {"exit", "killed"}]
    /\ UNCHANGED <<pushed, channel, skipped, session, link, hide, report>>

\* A drained queue without a sender ends handle_ws; the bridge takes the closed
\* mirror for the end of the session.
MirrorCloses(c) ==
    /\ sub[c].state = "ended"
    /\ sub[c].queue = <<>>
    /\ sub' = [sub EXCEPT ![c] = NoSub]
    /\ screen' = [screen EXCEPT ![c] = {}]
    /\ told' = [told EXCEPT ![c] = TRUE]
    /\ forgot' = [forgot EXCEPT ![c] = FALSE]
    /\ UNCHANGED <<pushed, channel, skipped, session, link, hide, report>>

ChangeVisibility(c) ==
    /\ hide' = [hide EXCEPT ![c] = ~@]
    /\ report' = [report EXCEPT ![c] = TRUE]
    /\ UNCHANGED <<pushed, channel, skipped, session, sub, link, screen, told, forgot>>

\* Slip: unhiding tries the desync once and forgets it when the queue is full.
ShownTryOnce(s) ==
    IF s.dropped
    THEN LET v == [s EXCEPT !.hidden = FALSE, !.dropped = FALSE] IN
         IF HasRoom(v) THEN Put(v, Desync) ELSE v
    ELSE [s EXCEPT !.hidden = FALSE]

\* Unhidden: a client that lost output is owed a desync, at once or by the latch.
Shown(s) ==
    IF s.dropped
    THEN LET v == [s EXCEPT !.hidden = FALSE, !.dropped = FALSE] IN
         IF HasRoom(v) THEN Put(v, Desync) ELSE [v EXCEPT !.desynced = TRUE]
    ELSE [s EXCEPT !.hidden = FALSE]

\* Slip: a report only ever adds to what is hidden.
ReportAddsOnly(c) ==
    /\ report[c] /\ link[c].up
    /\ report' = [report EXCEPT ![c] = FALSE]
    /\ sub' = [sub EXCEPT ![c].hidden = @ \/ (Open(c) /\ hide[c])]
    /\ UNCHANGED <<pushed, channel, skipped, session, link, hide, screen, told, forgot>>

\* set_hidden_sessions: the link carries the latest set and the daemon marks the
\* subscription of that client, if there is one.
ReportHidden(c) ==
    /\ report[c] /\ link[c].up
    /\ report' = [report EXCEPT ![c] = FALSE]
    /\ sub' = [sub EXCEPT ![c] = CASE ~Open(c) -> @
                                   [] Open(c) /\ hide[c] -> [@ EXCEPT !.hidden = TRUE]
                                   [] Open(c) /\ ~hide[c] /\ @.hidden -> Shown(@)
                                   [] OTHER -> @]
    /\ UNCHANGED <<pushed, channel, skipped, session, link, hide, screen, told, forgot>>

LinkDown(c) ==
    /\ LinkBreaks
    /\ link[c].up /\ ~link[c].stale
    /\ link' = [link EXCEPT ![c] = [up |-> FALSE, stale |-> TRUE]]
    /\ UNCHANGED <<pushed, channel, skipped, session, sub, hide, report, screen, told, forgot>>

\* The client reconnects, perhaps before the daemon has noticed the broken link,
\* and sends the set again.
LinkUp(c) ==
    /\ ~link[c].up
    /\ link' = [link EXCEPT ![c].up = TRUE]
    /\ report' = [report EXCEPT ![c] = TRUE]
    /\ UNCHANGED <<pushed, channel, skipped, session, sub, hide, screen, told, forgot>>

\* The end of the broken handle_control_ws: clear_connection_hidden.
ClearHidden(c) ==
    /\ link[c].stale
    /\ link' = [link EXCEPT ![c].stale = FALSE]
    /\ sub' = [sub EXCEPT ![c].hidden = FALSE, ![c].dropped = FALSE]
    /\ forgot' = [forgot EXCEPT ![c] = @ \/ sub[c].dropped]
    /\ UNCHANGED <<pushed, channel, skipped, session, hide, report, screen, told>>
-----------------------------------------------------------------------------
Init ==
    /\ pushed = 0 /\ channel = <<>> /\ skipped = FALSE /\ session = "live"
    /\ sub = [c \in Client |-> NoSub]
    /\ link = [c \in Client |-> [up |-> TRUE, stale |-> FALSE]]
    /\ hide = [c \in Client |-> FALSE]
    /\ report = [c \in Client |-> FALSE]
    /\ screen = [c \in Client |-> {}]
    /\ told = [c \in Client |-> FALSE]
    /\ forgot = [c \in Client |-> FALSE]

ClientStep(c) ==
    \/ Subscribe(c) \/ Unsubscribe(c) \/ Forward(c) \/ MirrorCloses(c)
    \/ ChangeVisibility(c) \/ ReportHidden(c) \/ LinkDown(c) \/ LinkUp(c) \/ ClearHidden(c)

Next ==
    \/ ReaderPushes \/ SignalDesync \/ EmitOutput \/ EmitKilled \/ EmitExit
    \/ \E c \in Client : ClientStep(c)

Spec == Init /\ [][Next]_vars

\* The daemon's tasks are scheduled and a connection that is up carries its
\* messages.  Clients need not come, go or look.
Fairness ==
    /\ WF_vars(SignalDesync) /\ WF_vars(EmitOutput)
    /\ \A c \in Client : WF_vars(Forward(c)) /\ WF_vars(MirrorCloses(c))
    /\ \A c \in Client : WF_vars(ReportHidden(c)) /\ WF_vars(LinkUp(c)) /\ WF_vars(ClearHidden(c))

FairSpec == Spec /\ Fairness
-----------------------------------------------------------------------------
(* Properties                                                              *)

Message ==
    {Output(n) : n \in 1..MaxSeq} \cup {Desync, End("killed"), End("exit")}

\* Every variable keeps its type, and no queue outgrows its capacity.
TypeOK ==
    /\ pushed \in 0..MaxSeq /\ skipped \in BOOLEAN
    /\ session \in {"live", "killed", "exited"}
    /\ channel \in Seq(1..MaxSeq) /\ Len(channel) <= BatchRoom
    /\ sub \in [Client -> [state : {"none", "open", "ended"}, queue : Seq(Message),
                          desynced : BOOLEAN, hidden : BOOLEAN, dropped : BOOLEAN]]
    /\ \A c \in Client : Len(sub[c].queue) <= Capacity
    /\ link \in [Client -> [up : BOOLEAN, stale : BOOLEAN]]
    /\ {hide, report} \subseteq [Client -> BOOLEAN]
    /\ screen \in [Client -> SUBSET (1..MaxSeq)]
    /\ {told, forgot} \subseteq [Client -> BOOLEAN]

Queued(c, m) == m \in ToSet(sub[c].queue)
Owed(c) == skipped \/ Queued(c, Desync) \/ sub[c].desynced \/ sub[c].dropped

Whole(c) == \A n \in screen[c] : 1..n \subseteq screen[c]

\* The desync contract: output is never cut in the middle.  What a client has on
\* its screen is a beginning of the session's output, whatever was dropped, hidden
\* or skipped before; only the clean-up of a broken control link may forget what the
\* gate has dropped (clear_connection_hidden), until the next rebuild.
ScreenHasNoHole == \A c \in Client : Whole(c) \/ forgot[c]

\* Output that a subscriber misses is on its way or owed: by a queued desync, by
\* the latch, by the hidden gate or by the reader that skipped it.
GapIsOwed ==
    \A c \in Subscribers : \A n \in 1..pushed :
        \/ n \in screen[c] \/ n \in ToSet(channel) \/ Queued(c, Output(n))
        \/ Owed(c) \/ forgot[c]

\* "绝不掐 VT 流中段" (DESYNC_MESSAGE, ws_emitter.rs): no screen ever has a hole.
StreamNeverCut == \A c \in Client : Whole(c)

\* Nobody keeps showing a dead session as running: every client that mirrored it
\* hears of its end, by the message, the control link or the closed mirror, also
\* when its queue was full (drop_session_subscribers).
EndIsSeen ==
    \A c \in Client : (session # "live" /\ sub[c].state # "none") ~>
                        (told[c] \/ sub[c].state = "none")

\* A client that looks at the session is not held behind an old mark for ever, even
\* when control links break and come back in any order ("receives no output ever
\* again, without an error", handle_control_ws).
GateOpensAgain ==
    \A c \in Client : (Open(c) /\ sub[c].hidden /\ ~hide[c]) ~>
                        (~sub[c].hidden \/ hide[c] \/ ~Open(c))
=============================================================================
