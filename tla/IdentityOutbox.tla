--------------------------- MODULE IdentityOutbox ---------------------------
(***************************************************************************)
(* How the resume id of a session gets from the daemon, which detects it,  *)
(* to the row of launch_history that a later start resumes from.  WsEmitter*)
(* retains the event and broadcasts it to the control connections there    *)
(* are (ws_emitter.rs); the desktop pulls what is retained each time it    *)
(* connects, binds what it has not applied yet, and acknowledges           *)
(* (terminal_daemon_control_link.rs, resume_binding_service.rs); an        *)
(* acknowledged event is retained no longer.  A Codex session has its id   *)
(* from a scan of its files, which may find the id of a neighbour, and from*)
(* the title of its terminal, each once and in any order.                  *)
(***************************************************************************)
EXTENDS Naturals, Sequences, FiniteSets, SequencesExt, Selections

CONSTANTS
    Session,
    Retained,       \* MAX_RETAINED_IDENTITY_EVENTS
    Channel,        \* CONTROL_CHANNEL_CAPACITY
    MaxEvents,      \* bound: events
    MaxFaults,      \* bound: breaks of the link, restarts, pulls that fail
    BreakInBind,    \* may the link break while an id is being bound?
    PullFirst       \* may the pull overtake the daemon's subscription?

ASSUME CapacityAssumption == Retained \in Nat \ {0} /\ Channel \in Nat \ {0}
ASSUME BoundsAssumption == MaxEvents \in Nat /\ MaxFaults \in Nat
ASSUME EnvironmentAssumption == BreakInBind \in BOOLEAN /\ PullFirst \in BOOLEAN

Id == {"own", "neighbour"}
Source == {"scan", "title"}
Event == [s : Session, id : Id, source : Source]
Key == [s : Session, id : Id]
NoId == [id |-> "none", source |-> "none"]
Binding == [id : Id, source : Source] \cup {NoId}

VARIABLES
    emitted,    \* events detected so far
    retained,   \* identity_events, in `order`
    evicted,    \* history: sessions whose event was evicted
    link,       \* the control connection, as the desktop sees it: "down" or "up"
    subscribed, \* the daemon has subscribed the connection
    pulled,     \* the desktop has pulled over this connection
    missed,     \* history: sessions this connection has an event less of
    wire,       \* events on their way over the connection
    applied,    \* applied_identity of this process
    jobs,       \* tasks that bind: [todo, window], todo a sequence of events
    acks,       \* keys in ack_rx
    acking,     \* keys in acknowledgements on their way
    ended,      \* history: keys for which a bind has run to its end
    row,        \* the row of the launch: "none", "occupied" (by another PTY) or "mine"
    db,         \* its resume_session_id and resume_source
    faults

vars == <<emitted, retained, evicted, link, subscribed, pulled, missed, wire, applied, jobs,
          acks, acking, ended, row, db, faults>>
daemon == <<emitted, retained, evicted>>
connection == <<link, subscribed, pulled, missed, wire, acking>>
desktop == <<applied, jobs, acks>>
store == <<ended, row, db>>

----------------------------------------------------------------------------
(* Helpers.                                                                *)

KeyOf(e) == [s |-> e.s, id |-> e.id]

\* source_priority.
Priority(source) == CASE source = "title" -> 30 [] source = "scan" -> 10 [] source = "none" -> 0

\* should_retain_incoming.
ShouldRetain(old, new) ==
    \/ old = NoId
    \/ Priority(new.source) > Priority(old.source)
    \/ Priority(new.source) = Priority(old.source) /\ new.id # old.id

\* retain_identity_event.  A replaced event keeps its place in the order.
Kept(e) ==
    LET at == {i \in DOMAIN retained : retained[i].s = e.s} IN
    IF at = {} THEN Append(retained, e)
    ELSE LET i == CHOOSE i \in at : TRUE IN
         IF ShouldRetain(retained[i], e) THEN [retained EXCEPT ![i] = e] ELSE retained

\* Mutant of Overflow: one too late.
OverflowLate(kept) == IF Len(kept) > Retained + 1 THEN 1 ELSE 0

\* How many of the oldest go.
Overflow(kept) == IF Len(kept) > Retained THEN 1 ELSE 0

\* Mutant of Selected: the last write wins.
SelectedLast(s, e) == [id |-> e.id, source |-> e.source]

\* The binding the transaction selects.
Selected(s, e) ==
    IF ShouldRetain(db[s], e) THEN [id |-> e.id, source |-> e.source] ELSE db[s]

Detected(s) == {e \in emitted : e.s = s}

\* The most trusted of the events of s.
Best(s) == CHOOSE e \in Detected(s) :
              \A f \in Detected(s) : Priority(e.source) >= Priority(f.source)

Fault == faults < MaxFaults /\ faults' = faults + 1

----------------------------------------------------------------------------
Init ==
    /\ emitted = {}
    /\ retained = <<>>
    /\ evicted = {}
    /\ link = "down" /\ subscribed = FALSE /\ pulled = FALSE
    /\ missed = {} /\ wire = <<>>
    /\ applied = {}
    /\ jobs = <<>>
    /\ acks = {} /\ acking = {}
    /\ ended = {}
    /\ row \in [Session -> {"none", "occupied"}]
    /\ db = [s \in Session |-> NoId]
    /\ faults = 0

----------------------------------------------------------------------------
(* The daemon.                                                             *)

\* emit of TERMINAL_RESUME_ID_DETECTED: retained, then broadcast to those
\* who listen; a full channel drops it.
Detect(e) ==
    /\ Cardinality(emitted) < MaxEvents
    /\ \A f \in Detected(e.s) : f.source # e.source
    /\ e.source = "title" => e.id = "own"
    /\ emitted' = emitted \cup {e}
    /\ LET kept == Kept(e) IN
       /\ retained' = SubSeq(kept, Overflow(kept) + 1, Len(kept))
       /\ evicted' = evicted \cup {kept[i].s : i \in 1..Overflow(kept)}
    /\ wire' = IF subscribed /\ Len(wire) < Channel THEN Append(wire, e) ELSE wire
    /\ missed' = IF subscribed /\ Len(wire) = Channel THEN missed \cup {e.s} ELSE missed
    /\ UNCHANGED <<link, subscribed, pulled, acking, desktop, store, faults>>

\* subscribe_control, when the upgraded socket gets to its handler.
Subscribe ==
    /\ link = "up" /\ ~subscribed
    /\ subscribed' = TRUE
    /\ UNCHANGED <<daemon, link, pulled, missed, wire, acking, desktop, store, faults>>

\* Mutant of AckArrives: by session.
AckArrivesAnyId ==
    /\ acking # {}
    /\ retained' = Only(retained, {i \in DOMAIN retained : retained[i].s \notin {k.s : k \in acking}})
    /\ acking' = {}
    /\ UNCHANGED <<emitted, evicted, link, subscribed, pulled, missed, wire, desktop, store, faults>>

\* ack_identity_events: an event of another id stays.
AckArrives ==
    /\ acking # {}
    /\ retained' = Only(retained, {i \in DOMAIN retained : KeyOf(retained[i]) \notin acking})
    /\ acking' = {}
    /\ UNCHANGED <<emitted, evicted, link, subscribed, pulled, missed, wire, desktop, store, faults>>

----------------------------------------------------------------------------
(* The control link of the desktop.                                        *)

Connect ==
    /\ link = "down"
    /\ link' = "up"
    /\ UNCHANGED <<daemon, subscribed, pulled, missed, wire, acking, desktop, store, faults>>

\* Mutant of Pull: what was applied is acknowledged again, nothing is bound.
PullNothing ==
    /\ link = "up" /\ ~pulled
    /\ PullFirst \/ subscribed
    /\ pulled' = TRUE
    /\ acks' = acks \cup {k \in applied : \E i \in DOMAIN retained : KeyOf(retained[i]) = k}
    /\ UNCHANGED <<daemon, link, subscribed, missed, wire, acking, applied, jobs, store, faults>>

\* replay_identity_events: one task binds, in order, what this process has not
\* applied; what it has applied is acknowledged again.
Pull ==
    LET fresh == Only(retained, {i \in DOMAIN retained : KeyOf(retained[i]) \notin applied}) IN
    /\ link = "up" /\ ~pulled
    /\ PullFirst \/ subscribed
    /\ pulled' = TRUE
    /\ acks' = acks \cup {k \in applied : \E i \in DOMAIN retained : KeyOf(retained[i]) = k}
    /\ applied' = applied \cup {KeyOf(fresh[i]) : i \in DOMAIN fresh}
    /\ jobs' = IF fresh = <<>> THEN jobs ELSE Append(jobs, [todo |-> fresh, window |-> 1])
    /\ UNCHANGED <<daemon, link, subscribed, missed, wire, acking, store, faults>>

\* list_identity_events fails: not before the next connection again.
PullFails ==
    /\ link = "up" /\ ~pulled
    /\ Fault
    /\ pulled' = TRUE
    /\ missed' = Session
    /\ UNCHANGED <<daemon, link, subscribed, wire, acking, desktop, store>>

\* BindResume and apply_resume_binding: a task of its own binds the event.
Receive ==
    /\ pulled /\ wire # <<>>
    /\ wire' = Tail(wire)
    /\ applied' = applied \cup {KeyOf(Head(wire))}
    /\ jobs' = Append(jobs, [todo |-> <<Head(wire)>>, window |-> 1])
    /\ UNCHANGED <<daemon, link, subscribed, pulled, missed, acking, acks, store, faults>>

\* All acknowledgements that wait go into one message.
SendAcks ==
    /\ pulled /\ acks # {}
    /\ acking' = acking \cup acks
    /\ acks' = {}
    /\ UNCHANGED <<daemon, link, subscribed, pulled, missed, wire, applied, jobs, store, faults>>

Down ==
    /\ link' = "down" /\ subscribed' = FALSE /\ pulled' = FALSE
    /\ missed' = {} /\ wire' = <<>> /\ acking' = {}

\* The connection ends, with what was on its way.
Break ==
    /\ link = "up"
    /\ BreakInBind \/ jobs = <<>>
    /\ Fault
    /\ Down
    /\ UNCHANGED <<daemon, desktop, store>>

\* The desktop ends, its tasks with it, and starts again.
Restart ==
    /\ Fault
    /\ Down
    /\ applied' = {} /\ jobs' = <<>> /\ acks' = {}
    /\ UNCHANGED <<daemon, store>>

----------------------------------------------------------------------------
(* The tasks that bind (bind_resume_id).                                   *)

\* The create side adds the row of this PTY, or claims the one of its launch.
RowAdded(s) ==
    /\ row[s] # "mine"
    /\ row' = [row EXCEPT ![s] = "mine"]
    /\ UNCHANGED <<daemon, connection, desktop, ended, db, faults>>

\* The bind of the first event of task j has run to its end: acknowledge it.
Ends(j) ==
    LET e == Head(jobs[j].todo) IN
    /\ ended' = ended \cup {KeyOf(e)}
    /\ acks' = acks \cup {KeyOf(e)}
    /\ jobs' = IF Len(jobs[j].todo) = 1 THEN RemoveAt(jobs, j)
               ELSE [jobs EXCEPT ![j] = [todo |-> Tail(jobs[j].todo), window |-> 1]]

\* bind_by_pty_window finds the row.
BindByPty(j) ==
    LET e == Head(jobs[j].todo) IN
    /\ row[e.s] = "mine"
    /\ db' = [db EXCEPT ![e.s] = Selected(e.s, e)]
    /\ Ends(j)
    /\ UNCHANGED <<daemon, connection, applied, row, faults>>

\* The window has passed without a row: upsert_missing_row makes one.
UpsertMissing(j) ==
    LET e == Head(jobs[j].todo) IN
    /\ row[e.s] = "none" /\ jobs[j].window = 1
    /\ row' = [row EXCEPT ![e.s] = "mine"]
    /\ db' = [db EXCEPT ![e.s] = Selected(e.s, e)]
    /\ Ends(j)
    /\ UNCHANGED <<daemon, connection, applied, faults>>

\* RowOccupied: the second window.
SecondWindow(j) ==
    /\ row[Head(jobs[j].todo).s] = "occupied" /\ jobs[j].window = 1
    /\ jobs' = [jobs EXCEPT ![j].window = 2]
    /\ UNCHANGED <<daemon, connection, applied, acks, store, faults>>

\* The second window has passed as well: no record, acknowledged all the same.
GiveUp(j) ==
    /\ row[Head(jobs[j].todo).s] # "mine" /\ jobs[j].window = 2
    /\ Ends(j)
    /\ UNCHANGED <<daemon, connection, applied, row, db, faults>>

Bind(j) == BindByPty(j) \/ UpsertMissing(j) \/ SecondWindow(j) \/ GiveUp(j)

----------------------------------------------------------------------------
SomeBind == \E j \in DOMAIN jobs : Bind(j)

Next ==
    \/ \E e \in Event : Detect(e)
    \/ Subscribe \/ AckArrives
    \/ Connect \/ Pull \/ PullFails \/ Receive \/ SendAcks \/ Break \/ Restart
    \/ \E s \in Session : RowAdded(s)
    \/ SomeBind

Spec == Init /\ [][Next]_vars

\* The link reconnects for ever, its loop takes what comes, each task runs on.
FairSpec ==
    /\ Spec
    /\ WF_vars(Subscribe) /\ WF_vars(AckArrives) /\ WF_vars(Connect) /\ WF_vars(Pull)
    /\ WF_vars(Receive) /\ WF_vars(SendAcks)
    /\ WF_vars(SomeBind)

----------------------------------------------------------------------------
(* Properties.                                                             *)

\* Typing; one retained event per session, and no more than the store holds.
TypeOK ==
    /\ emitted \subseteq Event
    /\ retained \in Seq(emitted) /\ Len(retained) <= Retained
    /\ \A i, j \in DOMAIN retained : retained[i].s = retained[j].s => i = j
    /\ evicted \subseteq Session
    /\ link \in {"down", "up"} /\ subscribed \in BOOLEAN /\ pulled \in BOOLEAN
    /\ missed \subseteq Session
    /\ wire \in Seq(emitted) /\ Len(wire) <= Channel
    /\ applied \subseteq Key /\ acks \subseteq applied /\ acking \subseteq applied
    /\ jobs \in Seq([todo : Seq(emitted) \ {<<>>}, window : 1..2])
    /\ ended \subseteq Key
    /\ row \in [Session -> {"none", "occupied", "mine"}]
    /\ db \in [Session -> Binding]
    /\ faults \in 0..MaxFaults

\* The row holds the most trusted id, or the bind of it has run to its end.
Handled(s) ==
    Detected(s) # {} /\ (db[s].id = Best(s).id \/ KeyOf(Best(s)) \in ended)

\* Through restarts, lost broadcasts and lost or late acknowledgements, the
\* most trusted id of a session stays retained until its bind has run to the
\* end (ws_emitter.rs: an acknowledgement says the event was consumed), unless
\* the store overflowed.
KeptUntilHandled ==
    \A s \in Session : Detected(s) # {} =>
        \/ s \in evicted
        \/ Handled(s)
        \/ \E i \in DOMAIN retained : KeyOf(retained[i]) = KeyOf(Best(s))

\* Whatever the order in which tasks reach the row, a binding gives way only
\* to one at least as trusted.
NeverDowngraded ==
    [][\A s \in Session : Priority(db'[s].source) >= Priority(db[s].source)]_vars

\* Every detected id reaches the database, or its bind gives up, unless the
\* store overflows, or the channel does or the pull fails and the link stays up.
DetectedIsHandled ==
    \A s \in Session :
        (Detected(s) # {}) ~> (s \in evicted \cup missed \/ Handled(s))
=============================================================================
