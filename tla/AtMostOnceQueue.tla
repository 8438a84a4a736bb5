--------------------------- MODULE AtMostOnceQueue ---------------------------
(***************************************************************************)
(* What the task queue promises, without tables, claims or a worker: tasks *)
(* wait in arrival order, a task reaches its terminal at most once for     *)
(* each time the user asked for it, and never before an older task of the  *)
(* same session that is still waiting.                                     *)
(***************************************************************************)
EXTENDS Naturals

CONSTANTS Sessions, Items

VARIABLES
    home,    \* the session of every task that is still in a queue
    older,   \* for every task ever added, the tasks it queued up behind
    armed,   \* the tasks that may be written once more
    asked,   \* how often the user asked for each task again
    written  \* how often each task was written

vars == <<home, older, armed, asked, written>>

Waiting(s) == {i \in DOMAIN home : home[i] = s}

Init ==
    /\ home = [i \in {} |-> {}]
    /\ older = [i \in {} |-> {}]
    /\ armed = {}
    /\ asked = [i \in Items |-> 0]
    /\ written = [i \in Items |-> 0]

Add(s, i) ==
    /\ i \notin DOMAIN older
    /\ home' = [j \in DOMAIN home \cup {i} |-> IF j = i THEN s ELSE home[j]]
    /\ older' = [j \in DOMAIN older \cup {i} |-> IF j = i THEN Waiting(s) ELSE older[j]]
    /\ armed' = armed \cup {i}
    /\ UNCHANGED <<asked, written>>

\* Tasks leave: deleted, cleared, or done.
Leave(gone) ==
    /\ gone \subseteq DOMAIN home
    /\ home' = [j \in DOMAIN home \ gone |-> home[j]]
    /\ armed' = armed \ gone
    /\ UNCHANGED <<older, asked, written>>

\* The only step that writes: the oldest task of its session, if armed.
Write(i) ==
    /\ i \in armed
    /\ older[i] \cap Waiting(home[i]) = {}
    /\ written' = [written EXCEPT ![i] = @ + 1]
    /\ armed' = armed \ {i}
    /\ UNCHANGED <<home, older, asked>>

\* Tasks are given up until the user asks again: a failure, or doubt.
Disarm(given) ==
    /\ armed' = armed \ given
    /\ UNCHANGED <<home, older, asked, written>>

Ask(i) ==
    /\ i \in DOMAIN home
    /\ armed' = armed \cup {i}
    /\ asked' = [asked EXCEPT ![i] = @ + 1]
    /\ UNCHANGED <<home, older, written>>

Next ==
    \/ \E s \in Sessions, i \in Items : Add(s, i)
    \/ \E gone \in SUBSET DOMAIN home : Leave(gone)
    \/ \E given \in SUBSET armed : Disarm(given)
    \/ \E i \in Items : Write(i) \/ Ask(i)

Spec == Init /\ [][Next]_vars
=============================================================================
