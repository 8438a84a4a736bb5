---------------------------- MODULE SessionLease ----------------------------
(***************************************************************************)
(* Who may write to a session of the daemon, and when the daemon may kill  *)
(* it.  Several application instances share one daemon.  The daemon keeps  *)
(* the leases (session_claims, server.rs), the birth evidence of the live  *)
(* sessions and the time of their last use; an instance keeps the set of   *)
(* the sessions it believes it owns and renews them from a thread of its   *)
(* own (DaemonTerminalBackend, terminal_backend.rs); the reaper of the     *)
(* daemon (session_reaper.rs) kills the sessions nobody uses.              *)
(*                                                                         *)
(* Time is not counted: a lease lapses, a last use becomes older than the  *)
(* TTL and a session falls silent in actions of their own, at any moment.  *)
(***************************************************************************)
EXTENDS Naturals

CONSTANTS
    Instance,      \* application instances that share the daemon
    Session,       \* session identifiers
    Reaper,        \* the reaper, as one of those who check before they act
    NoOne,         \* no owner
    NoSession,     \* no session
    MaxCommands,   \* bound: user commands begun, over all instances
    MaxFaults      \* bound: leases that lapse, requests that fail, crashes

ASSUME DistinctAssumption == /\ {NoOne, Reaper} \cap Instance = {}
                             /\ NoSession \notin Session
ASSUME BoundsAssumption == MaxCommands \in Nat /\ MaxFaults \in Nat

VARIABLES
    life,        \* life[s]: "unborn", "live" (in the sessions map) or "dead"
    claim,       \* claim[s]: the owner in session_claims, NoOne if no entry
    lapsed,      \* the sessions whose claim entry is past expires_at
    evidence,    \* the keys of session_provenance
    used,        \* used[s]: last_activity, "never" (no entry), "recent" or "old"
    viewers,     \* viewers[s]: the instances with an open WebSocket on s
    still,       \* sessions with an unprotected status and no output for a TTL
    publishing,  \* the session whose creation holds session_visibility
    sweep,       \* the reaper's thread: its stage, what it read and its victim
    owned,       \* owned[i]: the keys of owned_sessions
    renew,       \* renew[i][s]: where the renewal of s by i is
    cmd,         \* cmd[i]: the user command of i under way
    left,        \* left[s]: instances that released s and did not ask again
    overtaken,   \* history: actors between check and act, overtaken by a new holder
    commands,    \* commands begun so far
    faults       \* faults so far

vars == <<life, claim, lapsed, evidence, used, viewers, still, publishing, sweep,
          owned, renew, cmd, left, overtaken, commands, faults>>

----------------------------------------------------------------------------
(* Helpers.                                                                *)

\* session_claim_owner: the owner while the lease is live, else nobody.
ClaimOwner(s) == IF s \in lapsed THEN NoOne ELSE claim[s]

\* may_write_session for a caller that names itself.
MayWrite(i, s) == ClaimOwner(s) \in {NoOne, i}

\* A session somebody holds: a live lease or an open socket.
Held(s) == ClaimOwner(s) # NoOne \/ viewers[s] # {}

NoCmd == [op |-> "idle", s |-> NoSession]
Asleep == [at |-> "sleep", list |-> {}, quiet |-> {}, old |-> {}, seen |-> {},
           todo |-> {}, victim |-> NoSession]

\* remove_session_activity: what it forgets of the sessions in S.
Forget(S) ==
    /\ claim' = [s \in Session |-> IF s \in S THEN NoOne ELSE claim[s]]
    /\ lapsed' = lapsed \ S
    /\ evidence' = evidence \ S
    /\ used' = [s \in Session |-> IF s \in S THEN "never" ELSE used[s]]

Touch(s) == used' = [used EXCEPT ![s] = "recent"]

\* try_claim_session when it succeeds, and the touch_session that follows.
\* Whoever checked s before and has not acted yet is overtaken.
Grant(i, s) ==
    /\ claim' = [claim EXCEPT ![s] = i]
    /\ lapsed' = lapsed \ {s}
    /\ Touch(s)
    /\ overtaken' = overtaken
         \cup {j \in Instance \ {i} : cmd[j].s = s /\ cmd[j].op \in {"write", "kill"}}
         \cup {r \in {Reaper} : sweep.victim = s}

\* s leaves owned_sessions: the lease that a renewal holds is no longer the
\* one in the map (its Arc::ptr_eq test will fail).
Disown(i, s) ==
    /\ owned' = [owned EXCEPT ![i] = @ \ {s}]
    /\ renew' = [renew EXCEPT ![i][s] = IF @ = "taken" THEN "stale"
                                        ELSE IF @ = "sending" THEN "loose" ELSE @]

\* Requests wait for the creation that holds the visibility lock.
Visible == publishing = NoSession

Begin(i, op, s) ==
    /\ cmd[i] = NoCmd
    /\ commands < MaxCommands
    /\ commands' = commands + 1
    /\ cmd' = [cmd EXCEPT ![i] = [op |-> op, s |-> s]]

At(i, op) == cmd[i].op = op
Goto(i, op) == cmd' = [cmd EXCEPT ![i].op = op]
End(i) == cmd' = [cmd EXCEPT ![i] = NoCmd]

Fault == faults < MaxFaults /\ faults' = faults + 1

----------------------------------------------------------------------------
Init ==
    /\ life = [s \in Session |-> "unborn"]
    /\ claim = [s \in Session |-> NoOne]
    /\ lapsed = {}
    /\ evidence = {}
    /\ used = [s \in Session |-> "never"]
    /\ viewers = [s \in Session |-> {}]
    /\ still = {}
    /\ publishing = NoSession
    /\ sweep = Asleep
    /\ owned = [i \in Instance |-> {}]
    /\ renew = [i \in Instance |-> [s \in Session |-> "idle"]]
    /\ cmd = [i \in Instance |-> NoCmd]
    /\ left = [s \in Session |-> {}]
    /\ overtaken = {}
    /\ commands = 0
    /\ faults = 0

----------------------------------------------------------------------------
(* Creation.  The publisher takes the visibility lock, registers the       *)
(* session, then writes claim, evidence and last use; the reaper does not  *)
(* take that lock.                                                         *)

PublishRegister(i, s) ==
    /\ Visible
    /\ life[s] = "unborn"
    /\ Begin(i, "publish", s)
    /\ life' = [life EXCEPT ![s] = "live"]
    /\ publishing' = s
    /\ UNCHANGED <<claim, lapsed, evidence, used, viewers, still, sweep, owned, renew,
                   left, overtaken, faults>>

PublishEvidence(i) ==
    LET s == cmd[i].s IN
    /\ At(i, "publish")
    /\ Grant(i, s)
    /\ evidence' = evidence \cup {s}
    /\ publishing' = NoSession
    /\ Goto(i, "claim")
    /\ UNCHANGED <<life, viewers, still, sweep, owned, renew, left, commands, faults>>

----------------------------------------------------------------------------
(* Claiming.  adopt_session, and the claim that follows a creation: the    *)
(* request, then owned_sessions.                                           *)

\* adopt_session begins.
AdoptBegin(i, s) ==
    /\ life[s] # "unborn"
    /\ Begin(i, "claim", s)
    /\ left' = [left EXCEPT ![s] = @ \ {i}]
    /\ UNCHANGED <<life, claim, lapsed, evidence, used, viewers, still, publishing, sweep,
                   owned, renew, overtaken, faults>>

\* The restore of a saved session that is still live claims it under the lock
\* (reuse_expected_session); the client then claims it as after a creation.
Restore(i, s) ==
    /\ Visible
    /\ life[s] = "live"
    /\ s \in evidence
    /\ MayWrite(i, s)
    /\ Begin(i, "claim", s)
    /\ Grant(i, s)
    /\ left' = [left EXCEPT ![s] = @ \ {i}]
    /\ UNCHANGED <<life, evidence, viewers, still, publishing, sweep, owned, renew, faults>>

\* The claim handler grants: the session exists (a dead one is still found for
\* five minutes) and nobody else holds it.
ClaimGranted(i) ==
    LET s == cmd[i].s IN
    /\ Visible
    /\ At(i, "claim")
    /\ MayWrite(i, s)
    /\ Grant(i, s)
    /\ Goto(i, "granted")
    /\ UNCHANGED <<life, evidence, viewers, still, publishing, sweep, owned, renew, left,
                   commands, faults>>

\* It refuses (held by another, or no such session any more).
ClaimRefused(i) ==
    /\ Visible
    /\ At(i, "claim")
    /\ ~MayWrite(i, cmd[i].s) \/ life[cmd[i].s] = "dead"
    /\ End(i)
    /\ UNCHANGED <<life, claim, lapsed, evidence, used, viewers, still, publishing, sweep,
                   owned, renew, left, overtaken, commands, faults>>

\* The answer does not arrive: granted or not, nothing is remembered.
ClaimLost(i) ==
    LET s == cmd[i].s IN
    /\ Visible
    /\ At(i, "claim")
    /\ Fault
    /\ \/ MayWrite(i, s) /\ Grant(i, s)
       \/ UNCHANGED <<claim, lapsed, used, overtaken>>
    /\ End(i)
    /\ UNCHANGED <<life, evidence, viewers, still, publishing, sweep, owned, renew, left, commands>>

\* remember_owned: an entry that is there is kept.
Remember(i) ==
    /\ At(i, "granted")
    /\ owned' = [owned EXCEPT ![i] = @ \cup {cmd[i].s}]
    /\ End(i)
    /\ UNCHANGED <<life, claim, lapsed, evidence, used, viewers, still, publishing, sweep,
                   renew, left, overtaken, commands, faults>>

----------------------------------------------------------------------------
(* Releasing (release_owned): the lease is read from owned_sessions, its   *)
(* gate is taken, the entry is removed if it is still that lease, and the  *)
(* daemon is told, all under the gate.                                     *)

ReleaseBegin(i, s) ==
    /\ life[s] # "unborn"
    /\ Begin(i, IF s \in owned[i] THEN "gate" ELSE "tell", s)
    /\ UNCHANGED <<life, claim, lapsed, evidence, used, viewers, still, publishing, sweep,
                   owned, renew, left, overtaken, faults>>

\* A renewal under this lease that is being answered holds the gate.
ReleaseGate(i) ==
    LET s == cmd[i].s IN
    /\ At(i, "gate")
    /\ renew[i][s] # "sending"
    /\ Disown(i, s)
    /\ Goto(i, "tell")
    /\ UNCHANGED <<life, claim, lapsed, evidence, used, viewers, still, publishing, sweep,
                   left, overtaken, commands, faults>>

\* release_session_claim of the daemon: the owner's entry, or a lapsed one, goes.
ReleaseTell(i) ==
    LET s == cmd[i].s IN
    /\ Visible
    /\ At(i, "tell")
    /\ IF claim[s] = i \/ s \in lapsed
       THEN claim' = [claim EXCEPT ![s] = NoOne] /\ lapsed' = lapsed \ {s}
       ELSE UNCHANGED <<claim, lapsed>>
    /\ left' = [left EXCEPT ![s] = @ \cup {i}]
    /\ End(i)
    /\ UNCHANGED <<life, evidence, used, viewers, still, publishing, sweep, owned, renew,
                   overtaken, commands, faults>>

\* The request fails: the lease stays until it lapses.
ReleaseFails(i) ==
    /\ At(i, "tell")
    /\ Fault
    /\ End(i)
    /\ UNCHANGED <<life, claim, lapsed, evidence, used, viewers, still, publishing, sweep,
                   owned, renew, left, overtaken, commands>>

----------------------------------------------------------------------------
(* Renewing.  A round takes a snapshot of owned_sessions; each renewal     *)
(* takes its lease's gate and claims only while the lease is still in the  *)
(* map; the answers are handled after the gate is released.                *)

RenewRound(i) ==
    /\ owned[i] # {}
    /\ \A s \in Session : renew[i][s] = "idle"
    /\ renew' = [renew EXCEPT ![i] = [s \in Session |-> IF s \in owned[i] THEN "taken" ELSE "idle"]]
    /\ UNCHANGED <<life, claim, lapsed, evidence, used, viewers, still, publishing, sweep,
                   owned, cmd, left, overtaken, commands, faults>>

\* Mutant of RenewEnter: the lease in the map is not compared.
RenewEnterBlindly(i, s) ==
    /\ renew[i][s] \in {"taken", "stale"}
    /\ renew' = [renew EXCEPT ![i][s] = "sending"]
    /\ UNCHANGED <<life, claim, lapsed, evidence, used, viewers, still, publishing, sweep,
                   owned, cmd, left, overtaken, commands, faults>>

\* The gate is free and the lease still in the map, or the renewal gives up.
RenewEnter(i, s) ==
    /\ renew[i][s] \in {"taken", "stale"}
    /\ renew' = [renew EXCEPT ![i][s] = IF @ = "taken" THEN "sending" ELSE "idle"]
    /\ UNCHANGED <<life, claim, lapsed, evidence, used, viewers, still, publishing, sweep,
                   owned, cmd, left, overtaken, commands, faults>>

RenewGranted(i, s) ==
    /\ Visible
    /\ renew[i][s] \in {"sending", "loose"}
    /\ MayWrite(i, s)
    /\ Grant(i, s)
    /\ renew' = [renew EXCEPT ![i][s] = "idle"]
    /\ UNCHANGED <<life, evidence, viewers, still, publishing, sweep, owned, cmd, left,
                   commands, faults>>

RenewRefused(i, s) ==
    /\ Visible
    /\ renew[i][s] \in {"sending", "loose"}
    /\ ~MayWrite(i, s) \/ life[s] = "dead"
    /\ renew' = [renew EXCEPT ![i][s] = "refused"]
    /\ UNCHANGED <<life, claim, lapsed, evidence, used, viewers, still, publishing, sweep,
                   owned, cmd, left, overtaken, commands, faults>>

\* The request fails: the next round tries again.
RenewFails(i, s) ==
    /\ renew[i][s] \in {"sending", "loose"}
    /\ Fault
    /\ renew' = [renew EXCEPT ![i][s] = "idle"]
    /\ UNCHANGED <<life, claim, lapsed, evidence, used, viewers, still, publishing, sweep,
                   owned, cmd, left, overtaken, commands>>

\* Mutant of RenewDrop: the refusal is only logged.
RenewDropNothing(i, s) ==
    /\ renew[i][s] = "refused"
    /\ renew' = [renew EXCEPT ![i][s] = "idle"]
    /\ UNCHANGED <<life, claim, lapsed, evidence, used, viewers, still, publishing, sweep,
                   owned, cmd, left, overtaken, commands, faults>>

\* A refused renewal drops the session to read-only; it does not look at the
\* lease again.
RenewDrop(i, s) ==
    /\ renew[i][s] = "refused"
    /\ owned' = [owned EXCEPT ![i] = @ \ {s}]
    /\ renew' = [renew EXCEPT ![i][s] = "idle"]
    /\ UNCHANGED <<life, claim, lapsed, evidence, used, viewers, still, publishing, sweep,
                   cmd, left, overtaken, commands, faults>>

----------------------------------------------------------------------------
(* Writing and killing.  The handler checks the lease under the visibility *)
(* lock, drops the lock and then acts on a blocking thread.                *)

WriteCheck(i, s) ==
    /\ Visible
    /\ life[s] = "live"
    /\ MayWrite(i, s)
    /\ Begin(i, "write", s)
    /\ Touch(s)
    /\ UNCHANGED <<life, claim, lapsed, evidence, viewers, still, publishing, sweep, owned,
                   renew, left, overtaken, faults>>

WriteAct(i) ==
    /\ At(i, "write")
    /\ overtaken' = overtaken \ {i}
    /\ End(i)
    /\ UNCHANGED <<life, claim, lapsed, evidence, used, viewers, still, publishing, sweep,
                   owned, renew, left, commands, faults>>

KillCheck(i, s) ==
    /\ Visible
    /\ life[s] = "live"
    /\ MayWrite(i, s)
    /\ Begin(i, "kill", s)
    /\ UNCHANGED <<life, claim, lapsed, evidence, used, viewers, still, publishing, sweep,
                   owned, renew, left, overtaken, faults>>

\* kill_with_reason; a session that is gone already is an error and ends it.
KillAct(i) ==
    LET s == cmd[i].s IN
    /\ At(i, "kill")
    /\ life' = [life EXCEPT ![s] = "dead"]
    /\ IF life[s] = "live" THEN Goto(i, "killed") ELSE End(i)
    /\ overtaken' = overtaken \ {i}
    /\ UNCHANGED <<claim, lapsed, evidence, used, viewers, still, publishing, sweep, owned,
                   renew, left, commands, faults>>

\* remove_session_activity, the answer, and owned_sessions without its gate.
KillForget(i) ==
    /\ At(i, "killed")
    /\ Forget({cmd[i].s})
    /\ Disown(i, cmd[i].s)
    /\ End(i)
    /\ UNCHANGED <<life, viewers, still, publishing, sweep, left, overtaken, commands, faults>>

----------------------------------------------------------------------------
(* Viewing, and the session itself.                                        *)

\* handle_ws: the session is touched and the socket subscribed.
ViewOpen(i, s) ==
    /\ Visible
    /\ life[s] = "live"
    /\ i \notin viewers[s]
    /\ commands < MaxCommands
    /\ commands' = commands + 1
    /\ Touch(s)
    /\ viewers' = [viewers EXCEPT ![s] = @ \cup {i}]
    /\ overtaken' = overtaken \cup {r \in {Reaper} : sweep.victim = s}
    /\ UNCHANGED <<life, claim, lapsed, evidence, still, publishing, sweep, owned, renew,
                   cmd, left, faults>>

ViewClose(i, s) ==
    /\ i \in viewers[s]
    /\ viewers' = [viewers EXCEPT ![s] = @ \ {i}]
    /\ UNCHANGED <<life, claim, lapsed, evidence, used, still, publishing, sweep, owned,
                   renew, cmd, left, overtaken, commands, faults>>

\* The process ends by itself and the wait thread removes the session.
Exit(s) ==
    /\ life[s] = "live"
    /\ publishing # s
    /\ life' = [life EXCEPT ![s] = "dead"]
    /\ UNCHANGED <<claim, lapsed, evidence, used, viewers, still, publishing, sweep, owned,
                   renew, cmd, left, overtaken, commands, faults>>

\* Output stops for a TTL in an unprotected status, or comes back.
FallSilent(s) ==
    /\ life[s] = "live"
    /\ publishing # s
    /\ s \notin still
    /\ still' = still \cup {s}
    /\ UNCHANGED <<life, claim, lapsed, evidence, used, viewers, publishing, sweep, owned,
                   renew, cmd, left, overtaken, commands, faults>>

Speak(s) ==
    /\ life[s] = "live"
    /\ s \in still
    /\ still' = still \ {s}
    /\ UNCHANGED <<life, claim, lapsed, evidence, used, viewers, publishing, sweep, owned,
                   renew, cmd, left, overtaken, commands, faults>>

\* A TTL passes without a use.
GrowOld(s) ==
    /\ used[s] = "recent"
    /\ used' = [used EXCEPT ![s] = "old"]
    /\ UNCHANGED <<life, claim, lapsed, evidence, viewers, still, publishing, sweep, owned,
                   renew, cmd, left, overtaken, commands, faults>>

\* A lease passes expires_at: its owner stopped renewing, or was suspended.
Lapse(s) ==
    /\ ClaimOwner(s) # NoOne
    /\ \/ s \notin owned[claim[s]] /\ UNCHANGED faults
       \/ s \in owned[claim[s]] /\ Fault
    /\ lapsed' = lapsed \cup {s}
    /\ UNCHANGED <<life, claim, evidence, used, viewers, still, publishing, sweep, owned,
                   renew, cmd, left, overtaken, commands>>

\* get_adoption_snapshot: lapsed claims, and what dead sessions left, go.
AdoptionSnapshot ==
    /\ Visible
    /\ LET dead == {s \in Session : life[s] # "live"} IN
       /\ claim' = [s \in Session |-> IF s \in dead \cup lapsed THEN NoOne ELSE claim[s]]
       /\ lapsed' = {}
       /\ evidence' = evidence \ dead
    /\ UNCHANGED <<life, used, viewers, still, publishing, sweep, owned, renew, cmd, left,
                   overtaken, commands, faults>>

\* An instance dies: its sockets close; what the daemon does for it goes on
\* without the part that follows the blocking call.
Crash(i) ==
    /\ Fault
    /\ cmd[i].op # "publish"
    /\ viewers' = [s \in Session |-> viewers[s] \ {i}]
    /\ owned' = [owned EXCEPT ![i] = {}]
    /\ renew' = [renew EXCEPT ![i] = [s \in Session |-> "idle"]]
    /\ End(i)
    /\ overtaken' = overtaken \ {i}
    /\ left' = [s \in Session |-> left[s] \ {i}]
    /\ UNCHANGED <<life, claim, lapsed, evidence, used, still, publishing, sweep, commands>>

----------------------------------------------------------------------------
(* The reaper.                                                             *)

Reaping == UNCHANGED <<publishing, owned, renew, cmd, left, commands, faults, viewers, still>>

\* get_all_status.
SweepList ==
    /\ sweep.at = "sleep"
    /\ LET live == {s \in Session : life[s] = "live"} IN
       sweep' = [sweep EXCEPT !.at = "listed", !.list = live, !.quiet = live \cap still]
    /\ UNCHANGED <<life, claim, lapsed, evidence, used, overtaken>> /\ Reaping

\* session_activity_snapshot; what is not in the list is forgotten.
SweepActivity ==
    /\ sweep.at = "listed"
    /\ LET known == {s \in Session : used[s] # "never"} IN
       /\ sweep' = [sweep EXCEPT !.at = "noted", !.seen = known \cap sweep.list,
                      !.old = {s \in sweep.list : used[s] = "old"}]
       /\ Forget(known \ sweep.list)
    /\ UNCHANGED <<life, overtaken>> /\ Reaping

\* The entries and select_expired: a session seen first is registered now.
SweepSelect ==
    /\ sweep.at = "noted"
    /\ used' = [s \in Session |-> IF s \in sweep.list \ sweep.seen THEN "recent" ELSE used[s]]
    /\ sweep' = [Asleep EXCEPT !.at = "next",
                   !.todo = {s \in sweep.old \cap sweep.quiet : ~Held(s)}]
    /\ UNCHANGED <<life, claim, lapsed, evidence, overtaken>> /\ Reaping

\* Mutant of SweepLook: the selection is trusted.
SweepLookBlindly(s) ==
    /\ sweep.at = "next"
    /\ s \in sweep.todo
    /\ sweep' = [sweep EXCEPT !.todo = @ \ {s}, !.at = "used", !.victim = s]
    /\ overtaken' = overtaken \ {Reaper}
    /\ UNCHANGED <<life, claim, lapsed, evidence, used>> /\ Reaping

\* The next victim is looked at again: a holder spares it, so does a recent use.
SweepLook(s) ==
    /\ sweep.at = "next"
    /\ s \in sweep.todo
    /\ sweep' = [sweep EXCEPT !.todo = @ \ {s},
                   !.at = IF Held(s) THEN "next" ELSE "used",
                   !.victim = IF Held(s) THEN NoSession ELSE s]
    /\ overtaken' = overtaken \ {Reaper}
    /\ UNCHANGED <<life, claim, lapsed, evidence, used>> /\ Reaping

\* Mutant of Spare: the victim is not reset.
SpareKeepsVictim == [sweep EXCEPT !.at = "next"]

Spare == [sweep EXCEPT !.at = "next", !.victim = NoSession]

\* Mutant of SweepUsed: any use on record spares, however old.
SweepUsedEver ==
    /\ sweep.at = "used"
    /\ sweep' = IF used[sweep.victim] # "never" THEN Spare ELSE [sweep EXCEPT !.at = "fresh"]
    /\ UNCHANGED <<life, claim, lapsed, evidence, used, overtaken>> /\ Reaping

SweepUsed ==
    /\ sweep.at = "used"
    /\ sweep' = IF used[sweep.victim] = "recent" THEN Spare ELSE [sweep EXCEPT !.at = "fresh"]
    /\ UNCHANGED <<life, claim, lapsed, evidence, used, overtaken>> /\ Reaping

\* get_session_status once more: gone, protected or talking spares it.
SweepFresh ==
    /\ sweep.at = "fresh"
    /\ sweep' = IF life[sweep.victim] = "live" /\ sweep.victim \in still
                THEN [sweep EXCEPT !.at = "kill"] ELSE Spare
    /\ UNCHANGED <<life, claim, lapsed, evidence, used, overtaken>> /\ Reaping

\* kill_with_reason; a session that is gone by then is skipped.
SweepKill ==
    /\ sweep.at = "kill"
    /\ life' = [life EXCEPT ![sweep.victim] = "dead"]
    /\ sweep' = IF life[sweep.victim] = "live" THEN [sweep EXCEPT !.at = "forget"] ELSE Spare
    /\ UNCHANGED <<claim, lapsed, evidence, used, overtaken>> /\ Reaping

SweepForget ==
    /\ sweep.at = "forget"
    /\ Forget({sweep.victim})
    /\ sweep' = Spare
    /\ UNCHANGED <<life, overtaken>> /\ Reaping

SweepEnd ==
    /\ sweep.at = "next"
    /\ sweep.todo = {}
    /\ sweep' = Asleep
    /\ overtaken' = overtaken \ {Reaper}
    /\ UNCHANGED <<life, claim, lapsed, evidence, used>> /\ Reaping

----------------------------------------------------------------------------
Sweep ==
    \/ SweepList \/ SweepActivity \/ SweepSelect \/ SweepUsed \/ SweepFresh
    \/ SweepKill \/ SweepForget \/ SweepEnd
    \/ \E s \in Session : SweepLook(s)

Request(i) ==
    \/ PublishEvidence(i) \/ ClaimGranted(i) \/ ClaimRefused(i) \/ Remember(i)
    \/ ReleaseGate(i) \/ ReleaseTell(i) \/ WriteAct(i) \/ KillAct(i) \/ KillForget(i)

Renewal(i) ==
    \/ RenewRound(i)
    \/ \E s \in Session : \/ RenewEnter(i, s) \/ RenewGranted(i, s)
                          \/ RenewRefused(i, s) \/ RenewDrop(i, s)

User(i, s) ==
    \/ PublishRegister(i, s) \/ AdoptBegin(i, s) \/ Restore(i, s) \/ ReleaseBegin(i, s)
    \/ WriteCheck(i, s) \/ KillCheck(i, s) \/ ViewOpen(i, s) \/ ViewClose(i, s)

Failure ==
    \/ \E i \in Instance : ClaimLost(i) \/ ReleaseFails(i) \/ Crash(i)
    \/ \E i \in Instance, s \in Session : RenewFails(i, s)

Next ==
    \/ Sweep \/ Failure \/ AdoptionSnapshot
    \/ \E i \in Instance : Request(i) \/ Renewal(i)
    \/ \E i \in Instance, s \in Session : User(i, s)
    \/ \E s \in Session : Exit(s) \/ FallSilent(s) \/ Speak(s) \/ GrowOld(s) \/ Lapse(s)

Spec == Init /\ [][Next]_vars

\* The threads run, requests are answered, and time passes.
FairSpec ==
    /\ Spec
    /\ WF_vars(Sweep)
    /\ \A i \in Instance : WF_vars(Request(i)) /\ WF_vars(Renewal(i))
    /\ \A s \in Session : WF_vars(GrowOld(s)) /\ WF_vars(Lapse(s))

----------------------------------------------------------------------------
(* Properties.                                                             *)

\* Typing, and what the stages of a sweep and of a command imply.
TypeOK ==
    /\ life \in [Session -> {"unborn", "live", "dead"}]
    /\ claim \in [Session -> Instance \cup {NoOne}]
    /\ lapsed \subseteq {s \in Session : claim[s] # NoOne}
    /\ evidence \subseteq Session
    /\ used \in [Session -> {"never", "recent", "old"}]
    /\ viewers \in [Session -> SUBSET Instance]
    /\ still \subseteq Session
    /\ publishing \in Session \cup {NoSession}
    /\ sweep \in [at : {"sleep", "listed", "noted", "next", "used", "fresh", "kill", "forget"},
                  list : SUBSET Session, quiet : SUBSET Session, old : SUBSET Session,
                  seen : SUBSET Session, todo : SUBSET Session,
                  victim : Session \cup {NoSession}]
    /\ owned \in [Instance -> SUBSET Session]
    /\ renew \in [Instance -> [Session ->
                  {"idle", "taken", "stale", "sending", "loose", "refused"}]]
    /\ cmd \in [Instance -> [op : {"idle", "publish", "claim", "granted", "gate", "tell",
                                  "write", "kill", "killed"},
                            s : Session \cup {NoSession}]]
    /\ left \in [Session -> SUBSET Instance]
    /\ overtaken \subseteq Instance \cup {Reaper}
    /\ commands \in 0..MaxCommands
    /\ faults \in 0..MaxFaults
    /\ \A i \in Instance : (cmd[i].s = NoSession) <=> (cmd[i].op = "idle")
    /\ (sweep.victim # NoSession) <=> (sweep.at \in {"used", "fresh", "kill", "forget"})

\* Once an instance has released a live session, and until it asks for it
\* again, none of its renewals takes the lease back: the gate, and the second
\* look at owned_sessions under it, make the release final.
DetachIsFinal ==
    \A s \in Session : \A i \in left[s] : life[s] = "live" => ClaimOwner(s) # i

\* A live session is killed neither by the reaper while somebody holds it nor
\* by an instance while another owns it, unless that holder came after the
\* killer had looked for the last time.
HolderIsSpared ==
    [][\A s \in Session : life[s] = "live" /\ life'[s] = "dead" =>
         /\ sweep.at = "kill" /\ sweep'.at = "forget" /\ Reaper \notin overtaken => ~Held(s)
         /\ \A i \in Instance : cmd[i].op = "kill" /\ cmd'[i].op = "killed" /\ i \notin overtaken
                                 => MayWrite(i, s)]_vars

\* A silent live session that nobody holds any more does not stay for ever.
OrphanIsReaped ==
    \A s \in Session : ~<>[](life[s] = "live" /\ ~Held(s) /\ s \in still)

\* An instance that goes on believing that it owns a session does hold the
\* lease again and again: two instances cannot both go on believing it.
BeliefComesTrue ==
    \A i \in Instance, s \in Session : <>[](s \in owned[i]) => []<>(ClaimOwner(s) = i)
=============================================================================
