-------------------------- MODULE SessionLeaseProofs --------------------------
(***************************************************************************)
(* Theorems about SessionLease, for all sets of instances and sessions and *)
(* every value of the bounds.                                              *)
(*                                                                         *)
(* That a release is final rests on a chain: a lease is granted to a       *)
(* command or to a renewal under way; a renewal goes on only for a lease in*)
(* owned_sessions; a release removes the lease there, under the gate that  *)
(* renewals take, before it tells the daemon.  That a holder is spared     *)
(* rests on what the last look of a killer saw.                            *)
(***************************************************************************)
EXTENDS SessionLease, TLAPS

\* The reaper's victim was free when it was looked at, and is unless overtaken;
\* so was the session an instance is about to kill.
LookStands ==
    /\ sweep.at \in {"used", "fresh", "kill"} /\ Reaper \notin overtaken =>
           ~Held(sweep.victim)
    /\ \A i \in Instance : cmd[i].op = "kill" /\ i \notin overtaken => MayWrite(i, cmd[i].s)

\* Whoever has released a session does not believe to own it, and nothing that
\* it has under way will claim it; nobody has released what was never born.
LeftIsDisowned ==
    \A s \in Session : \A i \in left[s] :
        /\ s \notin owned[i]
        /\ cmd[i].s = s => cmd[i].op \notin {"publish", "claim", "granted"}
        /\ life[s] # "unborn"

\* When the daemon is told, the session has left owned_sessions.
TellIsDisowned == \A i \in Instance : cmd[i].op = "tell" => cmd[i].s \notin owned[i]

\* A renewal that may still claim works for a lease in owned_sessions, or for a
\* session that its own instance has killed meanwhile.
RenewalIsOwned ==
    /\ \A i \in Instance, s \in Session :
           /\ renew[i][s] \in {"taken", "sending"} => s \in owned[i]
           /\ renew[i][s] = "loose" => life[s] = "dead"
    /\ \A i \in Instance :
           /\ cmd[i].op = "killed" => life[cmd[i].s] = "dead"
           /\ cmd[i].op # "idle" => life[cmd[i].s] # "unborn"

IInv ==
    /\ TypeOK
    /\ DetachIsFinal
    /\ LookStands
    /\ LeftIsDisowned
    /\ TellIsDisowned
    /\ RenewalIsOwned
-----------------------------------------------------------------------------
LEMMA InitIInv == Init => IInv
  <1> SUFFICES ASSUME Init
               PROVE  IInv
    OBVIOUS
  <1>1. \A i \in Instance : cmd[i].op = "idle" /\ cmd[i].s = NoSession
    BY DEF Init, NoCmd
  <1>2. TypeOK
    <2>1. cmd \in [Instance -> [op : {"idle", "publish", "claim", "granted", "gate", "tell",
                                      "write", "kill", "killed"},
                                s : Session \cup {NoSession}]]
      BY DEF Init, NoCmd
    <2> QED BY <1>1, <2>1, DistinctAssumption, BoundsAssumption DEF Init, TypeOK, Asleep
  <1>3. LookStands
    BY <1>1 DEF Init, LookStands, Asleep
  <1>4. DetachIsFinal /\ LeftIsDisowned /\ TellIsDisowned /\ RenewalIsOwned
    BY <1>1 DEF Init, DetachIsFinal, LeftIsDisowned, TellIsDisowned, RenewalIsOwned
  <1> QED BY <1>2, <1>3, <1>4 DEF IInv

\* A command that goes on keeps its session and stays a command.
LEMMA CommandGoesOn ==
  ASSUME TypeOK, NEW i \in Instance, cmd[i].op # "idle",
         NEW op \in {"claim", "granted", "tell", "killed"}, Goto(i, op)
  PROVE  /\ cmd' \in [Instance -> [op : {"idle", "publish", "claim", "granted", "gate",
                                         "tell", "write", "kill", "killed"},
                                   s : Session \cup {NoSession}]]
         /\ \A j \in Instance : (cmd'[j].s = NoSession) <=> (cmd'[j].op = "idle")
         /\ cmd'[i].op = op /\ cmd'[i].s = cmd[i].s /\ cmd[i].s \in Session
         /\ \A j \in Instance \ {i} : cmd'[j] = cmd[j]
  <1>1. cmd[i].s \in Session /\ cmd' = [cmd EXCEPT ![i] = [cmd[i] EXCEPT !.op = op]]
    BY DEF TypeOK, Goto
  <1>2. cmd'[i] = [cmd[i] EXCEPT !.op = op] /\ \A j \in Instance \ {i} : cmd'[j] = cmd[j]
    BY <1>1 DEF TypeOK
  <1>3. cmd'[i].op = op /\ cmd'[i].s = cmd[i].s
    BY <1>2 DEF TypeOK
  <1>4. \A j \in Instance : (cmd'[j].s = NoSession) <=> (cmd'[j].op = "idle")
    BY <1>1, <1>2, <1>3, DistinctAssumption DEF TypeOK
  <1> QED BY <1>1, <1>2, <1>3, <1>4 DEF TypeOK

LEMMA GrantType ==
  ASSUME TypeOK, NEW i \in Instance, NEW s \in Session, Grant(i, s)
  PROVE  /\ claim' \in [Session -> Instance \cup {NoOne}]
         /\ lapsed' \subseteq {r \in Session : claim'[r] # NoOne}
         /\ used' \in [Session -> {"never", "recent", "old"}]
         /\ overtaken' \subseteq Instance \cup {Reaper}
  BY DEF TypeOK, Grant, Touch

-----------------------------------------------------------------------------
(* Creation, claiming and releasing.                                       *)

LEMMA PublishRegisterKeeps ==
  ASSUME IInv, NEW i \in Instance, NEW s \in Session, PublishRegister(i, s)
  PROVE  IInv'
  <1>1. TypeOK'
    BY DistinctAssumption, BoundsAssumption
       DEF NoCmd, Visible, Begin, PublishRegister, TypeOK, IInv
  <1>2. DetachIsFinal'
    BY DEF ClaimOwner, NoCmd, Visible, Begin, PublishRegister, TypeOK, DetachIsFinal,
           LeftIsDisowned, RenewalIsOwned, IInv
  <1>3. LookStands'
    BY DEF ClaimOwner, MayWrite, Held, NoCmd, Visible, Begin, PublishRegister,
           LookStands, IInv
  <1>4. LeftIsDisowned'
    BY DEF NoCmd, Visible, Begin, PublishRegister, LeftIsDisowned, IInv
  <1>5. TellIsDisowned'
    BY DEF NoCmd, Visible, Begin, PublishRegister, TellIsDisowned, IInv
  <1>6. RenewalIsOwned'
    BY DEF NoCmd, Visible, Begin, PublishRegister, TypeOK, RenewalIsOwned, IInv
  <1> QED BY <1>1, <1>2, <1>3, <1>4, <1>5, <1>6 DEF IInv

LEMMA PublishEvidenceKeeps ==
  ASSUME IInv, NEW i \in Instance, PublishEvidence(i)
  PROVE  IInv'
  <1>1. TypeOK'
    <2>1. cmd[i].op = "publish" /\ cmd[i].s \in Session
      BY DEF PublishEvidence, At, IInv, TypeOK
    <2> QED BY <2>1, GrantType, CommandGoesOn DEF PublishEvidence, IInv, TypeOK
  <1>2. DetachIsFinal'
    BY DEF ClaimOwner, Touch, Grant, At, Goto, PublishEvidence, TypeOK, DetachIsFinal,
           LeftIsDisowned, RenewalIsOwned, IInv
  <1>3. LookStands'
    BY DEF ClaimOwner, MayWrite, Held, Touch, Grant, At, Goto, PublishEvidence,
           LookStands, IInv
  <1>4. LeftIsDisowned'
    BY DEF Touch, Grant, At, Goto, PublishEvidence, LeftIsDisowned, IInv
  <1>5. TellIsDisowned'
    BY DEF Touch, Grant, At, Goto, PublishEvidence, TellIsDisowned, IInv
  <1>6. RenewalIsOwned'
    BY DEF Touch, Grant, At, Goto, PublishEvidence, RenewalIsOwned, IInv
  <1> QED BY <1>1, <1>2, <1>3, <1>4, <1>5, <1>6 DEF IInv

LEMMA AdoptBeginKeeps ==
  ASSUME IInv, NEW i \in Instance, NEW s \in Session, AdoptBegin(i, s)
  PROVE  IInv'
  <1>1. TypeOK'
    BY DistinctAssumption, BoundsAssumption DEF NoCmd, Begin, AdoptBegin, TypeOK, IInv
  <1>2. DetachIsFinal'
    BY DEF ClaimOwner, NoCmd, Begin, AdoptBegin, DetachIsFinal, IInv
  <1>3. LookStands'
    BY DEF ClaimOwner, MayWrite, Held, NoCmd, Begin, AdoptBegin, LookStands, IInv
  <1>4. LeftIsDisowned'
    BY DEF NoCmd, Begin, AdoptBegin, TypeOK, LeftIsDisowned, IInv
  <1>5. TellIsDisowned'
    BY DEF NoCmd, Begin, AdoptBegin, TellIsDisowned, IInv
  <1>6. RenewalIsOwned'
    BY DEF NoCmd, Begin, AdoptBegin, RenewalIsOwned, IInv
  <1> QED BY <1>1, <1>2, <1>3, <1>4, <1>5, <1>6 DEF IInv

LEMMA RestoreKeeps ==
  ASSUME IInv, NEW i \in Instance, NEW s \in Session, Restore(i, s)
  PROVE  IInv'
  <1>1. TypeOK'
    BY DistinctAssumption, BoundsAssumption
       DEF ClaimOwner, MayWrite, NoCmd, Touch, Grant, Visible, Begin, Restore, TypeOK,
           IInv
  <1>2. DetachIsFinal'
    BY DEF ClaimOwner, MayWrite, NoCmd, Touch, Grant, Visible, Begin, Restore, TypeOK,
           DetachIsFinal, IInv
  <1>3. LookStands'
    BY DEF ClaimOwner, MayWrite, Held, NoCmd, Touch, Grant, Visible, Begin, Restore,
           LookStands, IInv
  <1>4. LeftIsDisowned'
    BY DEF ClaimOwner, MayWrite, NoCmd, Touch, Grant, Visible, Begin, Restore, TypeOK,
           LeftIsDisowned, IInv
  <1>5. TellIsDisowned'
    BY DEF ClaimOwner, MayWrite, NoCmd, Touch, Grant, Visible, Begin, Restore,
           TellIsDisowned, IInv
  <1>6. RenewalIsOwned'
    BY DEF ClaimOwner, MayWrite, NoCmd, Touch, Grant, Visible, Begin, Restore,
           RenewalIsOwned, IInv
  <1> QED BY <1>1, <1>2, <1>3, <1>4, <1>5, <1>6 DEF IInv

LEMMA ClaimGrantedKeeps ==
  ASSUME IInv, NEW i \in Instance, ClaimGranted(i)
  PROVE  IInv'
  <1>1. TypeOK'
    <2>1. cmd[i].op = "claim" /\ cmd[i].s \in Session
      BY DEF ClaimGranted, At, IInv, TypeOK
    <2> QED BY <2>1, GrantType, CommandGoesOn DEF ClaimGranted, IInv, TypeOK
  <1>2. DetachIsFinal'
    BY DEF ClaimOwner, MayWrite, Touch, Grant, Visible, At, Goto, ClaimGranted, TypeOK,
           DetachIsFinal, LeftIsDisowned, RenewalIsOwned, IInv
  <1>3. LookStands'
    BY DEF ClaimOwner, MayWrite, Held, Touch, Grant, Visible, At, Goto, ClaimGranted,
           LookStands, IInv
  <1>4. LeftIsDisowned'
    BY DEF ClaimOwner, MayWrite, Touch, Grant, Visible, At, Goto, ClaimGranted,
           LeftIsDisowned, IInv
  <1>5. TellIsDisowned'
    BY DEF ClaimOwner, MayWrite, Touch, Grant, Visible, At, Goto, ClaimGranted,
           TellIsDisowned, IInv
  <1>6. RenewalIsOwned'
    BY DEF ClaimOwner, MayWrite, Touch, Grant, Visible, At, Goto, ClaimGranted,
           RenewalIsOwned, IInv
  <1> QED BY <1>1, <1>2, <1>3, <1>4, <1>5, <1>6 DEF IInv

LEMMA ClaimRefusedKeeps ==
  ASSUME IInv, NEW i \in Instance, ClaimRefused(i)
  PROVE  IInv'
  <1>1. DetachIsFinal'
    BY DEF ClaimOwner, ClaimRefused, DetachIsFinal, IInv
  <1>2. TypeOK'
    BY DistinctAssumption
       DEF ClaimOwner, MayWrite, NoCmd, Visible, At, End, ClaimRefused, TypeOK, IInv
  <1>3. LookStands'
    BY DEF ClaimOwner, MayWrite, Held, NoCmd, Visible, At, End, ClaimRefused,
           LookStands, IInv
  <1>4. LeftIsDisowned'
    BY DEF ClaimOwner, MayWrite, NoCmd, Visible, At, End, ClaimRefused, LeftIsDisowned,
           IInv
  <1>5. TellIsDisowned'
    BY DEF ClaimOwner, MayWrite, NoCmd, Visible, At, End, ClaimRefused, TellIsDisowned,
           IInv
  <1>6. RenewalIsOwned'
    BY DEF ClaimOwner, MayWrite, NoCmd, Visible, At, End, ClaimRefused, RenewalIsOwned,
           IInv
  <1> QED BY <1>1, <1>2, <1>3, <1>4, <1>5, <1>6 DEF IInv

LEMMA ClaimLostKeeps ==
  ASSUME IInv, NEW i \in Instance, ClaimLost(i)
  PROVE  IInv'
  <1>1. TypeOK'
    <2>1. cmd[i].op = "claim" /\ cmd[i].s \in Session
      BY DEF ClaimLost, At, IInv, TypeOK
    <2>2. /\ claim' \in [Session -> Instance \cup {NoOne}]
          /\ lapsed' \subseteq {s \in Session : claim'[s] # NoOne}
          /\ used' \in [Session -> {"never", "recent", "old"}]
          /\ overtaken' \subseteq Instance \cup {Reaper}
      <3>1. CASE Grant(i, cmd[i].s)
        BY <2>1, <3>1, GrantType DEF IInv
      <3>2. CASE UNCHANGED <<claim, lapsed, used, overtaken>>
        BY <3>2 DEF IInv, TypeOK
      <3> QED BY <3>1, <3>2 DEF ClaimLost
    <2>3. /\ cmd' \in [Instance -> [op : {"idle", "publish", "claim", "granted", "gate",
                                          "tell", "write", "kill", "killed"},
                                    s : Session \cup {NoSession}]]
          /\ \A j \in Instance : (cmd'[j].s = NoSession) <=> (cmd'[j].op = "idle")
      BY DEF ClaimLost, End, NoCmd, IInv, TypeOK
    <2>4. faults' \in 0..MaxFaults
      BY BoundsAssumption DEF ClaimLost, Fault, IInv, TypeOK
    <2> QED BY <2>2, <2>3, <2>4 DEF ClaimLost, IInv, TypeOK
  <1>2. DetachIsFinal'
    BY DEF ClaimOwner, MayWrite, NoCmd, Touch, Grant, Visible, At, End, Fault,
           ClaimLost, TypeOK, DetachIsFinal, LeftIsDisowned, RenewalIsOwned, IInv
  <1>3. LookStands'
    BY DEF ClaimOwner, MayWrite, Held, NoCmd, Touch, Grant, Visible, At, End, Fault,
           ClaimLost, TypeOK, LookStands, IInv
  <1>4. LeftIsDisowned'
    BY DEF ClaimOwner, MayWrite, NoCmd, Touch, Grant, Visible, At, End, Fault,
           ClaimLost, LeftIsDisowned, IInv
  <1>5. TellIsDisowned'
    BY DEF ClaimOwner, MayWrite, NoCmd, Touch, Grant, Visible, At, End, Fault,
           ClaimLost, TellIsDisowned, IInv
  <1>6. RenewalIsOwned'
    BY DEF ClaimOwner, MayWrite, NoCmd, Touch, Grant, Visible, At, End, Fault,
           ClaimLost, RenewalIsOwned, IInv
  <1> QED BY <1>1, <1>2, <1>3, <1>4, <1>5, <1>6 DEF IInv

LEMMA RememberKeeps ==
  ASSUME IInv, NEW i \in Instance, Remember(i)
  PROVE  IInv'
  <1>1. DetachIsFinal'
    BY DEF ClaimOwner, Remember, DetachIsFinal, IInv
  <1>2. TypeOK'
    BY DistinctAssumption DEF NoCmd, At, End, Remember, TypeOK, IInv
  <1>3. LookStands'
    BY DEF ClaimOwner, MayWrite, Held, NoCmd, At, End, Remember, LookStands, IInv
  <1>4. LeftIsDisowned'
    BY DEF NoCmd, At, End, Remember, LeftIsDisowned, IInv
  <1>5. TellIsDisowned'
    BY DEF NoCmd, At, End, Remember, TellIsDisowned, IInv
  <1>6. RenewalIsOwned'
    BY DEF NoCmd, At, End, Remember, RenewalIsOwned, IInv
  <1> QED BY <1>1, <1>2, <1>3, <1>4, <1>5, <1>6 DEF IInv

LEMMA ReleaseBeginKeeps ==
  ASSUME IInv, NEW i \in Instance, NEW s \in Session, ReleaseBegin(i, s)
  PROVE  IInv'
  <1>1. DetachIsFinal'
    BY DEF ClaimOwner, ReleaseBegin, DetachIsFinal, IInv
  <1>2. TypeOK'
    BY DistinctAssumption, BoundsAssumption DEF NoCmd, Begin, ReleaseBegin, TypeOK, IInv
  <1>3. LookStands'
    BY DEF ClaimOwner, MayWrite, Held, NoCmd, Begin, ReleaseBegin, LookStands, IInv
  <1>4. LeftIsDisowned'
    BY DEF NoCmd, Begin, ReleaseBegin, LeftIsDisowned, IInv
  <1>5. TellIsDisowned'
    BY DEF NoCmd, Begin, ReleaseBegin, TellIsDisowned, IInv
  <1>6. RenewalIsOwned'
    BY DEF NoCmd, Begin, ReleaseBegin, RenewalIsOwned, IInv
  <1> QED BY <1>1, <1>2, <1>3, <1>4, <1>5, <1>6 DEF IInv

LEMMA ReleaseGateKeeps ==
  ASSUME IInv, NEW i \in Instance, ReleaseGate(i)
  PROVE  IInv'
  <1>1. DetachIsFinal'
    BY DEF ClaimOwner, ReleaseGate, DetachIsFinal, IInv
  <1>2. TypeOK'
    <2>1. cmd[i].op = "gate" /\ cmd[i].s \in Session
      BY DEF ReleaseGate, At, IInv, TypeOK
    <2>2. /\ owned' \in [Instance -> SUBSET Session]
          /\ renew' \in [Instance -> [Session ->
                         {"idle", "taken", "stale", "sending", "loose", "refused"}]]
      BY <2>1 DEF ReleaseGate, Disown, IInv, TypeOK
    <2> QED BY <2>1, <2>2, CommandGoesOn DEF ReleaseGate, IInv, TypeOK
  <1>3. LookStands'
    BY DEF ClaimOwner, MayWrite, Held, Disown, At, Goto, ReleaseGate, LookStands, IInv
  <1>4. LeftIsDisowned'
    BY DEF Disown, At, Goto, ReleaseGate, LeftIsDisowned, IInv
  <1>5. TellIsDisowned'
    BY DEF Disown, At, Goto, ReleaseGate, TypeOK, TellIsDisowned, IInv
  <1>6. RenewalIsOwned'
    BY DEF Disown, At, Goto, ReleaseGate, TypeOK, RenewalIsOwned, IInv
  <1> QED BY <1>1, <1>2, <1>3, <1>4, <1>5, <1>6 DEF IInv

LEMMA ReleaseTellKeeps ==
  ASSUME IInv, NEW i \in Instance, ReleaseTell(i)
  PROVE  IInv'
  <1>1. TypeOK'
    BY DistinctAssumption, BoundsAssumption
       DEF ClaimOwner, MayWrite, Held, NoCmd, Visible, At, End, ReleaseTell, TypeOK,
           DetachIsFinal, LookStands, LeftIsDisowned, TellIsDisowned, RenewalIsOwned,
           IInv
  <1>2. DetachIsFinal'
    BY DistinctAssumption
       DEF ClaimOwner, NoCmd, Visible, At, End, ReleaseTell, TypeOK, DetachIsFinal, IInv
  <1>3. LookStands'
    BY DEF ClaimOwner, MayWrite, Held, NoCmd, Visible, At, End, ReleaseTell, TypeOK,
           DetachIsFinal, LookStands, LeftIsDisowned, TellIsDisowned, RenewalIsOwned,
           IInv
  <1>4. LeftIsDisowned'
    BY DEF NoCmd, Visible, At, End, ReleaseTell, TypeOK, LeftIsDisowned, TellIsDisowned,
           RenewalIsOwned, IInv
  <1>5. TellIsDisowned'
    BY DEF NoCmd, Visible, At, End, ReleaseTell, TellIsDisowned, IInv
  <1>6. RenewalIsOwned'
    BY DEF NoCmd, Visible, At, End, ReleaseTell, RenewalIsOwned, IInv
  <1> QED BY <1>1, <1>2, <1>3, <1>4, <1>5, <1>6 DEF IInv

LEMMA ReleaseFailsKeeps ==
  ASSUME IInv, NEW i \in Instance, ReleaseFails(i)
  PROVE  IInv'
  <1>1. DetachIsFinal'
    BY DEF ClaimOwner, ReleaseFails, DetachIsFinal, IInv
  <1>2. TypeOK'
    BY DistinctAssumption, BoundsAssumption
       DEF NoCmd, At, End, Fault, ReleaseFails, TypeOK, IInv
  <1>3. LookStands'
    BY DEF ClaimOwner, MayWrite, Held, NoCmd, At, End, Fault, ReleaseFails, LookStands,
           IInv
  <1>4. LeftIsDisowned'
    BY DEF NoCmd, At, End, Fault, ReleaseFails, LeftIsDisowned, IInv
  <1>5. TellIsDisowned'
    BY DEF NoCmd, At, End, Fault, ReleaseFails, TellIsDisowned, IInv
  <1>6. RenewalIsOwned'
    BY DEF NoCmd, At, End, Fault, ReleaseFails, RenewalIsOwned, IInv
  <1> QED BY <1>1, <1>2, <1>3, <1>4, <1>5, <1>6 DEF IInv

-----------------------------------------------------------------------------
(* Renewals.                                                               *)

LEMMA RenewRoundKeeps ==
  ASSUME IInv, NEW i \in Instance, RenewRound(i)
  PROVE  IInv'
  <1>1. DetachIsFinal' /\ LookStands' /\ LeftIsDisowned' /\ TellIsDisowned'
    BY DEF ClaimOwner, MayWrite, Held, RenewRound, DetachIsFinal, LookStands,
           LeftIsDisowned, TellIsDisowned, IInv
  <1>2. TypeOK'
    BY DistinctAssumption DEF RenewRound, TypeOK, IInv
  <1>3. RenewalIsOwned'
    BY DEF RenewRound, RenewalIsOwned, IInv
  <1> QED BY <1>1, <1>2, <1>3 DEF IInv

LEMMA RenewEnterKeeps ==
  ASSUME IInv, NEW i \in Instance, NEW s \in Session, RenewEnter(i, s)
  PROVE  IInv'
  <1>1. DetachIsFinal' /\ LookStands' /\ LeftIsDisowned' /\ TellIsDisowned'
    BY DEF ClaimOwner, MayWrite, Held, RenewEnter, DetachIsFinal, LookStands,
           LeftIsDisowned, TellIsDisowned, IInv
  <1>2. TypeOK'
    BY DistinctAssumption DEF RenewEnter, TypeOK, IInv
  <1>3. RenewalIsOwned'
    BY DEF RenewEnter, RenewalIsOwned, IInv
  <1> QED BY <1>1, <1>2, <1>3 DEF IInv

LEMMA RenewGrantedKeeps ==
  ASSUME IInv, NEW i \in Instance, NEW s \in Session, RenewGranted(i, s)
  PROVE  IInv'
  <1>1. LeftIsDisowned' /\ TellIsDisowned'
    BY DEF RenewGranted, LeftIsDisowned, TellIsDisowned, IInv
  <1>2. TypeOK'
    BY DistinctAssumption
       DEF ClaimOwner, MayWrite, Touch, Grant, Visible, RenewGranted, TypeOK, IInv
  <1>3. DetachIsFinal'
    BY DEF ClaimOwner, MayWrite, Touch, Grant, Visible, RenewGranted, TypeOK,
           DetachIsFinal, LeftIsDisowned, RenewalIsOwned, IInv
  <1>4. LookStands'
    BY DEF ClaimOwner, MayWrite, Held, Touch, Grant, Visible, RenewGranted, TypeOK,
           LookStands, IInv
  <1>5. RenewalIsOwned'
    BY DEF ClaimOwner, MayWrite, Touch, Grant, Visible, RenewGranted, RenewalIsOwned,
           IInv
  <1> QED BY <1>1, <1>2, <1>3, <1>4, <1>5 DEF IInv

LEMMA RenewRefusedKeeps ==
  ASSUME IInv, NEW i \in Instance, NEW s \in Session, RenewRefused(i, s)
  PROVE  IInv'
  <1>1. DetachIsFinal' /\ LookStands' /\ LeftIsDisowned' /\ TellIsDisowned'
    BY DEF ClaimOwner, MayWrite, Held, RenewRefused, DetachIsFinal, LookStands,
           LeftIsDisowned, TellIsDisowned, IInv
  <1>2. TypeOK'
    BY DistinctAssumption DEF ClaimOwner, MayWrite, Visible, RenewRefused, TypeOK, IInv
  <1>3. RenewalIsOwned'
    BY DEF ClaimOwner, MayWrite, Visible, RenewRefused, RenewalIsOwned, IInv
  <1> QED BY <1>1, <1>2, <1>3 DEF IInv

LEMMA RenewFailsKeeps ==
  ASSUME IInv, NEW i \in Instance, NEW s \in Session, RenewFails(i, s)
  PROVE  IInv'
  <1>1. DetachIsFinal' /\ LookStands' /\ LeftIsDisowned' /\ TellIsDisowned'
    BY DEF ClaimOwner, MayWrite, Held, RenewFails, DetachIsFinal, LookStands,
           LeftIsDisowned, TellIsDisowned, IInv
  <1>2. TypeOK'
    BY DistinctAssumption, BoundsAssumption DEF Fault, RenewFails, TypeOK, IInv
  <1>3. RenewalIsOwned'
    BY DEF Fault, RenewFails, RenewalIsOwned, IInv
  <1> QED BY <1>1, <1>2, <1>3 DEF IInv

LEMMA RenewDropKeeps ==
  ASSUME IInv, NEW i \in Instance, NEW s \in Session, RenewDrop(i, s)
  PROVE  IInv'
  <1>1. DetachIsFinal' /\ LookStands'
    BY DEF ClaimOwner, MayWrite, Held, RenewDrop, DetachIsFinal, LookStands, IInv
  <1>2. TypeOK'
    BY DistinctAssumption DEF RenewDrop, TypeOK, IInv
  <1>3. LeftIsDisowned'
    BY DEF RenewDrop, LeftIsDisowned, IInv
  <1>4. TellIsDisowned'
    BY DEF RenewDrop, TellIsDisowned, IInv
  <1>5. RenewalIsOwned'
    BY DEF RenewDrop, RenewalIsOwned, IInv
  <1> QED BY <1>1, <1>2, <1>3, <1>4, <1>5 DEF IInv

-----------------------------------------------------------------------------
(* Writing, killing, viewing, and the session itself.                      *)

LEMMA WriteCheckKeeps ==
  ASSUME IInv, NEW i \in Instance, NEW s \in Session, WriteCheck(i, s)
  PROVE  IInv'
  <1>1. DetachIsFinal'
    BY DEF ClaimOwner, WriteCheck, DetachIsFinal, IInv
  <1>2. TypeOK'
    BY DistinctAssumption, BoundsAssumption
       DEF ClaimOwner, MayWrite, NoCmd, Touch, Visible, Begin, WriteCheck, TypeOK, IInv
  <1>3. LookStands'
    BY DEF ClaimOwner, MayWrite, Held, NoCmd, Touch, Visible, Begin, WriteCheck,
           LookStands, IInv
  <1>4. LeftIsDisowned'
    BY DEF ClaimOwner, MayWrite, NoCmd, Touch, Visible, Begin, WriteCheck,
           LeftIsDisowned, IInv
  <1>5. TellIsDisowned'
    BY DEF ClaimOwner, MayWrite, NoCmd, Touch, Visible, Begin, WriteCheck,
           TellIsDisowned, IInv
  <1>6. RenewalIsOwned'
    BY DEF ClaimOwner, MayWrite, NoCmd, Touch, Visible, Begin, WriteCheck,
           RenewalIsOwned, IInv
  <1> QED BY <1>1, <1>2, <1>3, <1>4, <1>5, <1>6 DEF IInv

LEMMA WriteActKeeps ==
  ASSUME IInv, NEW i \in Instance, WriteAct(i)
  PROVE  IInv'
  <1>1. DetachIsFinal'
    BY DEF ClaimOwner, WriteAct, DetachIsFinal, IInv
  <1>2. TypeOK'
    BY DistinctAssumption DEF NoCmd, At, End, WriteAct, TypeOK, IInv
  <1>3. LookStands'
    BY DistinctAssumption
       DEF ClaimOwner, MayWrite, Held, NoCmd, At, End, WriteAct, LookStands, IInv
  <1>4. LeftIsDisowned'
    BY DEF NoCmd, At, End, WriteAct, LeftIsDisowned, IInv
  <1>5. TellIsDisowned'
    BY DEF NoCmd, At, End, WriteAct, TellIsDisowned, IInv
  <1>6. RenewalIsOwned'
    BY DEF NoCmd, At, End, WriteAct, RenewalIsOwned, IInv
  <1> QED BY <1>1, <1>2, <1>3, <1>4, <1>5, <1>6 DEF IInv

LEMMA KillCheckKeeps ==
  ASSUME IInv, NEW i \in Instance, NEW s \in Session, KillCheck(i, s)
  PROVE  IInv'
  <1>1. DetachIsFinal'
    BY DEF ClaimOwner, KillCheck, DetachIsFinal, IInv
  <1>2. TypeOK'
    BY DistinctAssumption, BoundsAssumption
       DEF ClaimOwner, MayWrite, NoCmd, Visible, Begin, KillCheck, TypeOK, IInv
  <1>3. LookStands'
    BY DEF ClaimOwner, MayWrite, Held, NoCmd, Visible, Begin, KillCheck, LookStands,
           IInv
  <1>4. LeftIsDisowned'
    BY DEF ClaimOwner, MayWrite, NoCmd, Visible, Begin, KillCheck, LeftIsDisowned, IInv
  <1>5. TellIsDisowned'
    BY DEF ClaimOwner, MayWrite, NoCmd, Visible, Begin, KillCheck, TellIsDisowned, IInv
  <1>6. RenewalIsOwned'
    BY DEF ClaimOwner, MayWrite, NoCmd, Visible, Begin, KillCheck, RenewalIsOwned, IInv
  <1> QED BY <1>1, <1>2, <1>3, <1>4, <1>5, <1>6 DEF IInv

LEMMA KillActKeeps ==
  ASSUME IInv, NEW i \in Instance, KillAct(i)
  PROVE  IInv'
  <1> DEFINE s == cmd[i].s
  <1>1. /\ cmd[i].op = "kill" /\ s \in Session
        /\ life' = [life EXCEPT ![s] = "dead"]
        /\ overtaken' = overtaken \ {i}
        /\ UNCHANGED <<claim, lapsed, evidence, used, viewers, still, publishing, sweep,
                       owned, renew, left, commands, faults>>
    BY DEF KillAct, At, IInv, TypeOK
  <1>2. /\ cmd' \in [Instance -> [op : {"idle", "publish", "claim", "granted", "gate",
                                        "tell", "write", "kill", "killed"},
                                  s : Session \cup {NoSession}]]
        /\ \A j \in Instance : (cmd'[j].s = NoSession) <=> (cmd'[j].op = "idle")
        /\ cmd'[i].op \in {"idle", "killed"}
        /\ cmd'[i].op = "killed" => cmd'[i].s = s
        /\ \A j \in Instance \ {i} : cmd'[j] = cmd[j]
    <2>1. CASE life[s] = "live"
      BY <1>1, <2>1, CommandGoesOn DEF KillAct, IInv
    <2>2. CASE life[s] # "live"
      <3>1. cmd' = [cmd EXCEPT ![i] = NoCmd]
        BY <2>2 DEF KillAct, End
      <3>2. /\ cmd'[i].op = "idle" /\ cmd'[i].s = NoSession
            /\ \A j \in Instance \ {i} : cmd'[j] = cmd[j]
        BY <3>1 DEF NoCmd, IInv, TypeOK
      <3>3. cmd' \in [Instance -> [op : {"idle", "publish", "claim", "granted", "gate",
                                        "tell", "write", "kill", "killed"},
                                  s : Session \cup {NoSession}]]
        BY <3>1 DEF NoCmd, IInv, TypeOK
      <3>4. \A j \in Instance : (cmd'[j].s = NoSession) <=> (cmd'[j].op = "idle")
        BY <3>2 DEF IInv, TypeOK
      <3> QED BY <3>2, <3>3, <3>4
    <2> QED BY <2>1, <2>2
  <1>3. \A r \in Session : life'[r] = IF r = s THEN "dead" ELSE life[r]
    BY <1>1 DEF IInv, TypeOK
  <1>4. TypeOK'
    BY <1>1, <1>2 DEF IInv, TypeOK
  <1>5. DetachIsFinal'
    BY <1>1, <1>3 DEF IInv, DetachIsFinal, ClaimOwner
  <1>6. LookStands'
    BY <1>1, <1>2, DistinctAssumption DEF IInv, LookStands, MayWrite, ClaimOwner, Held
  <1>7. LeftIsDisowned'
    <2>1. \A r \in Session : \A j \in left[r] : j \in Instance
      BY DEF IInv, TypeOK
    <2> QED BY <1>1, <1>2, <1>3, <2>1 DEF IInv, LeftIsDisowned
  <1>8. TellIsDisowned'
    BY <1>1, <1>2 DEF IInv, TellIsDisowned
  <1>9. RenewalIsOwned'
    <2>1. \A j \in Instance : cmd'[j].op # "idle" => cmd'[j].s = cmd[j].s /\ cmd[j].op # "idle"
      BY <1>1, <1>2
    <2>2. \A j \in Instance : cmd'[j].op = "killed" => cmd[j].op = "killed" \/ j = i
      BY <1>2
    <2>3. \A j \in Instance : cmd[j].op # "idle" => cmd[j].s \in Session
      BY DEF IInv, TypeOK
    <2> QED BY <1>1, <1>3, <2>1, <2>2, <2>3 DEF IInv, RenewalIsOwned
  <1> QED BY <1>4, <1>5, <1>6, <1>7, <1>8, <1>9 DEF IInv

LEMMA KillForgetKeeps ==
  ASSUME IInv, NEW i \in Instance, KillForget(i)
  PROVE  IInv'
  <1>1. TypeOK'
    BY DistinctAssumption DEF NoCmd, Forget, Disown, At, End, KillForget, TypeOK, IInv
  <1>2. DetachIsFinal'
    BY DistinctAssumption
       DEF ClaimOwner, NoCmd, Forget, Disown, At, End, KillForget, TypeOK,
           DetachIsFinal, IInv
  <1>3. LookStands'
    BY DEF ClaimOwner, MayWrite, Held, NoCmd, Forget, Disown, At, End, KillForget,
           TypeOK, LookStands, IInv
  <1>4. LeftIsDisowned'
    BY DEF NoCmd, Forget, Disown, At, End, KillForget, LeftIsDisowned, IInv
  <1>5. TellIsDisowned'
    BY DEF NoCmd, Forget, Disown, At, End, KillForget, TellIsDisowned, IInv
  <1>6. RenewalIsOwned'
    BY DEF NoCmd, Forget, Disown, At, End, KillForget, TypeOK, RenewalIsOwned, IInv
  <1> QED BY <1>1, <1>2, <1>3, <1>4, <1>5, <1>6 DEF IInv

LEMMA ViewOpenKeeps ==
  ASSUME IInv, NEW i \in Instance, NEW s \in Session, ViewOpen(i, s)
  PROVE  IInv'
  <1>1. DetachIsFinal' /\ LeftIsDisowned' /\ TellIsDisowned' /\ RenewalIsOwned'
    BY DEF ClaimOwner, ViewOpen, DetachIsFinal, LeftIsDisowned, TellIsDisowned,
           RenewalIsOwned, IInv
  <1>2. TypeOK'
    BY DistinctAssumption, BoundsAssumption DEF Touch, Visible, ViewOpen, TypeOK, IInv
  <1>3. LookStands'
    BY DEF ClaimOwner, MayWrite, Held, Touch, Visible, ViewOpen, LookStands, IInv
  <1> QED BY <1>1, <1>2, <1>3 DEF IInv

LEMMA ViewCloseKeeps ==
  ASSUME IInv, NEW i \in Instance, NEW s \in Session, ViewClose(i, s)
  PROVE  IInv'
  <1>1. DetachIsFinal' /\ LeftIsDisowned' /\ TellIsDisowned' /\ RenewalIsOwned'
    BY DEF ClaimOwner, ViewClose, DetachIsFinal, LeftIsDisowned, TellIsDisowned,
           RenewalIsOwned, IInv
  <1>2. TypeOK'
    BY DistinctAssumption DEF ViewClose, TypeOK, IInv
  <1>3. LookStands'
    BY DEF ClaimOwner, MayWrite, Held, ViewClose, LookStands, IInv
  <1> QED BY <1>1, <1>2, <1>3 DEF IInv

LEMMA ExitKeeps ==
  ASSUME IInv, NEW s \in Session, Exit(s)
  PROVE  IInv'
  <1>1. LookStands' /\ TellIsDisowned'
    BY DEF ClaimOwner, MayWrite, Held, Exit, LookStands, TellIsDisowned, IInv
  <1>2. TypeOK'
    BY DistinctAssumption DEF Exit, TypeOK, IInv
  <1>3. DetachIsFinal'
    BY DEF ClaimOwner, Exit, DetachIsFinal, IInv
  <1>4. LeftIsDisowned'
    BY DEF Exit, LeftIsDisowned, IInv
  <1>5. RenewalIsOwned'
    BY DEF Exit, RenewalIsOwned, IInv
  <1> QED BY <1>1, <1>2, <1>3, <1>4, <1>5 DEF IInv

LEMMA FallSilentKeeps ==
  ASSUME IInv, NEW s \in Session, FallSilent(s)
  PROVE  IInv'
  <1>1. /\ DetachIsFinal' /\ LookStands' /\ LeftIsDisowned' /\ TellIsDisowned'
        /\ RenewalIsOwned'
    BY DEF ClaimOwner, MayWrite, Held, FallSilent, DetachIsFinal, LookStands,
           LeftIsDisowned, TellIsDisowned, RenewalIsOwned, IInv
  <1>2. TypeOK'
    BY DistinctAssumption DEF FallSilent, TypeOK, IInv
  <1> QED BY <1>1, <1>2 DEF IInv

LEMMA SpeakKeeps ==
  ASSUME IInv, NEW s \in Session, Speak(s)
  PROVE  IInv'
  <1>1. /\ DetachIsFinal' /\ LookStands' /\ LeftIsDisowned' /\ TellIsDisowned'
        /\ RenewalIsOwned'
    BY DEF ClaimOwner, MayWrite, Held, Speak, DetachIsFinal, LookStands, LeftIsDisowned,
           TellIsDisowned, RenewalIsOwned, IInv
  <1>2. TypeOK'
    BY DistinctAssumption DEF Speak, TypeOK, IInv
  <1> QED BY <1>1, <1>2 DEF IInv

LEMMA GrowOldKeeps ==
  ASSUME IInv, NEW s \in Session, GrowOld(s)
  PROVE  IInv'
  <1>1. /\ DetachIsFinal' /\ LookStands' /\ LeftIsDisowned' /\ TellIsDisowned'
        /\ RenewalIsOwned'
    BY DEF ClaimOwner, MayWrite, Held, GrowOld, DetachIsFinal, LookStands,
           LeftIsDisowned, TellIsDisowned, RenewalIsOwned, IInv
  <1>2. TypeOK'
    BY DistinctAssumption DEF GrowOld, TypeOK, IInv
  <1> QED BY <1>1, <1>2 DEF IInv

LEMMA LapseKeeps ==
  ASSUME IInv, NEW s \in Session, Lapse(s)
  PROVE  IInv'
  <1>1. LeftIsDisowned' /\ TellIsDisowned' /\ RenewalIsOwned'
    BY DEF Lapse, LeftIsDisowned, TellIsDisowned, RenewalIsOwned, IInv
  <1>2. TypeOK'
    BY DistinctAssumption, BoundsAssumption DEF ClaimOwner, Fault, Lapse, TypeOK, IInv
  <1>3. DetachIsFinal'
    BY DistinctAssumption DEF ClaimOwner, Fault, Lapse, TypeOK, DetachIsFinal, IInv
  <1>4. LookStands'
    BY DEF ClaimOwner, MayWrite, Held, Fault, Lapse, LookStands, IInv
  <1> QED BY <1>1, <1>2, <1>3, <1>4 DEF IInv

LEMMA AdoptionSnapshotKeeps ==
  ASSUME IInv, AdoptionSnapshot
  PROVE  IInv'
  <1>1. LeftIsDisowned' /\ TellIsDisowned' /\ RenewalIsOwned'
    BY DEF AdoptionSnapshot, LeftIsDisowned, TellIsDisowned, RenewalIsOwned, IInv
  <1>2. TypeOK'
    BY DistinctAssumption DEF Visible, AdoptionSnapshot, TypeOK, IInv
  <1>3. DetachIsFinal'
    BY DEF ClaimOwner, Visible, AdoptionSnapshot, DetachIsFinal, IInv
  <1>4. LookStands'
    BY DEF ClaimOwner, MayWrite, Held, Visible, AdoptionSnapshot, TypeOK, LookStands,
           IInv
  <1> QED BY <1>1, <1>2, <1>3, <1>4 DEF IInv

LEMMA CrashKeeps ==
  ASSUME IInv, NEW i \in Instance, Crash(i)
  PROVE  IInv'
  <1>1. TypeOK'
    BY DistinctAssumption, BoundsAssumption DEF NoCmd, End, Fault, Crash, TypeOK, IInv
  <1>2. DetachIsFinal'
    BY DEF ClaimOwner, NoCmd, End, Fault, Crash, DetachIsFinal, IInv
  <1>3. LookStands'
    BY DistinctAssumption
       DEF ClaimOwner, MayWrite, Held, NoCmd, End, Fault, Crash, TypeOK, LookStands,
           IInv
  <1>4. LeftIsDisowned'
    BY DEF NoCmd, End, Fault, Crash, LeftIsDisowned, IInv
  <1>5. TellIsDisowned'
    BY DEF NoCmd, End, Fault, Crash, TellIsDisowned, IInv
  <1>6. RenewalIsOwned'
    BY DEF NoCmd, End, Fault, Crash, TypeOK, RenewalIsOwned, IInv
  <1> QED BY <1>1, <1>2, <1>3, <1>4, <1>5, <1>6 DEF IInv

-----------------------------------------------------------------------------
(* The reaper.                                                             *)

LEMMA SweepListKeeps ==
  ASSUME IInv, SweepList
  PROVE  IInv'
  <1>1. TypeOK'
    BY DistinctAssumption DEF Reaping, SweepList, TypeOK, IInv
  <1>2. DetachIsFinal'
    BY DEF ClaimOwner, Reaping, SweepList, DetachIsFinal, IInv
  <1>3. LookStands'
    BY DEF ClaimOwner, MayWrite, Held, Reaping, SweepList, LookStands, IInv
  <1>4. LeftIsDisowned'
    BY DEF Reaping, SweepList, LeftIsDisowned, IInv
  <1>5. TellIsDisowned'
    BY DEF Reaping, SweepList, TellIsDisowned, IInv
  <1>6. RenewalIsOwned'
    BY DEF Reaping, SweepList, RenewalIsOwned, IInv
  <1> QED BY <1>1, <1>2, <1>3, <1>4, <1>5, <1>6 DEF IInv

LEMMA SweepActivityKeeps ==
  ASSUME IInv, SweepActivity
  PROVE  IInv'
  <1>1. TypeOK'
    BY DistinctAssumption DEF Forget, Reaping, SweepActivity, TypeOK, IInv
  <1>2. DetachIsFinal'
    BY DistinctAssumption
       DEF ClaimOwner, Forget, Reaping, SweepActivity, TypeOK, DetachIsFinal, IInv
  <1>3. LookStands'
    BY DEF ClaimOwner, MayWrite, Held, Forget, Reaping, SweepActivity, TypeOK,
           LookStands, IInv
  <1>4. LeftIsDisowned'
    BY DEF Forget, Reaping, SweepActivity, LeftIsDisowned, IInv
  <1>5. TellIsDisowned'
    BY DEF Forget, Reaping, SweepActivity, TellIsDisowned, IInv
  <1>6. RenewalIsOwned'
    BY DEF Forget, Reaping, SweepActivity, RenewalIsOwned, IInv
  <1> QED BY <1>1, <1>2, <1>3, <1>4, <1>5, <1>6 DEF IInv

LEMMA SweepSelectKeeps ==
  ASSUME IInv, SweepSelect
  PROVE  IInv'
  <1>1. TypeOK'
    BY DistinctAssumption
       DEF ClaimOwner, Held, Asleep, Reaping, SweepSelect, TypeOK, IInv
  <1>2. DetachIsFinal'
    BY DEF ClaimOwner, Held, Asleep, Reaping, SweepSelect, DetachIsFinal, IInv
  <1>3. LookStands'
    BY DEF ClaimOwner, MayWrite, Held, Asleep, Reaping, SweepSelect, LookStands, IInv
  <1>4. LeftIsDisowned'
    BY DEF ClaimOwner, Held, Asleep, Reaping, SweepSelect, LeftIsDisowned, IInv
  <1>5. TellIsDisowned'
    BY DEF ClaimOwner, Held, Asleep, Reaping, SweepSelect, TellIsDisowned, IInv
  <1>6. RenewalIsOwned'
    BY DEF ClaimOwner, Held, Asleep, Reaping, SweepSelect, RenewalIsOwned, IInv
  <1> QED BY <1>1, <1>2, <1>3, <1>4, <1>5, <1>6 DEF IInv

LEMMA SweepLookKeeps ==
  ASSUME IInv, NEW s \in Session, SweepLook(s)
  PROVE  IInv'
  <1>1. TypeOK'
    BY DistinctAssumption DEF ClaimOwner, Held, Reaping, SweepLook, TypeOK, IInv
  <1>2. DetachIsFinal'
    BY DEF ClaimOwner, Held, Reaping, SweepLook, DetachIsFinal, IInv
  <1>3. LookStands'
    BY DistinctAssumption
       DEF ClaimOwner, MayWrite, Held, Reaping, SweepLook, LookStands, IInv
  <1>4. LeftIsDisowned'
    BY DEF ClaimOwner, Held, Reaping, SweepLook, LeftIsDisowned, IInv
  <1>5. TellIsDisowned'
    BY DEF ClaimOwner, Held, Reaping, SweepLook, TellIsDisowned, IInv
  <1>6. RenewalIsOwned'
    BY DEF ClaimOwner, Held, Reaping, SweepLook, RenewalIsOwned, IInv
  <1> QED BY <1>1, <1>2, <1>3, <1>4, <1>5, <1>6 DEF IInv

LEMMA SweepUsedKeeps ==
  ASSUME IInv, SweepUsed
  PROVE  IInv'
  <1>1. TypeOK'
    BY DistinctAssumption DEF Reaping, Spare, SweepUsed, TypeOK, IInv
  <1>2. DetachIsFinal'
    BY DEF ClaimOwner, Reaping, Spare, SweepUsed, DetachIsFinal, IInv
  <1>3. LookStands'
    BY DEF ClaimOwner, MayWrite, Held, Reaping, Spare, SweepUsed, LookStands, IInv
  <1>4. LeftIsDisowned'
    BY DEF Reaping, Spare, SweepUsed, LeftIsDisowned, IInv
  <1>5. TellIsDisowned'
    BY DEF Reaping, Spare, SweepUsed, TellIsDisowned, IInv
  <1>6. RenewalIsOwned'
    BY DEF Reaping, Spare, SweepUsed, RenewalIsOwned, IInv
  <1> QED BY <1>1, <1>2, <1>3, <1>4, <1>5, <1>6 DEF IInv

LEMMA SweepFreshKeeps ==
  ASSUME IInv, SweepFresh
  PROVE  IInv'
  <1>1. TypeOK'
    BY DistinctAssumption DEF Reaping, Spare, SweepFresh, TypeOK, IInv
  <1>2. DetachIsFinal'
    BY DEF ClaimOwner, Reaping, Spare, SweepFresh, DetachIsFinal, IInv
  <1>3. LookStands'
    BY DEF ClaimOwner, MayWrite, Held, Reaping, Spare, SweepFresh, LookStands, IInv
  <1>4. LeftIsDisowned'
    BY DEF Reaping, Spare, SweepFresh, LeftIsDisowned, IInv
  <1>5. TellIsDisowned'
    BY DEF Reaping, Spare, SweepFresh, TellIsDisowned, IInv
  <1>6. RenewalIsOwned'
    BY DEF Reaping, Spare, SweepFresh, RenewalIsOwned, IInv
  <1> QED BY <1>1, <1>2, <1>3, <1>4, <1>5, <1>6 DEF IInv

LEMMA SweepKillKeeps ==
  ASSUME IInv, SweepKill
  PROVE  IInv'
  <1>1. TypeOK'
    BY DistinctAssumption DEF Reaping, Spare, SweepKill, TypeOK, IInv
  <1>2. DetachIsFinal'
    BY DEF ClaimOwner, Reaping, Spare, SweepKill, DetachIsFinal, IInv
  <1>3. LookStands'
    BY DEF ClaimOwner, MayWrite, Held, Reaping, Spare, SweepKill, LookStands, IInv
  <1>4. LeftIsDisowned'
    BY DEF Reaping, Spare, SweepKill, LeftIsDisowned, IInv
  <1>5. TellIsDisowned'
    BY DEF Reaping, Spare, SweepKill, TellIsDisowned, IInv
  <1>6. RenewalIsOwned'
    BY DEF Reaping, Spare, SweepKill, RenewalIsOwned, IInv
  <1> QED BY <1>1, <1>2, <1>3, <1>4, <1>5, <1>6 DEF IInv

LEMMA SweepForgetKeeps ==
  ASSUME IInv, SweepForget
  PROVE  IInv'
  <1>1. TypeOK'
    BY DistinctAssumption DEF Forget, Reaping, Spare, SweepForget, TypeOK, IInv
  <1>2. DetachIsFinal'
    BY DistinctAssumption
       DEF ClaimOwner, Forget, Reaping, Spare, SweepForget, TypeOK, DetachIsFinal, IInv
  <1>3. LookStands'
    BY DEF ClaimOwner, MayWrite, Held, Forget, Reaping, Spare, SweepForget, TypeOK,
           LookStands, IInv
  <1>4. LeftIsDisowned'
    BY DEF Forget, Reaping, Spare, SweepForget, LeftIsDisowned, IInv
  <1>5. TellIsDisowned'
    BY DEF Forget, Reaping, Spare, SweepForget, TellIsDisowned, IInv
  <1>6. RenewalIsOwned'
    BY DEF Forget, Reaping, Spare, SweepForget, RenewalIsOwned, IInv
  <1> QED BY <1>1, <1>2, <1>3, <1>4, <1>5, <1>6 DEF IInv

LEMMA SweepEndKeeps ==
  ASSUME IInv, SweepEnd
  PROVE  IInv'
  <1>1. TypeOK'
    BY DistinctAssumption DEF Asleep, Reaping, SweepEnd, TypeOK, IInv
  <1>2. DetachIsFinal'
    BY DEF ClaimOwner, Asleep, Reaping, SweepEnd, DetachIsFinal, IInv
  <1>3. LookStands'
    BY DistinctAssumption
       DEF ClaimOwner, MayWrite, Held, Asleep, Reaping, SweepEnd, LookStands, IInv
  <1>4. LeftIsDisowned'
    BY DEF Asleep, Reaping, SweepEnd, LeftIsDisowned, IInv
  <1>5. TellIsDisowned'
    BY DEF Asleep, Reaping, SweepEnd, TellIsDisowned, IInv
  <1>6. RenewalIsOwned'
    BY DEF Asleep, Reaping, SweepEnd, RenewalIsOwned, IInv
  <1> QED BY <1>1, <1>2, <1>3, <1>4, <1>5, <1>6 DEF IInv

-----------------------------------------------------------------------------
LEMMA NextIInv == IInv /\ [Next]_vars => IInv'
  <1> SUFFICES ASSUME IInv, [Next]_vars
               PROVE  IInv'
    OBVIOUS
  <1>1. CASE Sweep
    BY <1>1, SweepListKeeps, SweepActivityKeeps, SweepSelectKeeps, SweepUsedKeeps,
       SweepFreshKeeps, SweepKillKeeps, SweepForgetKeeps, SweepEndKeeps,
       SweepLookKeeps
       DEF Sweep
  <1>2. CASE Failure
    BY <1>2, ClaimLostKeeps, ReleaseFailsKeeps, CrashKeeps, RenewFailsKeeps DEF Failure
  <1>3. CASE AdoptionSnapshot
    BY <1>3, AdoptionSnapshotKeeps
  <1>4. ASSUME NEW i \in Instance, Request(i)
        PROVE  IInv'
    BY <1>4, PublishEvidenceKeeps, ClaimGrantedKeeps, ClaimRefusedKeeps,
       RememberKeeps, ReleaseGateKeeps, ReleaseTellKeeps, WriteActKeeps,
       KillActKeeps, KillForgetKeeps
       DEF Request
  <1>5. ASSUME NEW i \in Instance, Renewal(i)
        PROVE  IInv'
    BY <1>5, RenewRoundKeeps, RenewEnterKeeps, RenewGrantedKeeps, RenewRefusedKeeps,
       RenewDropKeeps
       DEF Renewal
  <1>6. ASSUME NEW i \in Instance, NEW s \in Session, User(i, s)
        PROVE  IInv'
    BY <1>6, PublishRegisterKeeps, AdoptBeginKeeps, RestoreKeeps, ReleaseBeginKeeps,
       WriteCheckKeeps, KillCheckKeeps, ViewOpenKeeps, ViewCloseKeeps
       DEF User
  <1>7. ASSUME NEW s \in Session,
               Exit(s) \/ FallSilent(s) \/ Speak(s) \/ GrowOld(s) \/ Lapse(s)
        PROVE  IInv'
    BY <1>7, ExitKeeps, FallSilentKeeps, SpeakKeeps, GrowOldKeeps, LapseKeeps
  <1>8. CASE UNCHANGED vars
    <2>1. TypeOK'
      BY <1>8 DEF vars, IInv, TypeOK
    <2>2. DetachIsFinal' /\ LookStands'
      BY <1>8 DEF vars, IInv, DetachIsFinal, LookStands, Held, MayWrite, ClaimOwner
    <2>3. LeftIsDisowned' /\ TellIsDisowned' /\ RenewalIsOwned'
      BY <1>8 DEF vars, IInv, LeftIsDisowned, TellIsDisowned, RenewalIsOwned
    <2> QED BY <2>1, <2>2, <2>3 DEF IInv
  <1> QED BY <1>1, <1>2, <1>3, <1>4, <1>5, <1>6, <1>7, <1>8 DEF Next

\* Only the reaper's own steps move its thread.
LEMMA OnlySweepMoves == Next => Sweep \/ sweep' = sweep
  <1>1. Failure \/ AdoptionSnapshot => sweep' = sweep
    BY DEF NoCmd, At, End, ClaimLost, ReleaseFails, RenewFails, AdoptionSnapshot, Crash,
           Failure
  <1>2. ASSUME NEW i \in Instance, Request(i) \/ Renewal(i)
        PROVE  sweep' = sweep
    BY <1>2
       DEF PublishEvidence, ClaimGranted, ClaimRefused, Remember, ReleaseGate,
           ReleaseTell, RenewRound, RenewEnter, RenewGranted, RenewRefused, RenewDrop,
           WriteAct, KillAct, KillForget, Request, Renewal
  <1>3. ASSUME NEW i \in Instance, NEW s \in Session, User(i, s)
        PROVE  sweep' = sweep
    BY <1>3
       DEF PublishRegister, AdoptBegin, Restore, ReleaseBegin, WriteCheck, KillCheck,
           ViewOpen, ViewClose, User
  <1>4. ASSUME NEW s \in Session,
               Exit(s) \/ FallSilent(s) \/ Speak(s) \/ GrowOld(s) \/ Lapse(s)
        PROVE  sweep' = sweep
    BY <1>4 DEF Exit, FallSilent, Speak, GrowOld, Lapse
  <1> QED BY <1>1, <1>2, <1>3, <1>4 DEF Next

\* Only KillAct takes a command from the check to the kill.
LEMMA OnlyKillActKills ==
  ASSUME IInv, Next, NEW i \in Instance, cmd[i].op = "kill", cmd'[i].op = "killed"
  PROVE  KillAct(i)
  <1>1. cmd' # cmd
    OBVIOUS
  <1>2. ~Sweep /\ ~AdoptionSnapshot
    BY <1>1
       DEF AdoptionSnapshot, Reaping, SweepList, SweepActivity, SweepSelect, SweepLook,
           SweepUsed, SweepFresh, SweepKill, SweepForget, SweepEnd, Sweep
  <1>3. /\ \A j \in Instance : ~End(j)
        /\ \A j \in Instance : \A op : Goto(j, op) => j = i /\ op = "killed"
        /\ \A j \in Instance : \A op, s : ~Begin(j, op, s)
    <2>1. ASSUME NEW j \in Instance, End(j)
          PROVE  FALSE
      <3>1. cmd'[i] = cmd[i] \/ cmd'[i] = NoCmd
        BY <2>1 DEF End, IInv, TypeOK
      <3> QED BY <3>1 DEF NoCmd
    <2>2. ASSUME NEW j \in Instance, NEW op, Goto(j, op)
          PROVE  j = i /\ op = "killed"
      <3>1. j # i => cmd'[i] = cmd[i]
        BY <2>2 DEF Goto, IInv, TypeOK
      <3>2. j = i => cmd'[i] = [cmd[i] EXCEPT !.op = op]
        BY <2>2 DEF Goto, IInv, TypeOK
      <3>3. cmd[i] = [op |-> cmd[i].op, s |-> cmd[i].s]
        BY DEF IInv, TypeOK
      <3> QED BY <3>1, <3>2, <3>3
    <2>3. ASSUME NEW j \in Instance, NEW op, NEW s, Begin(j, op, s)
          PROVE  FALSE
      <3>1. cmd[j].op = "idle"
        BY <2>3 DEF Begin, NoCmd
      <3>2. cmd'[i] = cmd[i]
        BY <2>3, <3>1 DEF Begin, IInv, TypeOK
      <3> QED BY <3>2
    <2> QED BY <2>1, <2>2, <2>3
  <1>4. ~Failure
    BY <1>1, <1>3 DEF Failure, ClaimLost, ReleaseFails, RenewFails, Crash
  <1>5. ASSUME NEW j \in Instance, Request(j) \/ Renewal(j)
        PROVE  KillAct(i)
    BY <1>1, <1>3, <1>5
       DEF PublishEvidence, ClaimGranted, ClaimRefused, Remember, ReleaseGate,
           ReleaseTell, RenewRound, RenewEnter, RenewGranted, RenewRefused, RenewDrop,
           WriteAct, KillAct, KillForget, Request, Renewal
  <1>6. \A j \in Instance, s \in Session : ~User(j, s)
    BY <1>1, <1>3
       DEF PublishRegister, AdoptBegin, Restore, ReleaseBegin, WriteCheck, KillCheck,
           ViewOpen, ViewClose, User
  <1>7. \A s \in Session :
           ~(Exit(s) \/ FallSilent(s) \/ Speak(s) \/ GrowOld(s) \/ Lapse(s))
    BY <1>1 DEF Exit, FallSilent, Speak, GrowOld, Lapse
  <1> QED BY <1>2, <1>4, <1>5, <1>6, <1>7 DEF Next

LEMMA Invariance == Spec => []IInv
  BY InitIInv, NextIInv, PTL DEF Spec

\* The types of the leases, and what the stages of a sweep and of a command imply.
THEOREM LeaseTypes == Spec => []TypeOK
  <1>1. IInv => TypeOK
    BY DEF IInv
  <1> QED BY <1>1, Invariance, PTL

\* No renewal takes back the lease of a live session that its instance has released
\* and not asked for again, however renewals, releases and crashes interleave.
THEOREM ReleaseIsFinal == Spec => []DetachIsFinal
  <1>1. IInv => DetachIsFinal
    BY DEF IInv
  <1> QED BY <1>1, Invariance, PTL

\* Neither the reaper nor an instance kills a live session under a holder that it
\* could have seen when it looked for the last time.
THEOREM HolderSpared == Spec => HolderIsSpared
  <1>1. IInv /\ [Next]_vars =>
          [\A s \in Session : life[s] = "live" /\ life'[s] = "dead" =>
             /\ sweep.at = "kill" /\ sweep'.at = "forget" /\ Reaper \notin overtaken => ~Held(s)
             /\ \A i \in Instance :
                   cmd[i].op = "kill" /\ cmd'[i].op = "killed" /\ i \notin overtaken
                   => MayWrite(i, s)]_vars
    <2> SUFFICES ASSUME IInv, Next, NEW s \in Session, life[s] = "live", life'[s] = "dead"
                 PROVE  /\ sweep.at = "kill" /\ sweep'.at = "forget" /\ Reaper \notin overtaken
                              => ~Held(s)
                        /\ \A i \in Instance :
                              cmd[i].op = "kill" /\ cmd'[i].op = "killed" /\ i \notin overtaken
                              => MayWrite(i, s)
      OBVIOUS
    <2>1. ASSUME sweep.at = "kill", sweep'.at = "forget", Reaper \notin overtaken
          PROVE  ~Held(s)
      <3>1. SweepKill
        BY <2>1, OnlySweepMoves
           DEF Sweep, SweepList, SweepActivity, SweepSelect, SweepLook, SweepUsed,
               SweepFresh, SweepKill, SweepForget, SweepEnd
      <3>2. s = sweep.victim
        BY <3>1 DEF SweepKill, IInv, TypeOK
      <3> QED BY <2>1, <3>2 DEF IInv, LookStands
    <2>2. ASSUME NEW i \in Instance,
                 cmd[i].op = "kill", cmd'[i].op = "killed", i \notin overtaken
          PROVE  MayWrite(i, s)
      <3>1. KillAct(i)
        BY <2>2, OnlyKillActKills
      <3>2. s = cmd[i].s
        BY <3>1 DEF KillAct, IInv, TypeOK
      <3> QED BY <2>2, <3>2 DEF IInv, LookStands
    <2> QED BY <2>1, <2>2
  <1> QED BY <1>1, Invariance, PTL DEF Spec, HolderIsSpared
=============================================================================
