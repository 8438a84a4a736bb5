--------------------------- MODULE TaskQueueProofs ---------------------------
(***************************************************************************)
(* Theorems about TaskQueue, for every set of sessions, items and tokens   *)
(* and every value of the bounds: the claim protocol first, then what the  *)
(* terminal receives, then the refinement of AtMostOnceQueue.              *)
(***************************************************************************)
EXTENDS TaskQueue, TLAPS

\* An id in the item table was handed out by an earlier add.
RowsWereAdded == DOMAIN row \subseteq DOMAIN ahead

\* The status and the readiness values a step can write.
LEMMA ReadinessTypes ==
    /\ GatewayReadiness \subseteq Readiness
    /\ Readiness \cap Statuses \subseteq Statuses
    /\ \A state \in ItemStates \ {"dispatching"} : StatusOfOutcome(state) \in Statuses
  BY DEF GatewayReadiness, Readiness, Statuses, ItemStates, StatusOfOutcome

LEMMA AtIsWorker == \A pc \in ProgramPoints : At(pc) \in Worker
  BY DEF At, Worker, Readiness

\* A position never goes below zero: a row is moved only past one below it.
LEMMA WithoutType ==
  ASSUME TypeOK, NEW i \in DOMAIN row
  PROVE  /\ DOMAIN Without(i) = DOMAIN row \ {i}
         /\ \A j \in DOMAIN row \ {i} :
               /\ Without(i)[j] \in Row
               /\ Without(i)[j].session = row[j].session
               /\ Without(i)[j].state = row[j].state
               /\ Without(i)[j].token = row[j].token
               /\ Without(i)[j].position =
                     IF row[j].session = row[i].session /\ row[j].position > row[i].position
                     THEN row[j].position - 1 ELSE row[j].position
  <1>1. DOMAIN Without(i) = DOMAIN row \ {i}
    BY DEF Without
  <1>2. ASSUME NEW j \in DOMAIN row \ {i}
        PROVE  /\ Without(i)[j] \in Row
               /\ Without(i)[j].session = row[j].session
               /\ Without(i)[j].state = row[j].state
               /\ Without(i)[j].token = row[j].token
               /\ Without(i)[j].position =
                     IF row[j].session = row[i].session /\ row[j].position > row[i].position
                     THEN row[j].position - 1 ELSE row[j].position
    <2>1. row[j] \in Row /\ row[i] \in Row
      BY DEF TypeOK
    <2>2. CASE row[j].session = row[i].session /\ row[j].position > row[i].position
      <3>1. Without(i)[j] = [row[j] EXCEPT !.position = row[j].position - 1]
        BY <2>2 DEF Without
      <3>2. row[j].position - 1 \in Nat
        BY <2>1, <2>2 DEF Row
      <3> QED BY <2>1, <2>2, <3>1, <3>2 DEF Row
    <2>3. CASE ~(row[j].session = row[i].session /\ row[j].position > row[i].position)
      <3>1. Without(i)[j] = row[j]
        BY <2>3 DEF Without
      <3> QED BY <2>1, <2>3, <3>1 DEF Row
    <2> QED BY <2>2, <2>3
  <1> QED BY <1>1, <1>2
-----------------------------------------------------------------------------
LEMMA InitType == Init => TypeOK /\ RowsWereAdded
  <1> SUFFICES ASSUME Init
               PROVE  TypeOK /\ RowsWereAdded
    OBVIOUS
  <1>1. worker \in Worker
    BY AtIsWorker DEF Init, ProgramPoints
  <1>2. queue \in [Sessions -> Queue]
    BY DEF Init, Queue, Statuses
  <1>3. DOMAIN row = {} /\ DOMAIN ahead = {}
    BY DEF Init
  <1> QED BY <1>1, <1>2, <1>3 DEF Init, TypeOK, RowsWereAdded

\* The new token and status of a queue, the new state and token of a row.
LEMMA QueueUpdateType ==
  ASSUME TypeOK, NEW s \in Sessions, NEW status \in Statuses, NEW t \in Tokens \cup {None}
  PROVE  /\ Labelled(s, status, t) \in [Sessions -> Queue]
         /\ \A z \in Sessions \ {s} : Labelled(s, status, t)[z] = queue[z]
         /\ Labelled(s, status, t)[s].token = t
         /\ Labelled(s, status, t)[s].status = status
         /\ Labelled(s, status, t)[s].paused = queue[s].paused
  BY DEF TypeOK, Queue, Labelled

LEMMA RowUpdateType ==
  ASSUME TypeOK, NEW i \in DOMAIN row, NEW state \in ItemStates, NEW t \in Tokens \cup {None}
  PROVE  /\ DOMAIN Marked(i, state, t) = DOMAIN row
         /\ \A j \in DOMAIN row : Marked(i, state, t)[j] \in Row
         /\ \A j \in DOMAIN row \ {i} : Marked(i, state, t)[j] = row[j]
         /\ Marked(i, state, t)[i].session = row[i].session
         /\ Marked(i, state, t)[i].position = row[i].position
         /\ Marked(i, state, t)[i].state = state
         /\ Marked(i, state, t)[i].token = t
  BY DEF TypeOK, Row, Marked

LEMMA FinishClaimType ==
  ASSUME TypeOK, NEW state \in ItemStates \ {"dispatching"}, FinishClaim(state)
  PROVE  /\ queue' \in [Sessions -> Queue]
         /\ DOMAIN row' = DOMAIN row
         /\ \A j \in DOMAIN row' : row'[j] \in Row
  <1>1. worker.id \in DOMAIN row /\ row[worker.id] \in Row /\ worker.session \in Sessions
    BY DEF FinishClaim, ClaimIsCurrent, Rows, TypeOK, Row
  <1>2. StatusOfOutcome(state) \in Statuses
    BY ReadinessTypes
  <1>3. queue' \in [Sessions -> Queue]
    BY <1>1, <1>2, QueueUpdateType DEF FinishClaim
  <1> QED BY <1>1, <1>3, RowUpdateType DEF FinishClaim

\* Every step keeps the types; no step takes a row whose id was not handed out.
LEMMA NextType == TypeOK /\ RowsWereAdded /\ [Next]_vars => TypeOK' /\ RowsWereAdded'
  <1> SUFFICES ASSUME TypeOK, RowsWereAdded, [Next]_vars
               PROVE  TypeOK' /\ RowsWereAdded'
    OBVIOUS
  <1> USE DEF RowsWereAdded
  <1>1. ASSUME NEW s \in Sessions, NEW i \in Items, AddItem(s, i)
        PROVE  TypeOK' /\ RowsWereAdded'
    <2>1. DOMAIN row' = DOMAIN row \cup {i} /\ \A j \in DOMAIN row' : row'[j] \in Row
      BY <1>1 DEF AddItem, TypeOK, Row, ItemStates, Rows
    <2>2. /\ DOMAIN ahead' = DOMAIN ahead \cup {i}
          /\ \A j \in DOMAIN ahead' : ahead'[j] \subseteq Items
      BY <1>1 DEF AddItem, TypeOK, Rows
    <2> QED BY <1>1, <2>1, <2>2 DEF AddItem, TypeOK
  <1>2. ASSUME NEW i \in Items, DeleteItem(i)
        PROVE  TypeOK' /\ RowsWereAdded'
    BY <1>2, WithoutType DEF DeleteItem, TypeOK
  <1>3. ASSUME NEW i \in Items, RetryItem(i)
        PROVE  TypeOK' /\ RowsWereAdded'
    <2>1. row[i].session \in Sessions /\ i \in DOMAIN row
      BY <1>3 DEF RetryItem, TypeOK, Row
    <2>2. queue' \in [Sessions -> Queue]
      BY <1>3, <2>1, QueueUpdateType DEF RetryItem, Statuses
    <2>3. DOMAIN row' = DOMAIN row /\ \A j \in DOMAIN row' : row'[j] \in Row
      BY <1>3, <2>1, RowUpdateType DEF RetryItem, ItemStates
    <2>4. retries' \in [Items -> Nat]
      BY <1>3 DEF RetryItem, TypeOK
    <2> QED BY <1>3, <2>2, <2>3, <2>4 DEF RetryItem, TypeOK
  <1>4. ASSUME NEW s \in Sessions, ClearQueue(s)
        PROVE  TypeOK' /\ RowsWereAdded'
    BY <1>4 DEF ClearQueue, TypeOK, Queue, Statuses
  <1>5. ASSUME NEW s \in Sessions, NEW paused \in BOOLEAN, UpdateControl(s, paused)
        PROVE  TypeOK' /\ RowsWereAdded'
    BY <1>5 DEF UpdateControl, TypeOK, Queue
  <1>6. ASSUME NEW e \in BOOLEAN, SetGlobalEnabled(e)
        PROVE  TypeOK' /\ RowsWereAdded'
    BY <1>6 DEF SetGlobalEnabled, TypeOK
  <1>7. CASE Crash
    BY <1>7, AtIsWorker DEF Crash, TypeOK, ProgramPoints
  <1>8. CASE StartRuntime
    BY <1>8, AtIsWorker DEF StartRuntime, TypeOK, ProgramPoints
  <1>9. CASE StartWorker
    <2>1. queue' \in [Sessions -> Queue]
      BY <1>9 DEF StartWorker, TypeOK, Queue, Statuses
    <2>2. DOMAIN row' = DOMAIN row /\ \A j \in DOMAIN row' : row'[j] \in Row
      BY <1>9 DEF StartWorker, TypeOK, Row, ItemStates
    <2> QED BY <1>9, <2>1, <2>2, AtIsWorker DEF StartWorker, TypeOK, ProgramPoints
  <1>10. ASSUME NEW s \in Sessions, Begin(s)
         PROVE  TypeOK' /\ RowsWereAdded'
    <2>1. worker' \in Worker
      BY <1>10 DEF Begin, TypeOK, At, Worker, ProgramPoints, Readiness
    <2> QED BY <1>10, <2>1 DEF Begin, TypeOK
  <1>11. CASE Step
    <2>1. At("idle") \in Worker
      BY AtIsWorker DEF ProgramPoints
    <2>2. \A pc \in ProgramPoints : Goto(pc) => worker' \in Worker
      BY DEF TypeOK, Goto, Worker
    <2>3. \A pc \in ProgramPoints, r \in Readiness :
             [worker EXCEPT !.pc = pc, !.readiness = r] \in Worker
      BY DEF TypeOK, Worker
    <2>4. CASE ReadSnapshot
      BY <2>1, <2>2, <2>4 DEF ReadSnapshot, Return, TypeOK, ProgramPoints
    <2>5. CASE CheckReadiness
      BY <2>1, <2>2, <2>3, <2>5, ReadinessTypes DEF CheckReadiness, Return, TypeOK, ProgramPoints
    <2>6. CASE ClaimNext
      <3>1. ASSUME NEW i \in Rows(worker.session), NEW t \in Tokens,
                   row' = Marked(i, "dispatching", t),
                   queue' = Labelled(worker.session, "dispatching", t),
                   worker' = [worker EXCEPT !.pc = "recheck", !.id = i, !.token = t],
                   UNCHANGED revoked
            PROVE  TypeOK' /\ RowsWereAdded'
        <4>1. i \in DOMAIN row /\ i \in Items /\ worker.session \in Sessions
          BY DEF Rows, TypeOK, Row
        <4>2. queue' \in [Sessions -> Queue]
          BY <3>1, <4>1, QueueUpdateType DEF Statuses
        <4>3. DOMAIN row' = DOMAIN row /\ \A j \in DOMAIN row' : row'[j] \in Row
          BY <3>1, <4>1, RowUpdateType DEF ItemStates
        <4>4. worker' \in Worker
          BY <3>1, <4>1 DEF TypeOK, Worker, ProgramPoints
        <4> QED BY <2>6, <3>1, <4>2, <4>3, <4>4 DEF ClaimNext, TypeOK
      <3>2. CASE Return /\ UNCHANGED <<queue, row>>
        BY <2>1, <2>6, <3>2 DEF ClaimNext, Return, TypeOK
      <3> QED BY <2>6, <3>1, <3>2 DEF ClaimNext
    <2>7. ASSUME NEW next \in ProgramPoints, CheckRuntime(next)
          PROVE  TypeOK' /\ RowsWereAdded'
      BY <2>2, <2>3, <2>7 DEF CheckRuntime, TypeOK, ProgramPoints, Readiness
    <2>8. CASE Confirm
      BY <2>1, <2>2, <2>3, <2>8, ReadinessTypes DEF Confirm, Return, TypeOK, ProgramPoints
    <2>9. CASE Submit
      BY <2>2, <2>3, <2>9, ReadinessTypes DEF Submit, TypeOK, ProgramPoints
    <2>10. CASE WriteText
      <3>1. sent' \in [Items -> Nat]
        BY <2>10 DEF WriteText, TypeOK
      <3> QED BY <2>2, <2>10, <3>1 DEF WriteText, TypeOK, ProgramPoints
    <2>11. CASE CompleteClaim
      <3>1. CASE ClaimIsCurrent(worker.session, worker.id, worker.token)
        <4>1. worker.id \in DOMAIN row /\ worker.session \in Sessions
          BY <3>1 DEF ClaimIsCurrent, Rows, TypeOK, Row
        <4>2. queue' \in [Sessions -> Queue]
          BY <2>11, <3>1, <4>1, QueueUpdateType DEF CompleteClaim, Statuses
        <4>3. row' = Without(worker.id)
          BY <2>11, <3>1 DEF CompleteClaim
        <4>4. DOMAIN row' \subseteq DOMAIN row /\ \A j \in DOMAIN row' : row'[j] \in Row
          BY <4>1, <4>3, WithoutType
        <4> QED BY <2>1, <2>11, <4>2, <4>4 DEF CompleteClaim, Return, TypeOK
      <3>2. CASE ~ClaimIsCurrent(worker.session, worker.id, worker.token)
        BY <2>1, <2>11, <3>2 DEF CompleteClaim, Return, TypeOK
      <3> QED BY <3>1, <3>2
    <2>12. CASE Requeue
      BY <2>1, <2>2, <2>12, FinishClaimType
         DEF Requeue, ClaimConflict, Return, TypeOK, ProgramPoints, ItemStates
    <2>13. CASE PersistReadiness
      <3>1. queue' \in [Sessions -> Queue]
        BY <2>13 DEF PersistReadiness, TypeOK, Queue
      <3> QED BY <2>1, <2>13, <3>1 DEF PersistReadiness, Return, TypeOK
    <2>14. CASE FailClaim
      BY <2>1, <2>14, FinishClaimType DEF FailClaim, ClaimConflict, Return, TypeOK, ItemStates
    <2>15. CASE MarkDeliveryUnknown
      BY <2>1, <2>15, FinishClaimType
         DEF MarkDeliveryUnknown, ClaimConflict, Return, TypeOK, ItemStates
    <2> QED BY <1>11, <2>4, <2>5, <2>6, <2>7, <2>8, <2>9, <2>10, <2>11, <2>12, <2>13,
               <2>14, <2>15 DEF Step, Recheck, LastCheck, ProgramPoints
  <1>12. CASE UNCHANGED vars
    BY <1>12 DEF vars, TypeOK
  <1> QED BY <1>1, <1>2, <1>3, <1>4, <1>5, <1>6, <1>7, <1>8, <1>9, <1>10, <1>11, <1>12
         DEF Next, UserCommand, Startup

\* The schema's CHECK constraints and the program points of check_session hold in
\* every state: no transaction leaves a queue or an item outside its domain.
THEOREM TypeCorrect == Spec => []TypeOK
  <1>1. Spec => [](TypeOK /\ RowsWereAdded)
    BY InitType, NextType, PTL DEF Spec
  <1> QED BY <1>1, PTL
-----------------------------------------------------------------------------
(* The claim protocol.  ClaimHeld alone is not inductive: retry_item       *)
(* clears the token of a queue without looking at it.  That it cannot hit  *)
(* a claim follows from positions being unique and only the head being     *)
(* touched: a failed item and a dispatching one would both be the head.    *)

IInv ==
    /\ TypeOK
    /\ RowsWereAdded
    /\ UniquePositions
    /\ OnlyHeadMoves
    /\ OneClaimPerQueue
    /\ ClaimHeld

LEMMA HeadIsUnique ==
  ASSUME TypeOK, UniquePositions, NEW s \in Sessions, NEW i, NEW j, IsHead(s, i), IsHead(s, j)
  PROVE  i = j
  <1>1. /\ i \in DOMAIN row /\ row[i].session = s /\ row[i].position \in Nat
        /\ j \in DOMAIN row /\ row[j].session = s /\ row[j].position \in Nat
    BY DEF IsHead, Rows, TypeOK, Row
  <1>2. row[i].position <= row[j].position /\ row[j].position <= row[i].position
    BY DEF IsHead
  <1> QED BY <1>1, <1>2 DEF UniquePositions

\* A claim in the tables belongs to the head, so a queue has no second
\* item that is not queued.
LEMMA ClaimedIsOnlyMoved ==
  ASSUME IInv, NEW i \in DOMAIN row, NEW j \in DOMAIN row,
         row[i].session = row[j].session,
         row[i].state # "queued", row[j].state # "queued"
  PROVE  i = j
  <1>1. IsHead(row[i].session, i) /\ IsHead(row[i].session, j)
    BY DEF IInv, OnlyHeadMoves
  <1>2. row[i].session \in Sessions
    BY DEF IInv, TypeOK, Row
  <1> QED BY <1>1, <1>2, HeadIsUnique DEF IInv

\* Steps that leave the tables alone, whatever the worker does with its claim.
LEMMA QuietStep ==
  ASSUME IInv, TypeOK', UNCHANGED <<queue, row, ahead>>,
         worker'.pc \in Holding =>
            /\ worker.pc \in Holding
            /\ worker'.session = worker.session
            /\ worker'.id = worker.id
            /\ worker'.token = worker.token
  PROVE  IInv'
  BY DEF IInv, RowsWereAdded, UniquePositions, OnlyHeadMoves, OneClaimPerQueue, ClaimHeld,
         ClaimIsCurrent, IsHead, Rows

\* Deleting a row keeps the order of the others.
LEMMA RemovalKeepsHeads ==
  ASSUME TypeOK, UniquePositions, OnlyHeadMoves, NEW i \in DOMAIN row, row' = Without(i)
  PROVE  /\ UniquePositions'
         /\ OnlyHeadMoves'
         /\ \A s \in Sessions, j \in DOMAIN row \ {i} : IsHead(s, j) => IsHead(s, j)'
  <1>1. /\ DOMAIN row' = DOMAIN row \ {i}
        /\ \A j \in DOMAIN row \ {i} :
              /\ row'[j].session = row[j].session
              /\ row'[j].state = row[j].state
              /\ row'[j].position =
                    IF row[j].session = row[i].session /\ row[j].position > row[i].position
                    THEN row[j].position - 1 ELSE row[j].position
    BY WithoutType
  <1>2. \A j \in DOMAIN row : row[j].position \in Nat /\ row[j].session \in Sessions
    BY DEF TypeOK, Row
  <1>3. ASSUME NEW j \in DOMAIN row \ {i}, NEW k \in DOMAIN row \ {i},
               row[j].session = row[k].session, row[j].position < row[k].position
        PROVE  row'[j].position < row'[k].position
    <2>1. row[j].session = row[i].session =>
             row[j].position # row[i].position /\ row[k].position # row[i].position
      BY <1>3 DEF UniquePositions
    <2> QED BY <1>1, <1>2, <1>3, <2>1
  <1>4. UniquePositions'
    <2> SUFFICES ASSUME NEW j \in DOMAIN row', NEW k \in DOMAIN row',
                        row'[j].session = row'[k].session,
                        row'[j].position = row'[k].position
                 PROVE  j = k
      BY DEF UniquePositions
    <2>1. ~(row[j].position < row[k].position) /\ ~(row[k].position < row[j].position)
      BY <1>1, <1>2, <1>3
    <2> QED BY <1>1, <1>2, <2>1 DEF UniquePositions
  <1>5. ASSUME NEW s \in Sessions, NEW j \in DOMAIN row \ {i}, IsHead(s, j)
        PROVE  IsHead(s, j)'
    <2>1. j \in Rows(s)'
      BY <1>1, <1>5 DEF IsHead, Rows
    <2>2. ASSUME NEW k \in Rows(s)'
          PROVE  row'[j].position <= row'[k].position
      <3>1. /\ k \in DOMAIN row \ {i} /\ row[k].session = s /\ row[j].session = s
            /\ row[j].position <= row[k].position
        BY <1>1, <1>5, <2>2 DEF IsHead, Rows
      <3>2. row'[j].position \in Int /\ row'[k].position \in Int
        BY <1>1, <1>2, <3>1
      <3>3. CASE row[j].position < row[k].position
        BY <1>3, <3>1, <3>2, <3>3
      <3>4. CASE row[j].position = row[k].position
        BY <1>1, <1>2, <3>1, <3>4
      <3> QED BY <1>2, <3>1, <3>3, <3>4
    <2> QED BY <2>1, <2>2 DEF IsHead
  <1>6. OnlyHeadMoves'
    BY <1>1, <1>2, <1>5 DEF OnlyHeadMoves
  <1> QED BY <1>4, <1>5, <1>6

\* Rewriting state and token of a head keeps sessions and positions.
LEMMA MarkKeepsHeads ==
  ASSUME TypeOK, UniquePositions, OnlyHeadMoves, NEW i \in DOMAIN row,
         IsHead(row[i].session, i),
         NEW state \in ItemStates, NEW t \in Tokens \cup {None}, row' = Marked(i, state, t)
  PROVE  /\ UniquePositions'
         /\ OnlyHeadMoves'
         /\ \A s \in Sessions, j \in DOMAIN row : IsHead(s, j) <=> IsHead(s, j)'
  <1>1. /\ DOMAIN row' = DOMAIN row
        /\ \A j \in DOMAIN row : /\ row'[j].session = row[j].session
                                 /\ row'[j].position = row[j].position
                                 /\ j # i => row'[j].state = row[j].state
    BY RowUpdateType
  <1>2. \A j \in DOMAIN row : row[j].session \in Sessions
    BY DEF TypeOK, Row
  <1>3. UniquePositions'
    BY <1>1 DEF UniquePositions
  <1>4. \A s \in Sessions, j \in DOMAIN row : IsHead(s, j) <=> IsHead(s, j)'
    BY <1>1 DEF IsHead, Rows
  <1>5. OnlyHeadMoves'
    <2> SUFFICES ASSUME NEW j \in DOMAIN row, row'[j].state # "queued"
                 PROVE  IsHead(row[j].session, j)'
      BY <1>1 DEF OnlyHeadMoves
    <2>1. IsHead(row[j].session, j)
      BY <1>1 DEF OnlyHeadMoves
    <2>2. \A s \in Sessions : s = row[j].session => IsHead(s, j)'
      BY <1>4, <2>1
    <2>3. row'[j].session = row[j].session /\ row[j].session \in Sessions
      BY <1>1, <1>2
    <2> QED BY <2>2, <2>3 DEF IsHead, Rows
  <1> QED BY <1>3, <1>4, <1>5

LEMMA AddKeeps ==
  ASSUME IInv, TypeOK', RowsWereAdded', NEW s \in Sessions, NEW i \in Items, AddItem(s, i)
  PROVE  IInv'
  <1>1. i \notin DOMAIN row
    BY DEF AddItem, IInv, RowsWereAdded
  <1>2. PICK p \in {0} \cup {row[j].position + 1 : j \in Rows(s)} :
           /\ IsEndPosition(s, p)
           /\ row' = [j \in DOMAIN row \cup {i} |->
                         IF j = i
                         THEN [session |-> s, position |-> p, state |-> "queued", token |-> None]
                         ELSE row[j]]
    BY DEF AddItem
  <1>3. /\ DOMAIN row' = DOMAIN row \cup {i}
        /\ \A j \in DOMAIN row : row'[j] = row[j]
        /\ row'[i] = [session |-> s, position |-> p, state |-> "queued", token |-> None]
    BY <1>1, <1>2
  <1>4. \A j \in DOMAIN row : row[j].position \in Nat /\ row[j].session \in Sessions
    BY DEF IInv, TypeOK, Row
  <1>5. \A j \in Rows(s) : row[j].position < p
    BY <1>2, <1>4 DEF IsEndPosition, Rows
  <1>6. UniquePositions'
    BY <1>3, <1>4, <1>5 DEF IInv, UniquePositions, Rows
  <1>7. ASSUME NEW z \in Sessions, NEW j \in DOMAIN row, IsHead(z, j)
        PROVE  IsHead(z, j)'
    BY <1>3, <1>4, <1>5, <1>7 DEF IsHead, Rows
  <1>8. OnlyHeadMoves'
    BY <1>3, <1>4, <1>7 DEF IInv, OnlyHeadMoves
  <1>9. OneClaimPerQueue'
    <2>1. queue' = queue
      BY DEF AddItem
    <2>2. \A j \in DOMAIN row' :
             IF row'[j].state = "dispatching"
             THEN row'[j].token # None /\ queue'[row'[j].session].token = row'[j].token
             ELSE row'[j].token = None
      BY <1>3, <2>1 DEF IInv, OneClaimPerQueue
    <2>3. ASSUME NEW z \in Sessions, queue'[z].token # None
          PROVE  \E j \in Rows(z)' : row'[j].state = "dispatching" /\ IsHead(z, j)'
      <3>1. PICK j \in Rows(z) : row[j].state = "dispatching" /\ IsHead(z, j)
        BY <2>1, <2>3 DEF IInv, OneClaimPerQueue
      <3> QED BY <1>3, <1>7, <3>1 DEF Rows
    <2> QED BY <2>2, <2>3 DEF OneClaimPerQueue
  <1>10. ClaimHeld'
    BY <1>3 DEF AddItem, IInv, ClaimHeld, ClaimIsCurrent, Rows
  <1> QED BY <1>6, <1>8, <1>9, <1>10 DEF IInv

LEMMA DeleteKeeps ==
  ASSUME IInv, TypeOK', RowsWereAdded', NEW i \in Items, DeleteItem(i)
  PROVE  IInv'
  <1>1. i \in DOMAIN row /\ row' = Without(i) /\ queue' = queue /\ worker' = worker
    BY DEF DeleteItem
  <1>2. /\ DOMAIN row' = DOMAIN row \ {i}
        /\ \A j \in DOMAIN row \ {i} : /\ row'[j].session = row[j].session
                                       /\ row'[j].state = row[j].state
                                       /\ row'[j].token = row[j].token
    BY <1>1, WithoutType DEF IInv
  <1>3. /\ UniquePositions'
        /\ OnlyHeadMoves'
        /\ \A s \in Sessions, j \in DOMAIN row \ {i} : IsHead(s, j) => IsHead(s, j)'
    BY <1>1, RemovalKeepsHeads DEF IInv
  <1>4. OneClaimPerQueue'
    <2>1. \A j \in DOMAIN row' :
             IF row'[j].state = "dispatching"
             THEN row'[j].token # None /\ queue'[row'[j].session].token = row'[j].token
             ELSE row'[j].token = None
      BY <1>1, <1>2 DEF IInv, OneClaimPerQueue
    <2>2. ASSUME NEW z \in Sessions, queue'[z].token # None
          PROVE  \E j \in Rows(z)' : row'[j].state = "dispatching" /\ IsHead(z, j)'
      <3>1. PICK j \in Rows(z) : row[j].state = "dispatching" /\ IsHead(z, j)
        BY <1>1, <2>2 DEF IInv, OneClaimPerQueue
      <3>2. j \in DOMAIN row \ {i}
        BY <3>1 DEF DeleteItem, Rows
      <3> QED BY <1>2, <1>3, <3>1, <3>2 DEF Rows
    <2> QED BY <2>1, <2>2 DEF OneClaimPerQueue
  <1>5. ClaimHeld'
    BY <1>1, <1>2 DEF DeleteItem, IInv, ClaimHeld, ClaimIsCurrent, Rows
  <1> QED BY <1>3, <1>4, <1>5 DEF IInv

LEMMA ClearKeeps ==
  ASSUME IInv, TypeOK', RowsWereAdded', NEW s \in Sessions, ClearQueue(s)
  PROVE  IInv'
  <1>1. /\ DOMAIN row' = {k \in DOMAIN row : k \notin Rows(s) \/ row[k].state = "dispatching"}
        /\ \A j \in DOMAIN row' : row'[j] = row[j]
        /\ worker' = worker
    BY DEF ClearQueue
  <1>2. \A z \in Sessions : queue'[z].token = queue[z].token
    BY DEF ClearQueue, IInv, TypeOK, Queue
  <1>3. UniquePositions'
    BY <1>1 DEF IInv, UniquePositions
  <1>4. ASSUME NEW z \in Sessions, NEW j \in DOMAIN row', IsHead(z, j)
        PROVE  IsHead(z, j)'
    BY <1>1, <1>4 DEF IsHead, Rows
  <1>5. OnlyHeadMoves'
    <2>1. \A j \in DOMAIN row : row[j].session \in Sessions
      BY DEF IInv, TypeOK, Row
    <2>2. \A j \in DOMAIN row' : row[j].state # "queued" => IsHead(row[j].session, j)'
      BY <1>1, <1>4, <2>1 DEF IInv, OnlyHeadMoves
    <2> QED BY <1>1, <2>2 DEF OnlyHeadMoves
  <1>6. OneClaimPerQueue'
    <2>1. \A j \in DOMAIN row' :
             IF row'[j].state = "dispatching"
             THEN row'[j].token # None /\ queue'[row'[j].session].token = row'[j].token
             ELSE row'[j].token = None
      BY <1>1, <1>2 DEF IInv, OneClaimPerQueue, TypeOK, Row
    <2>2. ASSUME NEW z \in Sessions, queue'[z].token # None
          PROVE  \E j \in Rows(z)' : row'[j].state = "dispatching" /\ IsHead(z, j)'
      <3>1. PICK j \in Rows(z) : row[j].state = "dispatching" /\ IsHead(z, j)
        BY <1>2, <2>2 DEF IInv, OneClaimPerQueue
      <3> QED BY <1>1, <1>4, <3>1 DEF Rows
    <2> QED BY <2>1, <2>2 DEF OneClaimPerQueue
  <1>7. ClaimHeld'
    BY <1>1, <1>2 DEF IInv, TypeOK, Row, ClaimHeld, ClaimIsCurrent, Rows
  <1> QED BY <1>3, <1>5, <1>6, <1>7 DEF IInv

\* Steps that only change what a queue shows: its pause flag or its status.
LEMMA ShowKeeps ==
  ASSUME IInv, TypeOK', UNCHANGED <<row, ahead>>,
         \A z \in Sessions : queue'[z].token = queue[z].token,
         worker'.pc \in Holding => worker' = worker
  PROVE  IInv'
  <1>1. UniquePositions' /\ OnlyHeadMoves' /\ RowsWereAdded'
    BY DEF IInv, UniquePositions, OnlyHeadMoves, RowsWereAdded, IsHead, Rows
  <1>2. OneClaimPerQueue'
    BY DEF IInv, TypeOK, Row, OneClaimPerQueue, IsHead, Rows
  <1>3. ClaimHeld'
    BY DEF IInv, TypeOK, Row, ClaimHeld, ClaimIsCurrent, Rows
  <1> QED BY <1>1, <1>2, <1>3 DEF IInv

\* One row gets a new state and its queue a token to match: claim, finish, retry.
LEMMA MarkKeepsClaims ==
  ASSUME IInv, NEW i \in DOMAIN row, IsHead(row[i].session, i),
         NEW state \in ItemStates, NEW status \in Statuses, NEW t \in Tokens \cup {None},
         state = "dispatching" <=> t # None,
         row' = Marked(i, state, t), queue' = Labelled(row[i].session, status, t)
  PROVE  UniquePositions' /\ OnlyHeadMoves' /\ OneClaimPerQueue'
  <1>1. row[i].session \in Sessions
    BY DEF IInv, TypeOK, Row
  <1>2. /\ DOMAIN row' = DOMAIN row
        /\ \A j \in DOMAIN row \ {i} : row'[j] = row[j]
        /\ row'[i].session = row[i].session
        /\ row'[i].state = state
        /\ row'[i].token = t
    BY RowUpdateType DEF IInv
  <1>3. /\ \A z \in Sessions \ {row[i].session} : queue'[z] = queue[z]
        /\ queue'[row[i].session].token = t
    BY <1>1, QueueUpdateType DEF IInv
  <1>4. /\ UniquePositions'
        /\ OnlyHeadMoves'
        /\ \A s \in Sessions, j \in DOMAIN row : IsHead(s, j) <=> IsHead(s, j)'
    BY MarkKeepsHeads DEF IInv
  <1>5. ASSUME NEW j \in DOMAIN row \ {i}, row[j].state # "queued"
        PROVE  row[j].session # row[i].session
    <2>1. CASE row[j].session = row[i].session
      BY <1>1, <1>5, <2>1, HeadIsUnique DEF IInv, OnlyHeadMoves
    <2> QED BY <2>1
  <1>6. \A j \in DOMAIN row : row[j].session \in Sessions
    BY DEF IInv, TypeOK, Row
  <1>7. \A j \in DOMAIN row' :
           IF row'[j].state = "dispatching"
           THEN row'[j].token # None /\ queue'[row'[j].session].token = row'[j].token
           ELSE row'[j].token = None
    BY <1>2, <1>3, <1>5, <1>6 DEF IInv, OneClaimPerQueue
  <1>8. ASSUME NEW z \in Sessions, queue'[z].token # None
        PROVE  \E j \in Rows(z)' : row'[j].state = "dispatching" /\ IsHead(z, j)'
    <2>1. CASE z = row[i].session
      BY <1>2, <1>3, <1>4, <1>8, <2>1 DEF Rows
    <2>2. CASE z # row[i].session
      <3>1. PICK j \in Rows(z) : row[j].state = "dispatching" /\ IsHead(z, j)
        BY <1>3, <1>8, <2>2 DEF IInv, OneClaimPerQueue
      <3> QED BY <1>2, <1>4, <2>2, <3>1 DEF Rows
    <2> QED BY <2>1, <2>2
  <1> QED BY <1>4, <1>7, <1>8 DEF OneClaimPerQueue

LEMMA RetryKeeps ==
  ASSUME IInv, TypeOK', RowsWereAdded', NEW i \in Items, RetryItem(i)
  PROVE  IInv'
  <1>1. /\ i \in DOMAIN row
        /\ row[i].state \in {"failed", "delivery_unknown"}
        /\ row' = Marked(i, "queued", None)
        /\ queue' = Labelled(row[i].session, "running", None)
        /\ worker' = worker
    BY DEF RetryItem
  <1>2. UniquePositions' /\ OnlyHeadMoves' /\ OneClaimPerQueue'
    BY <1>1, MarkKeepsClaims DEF IInv, OnlyHeadMoves, ItemStates, Statuses
  <1>3. ClaimHeld'
    <2> SUFFICES ASSUME worker.pc \in Holding
                 PROVE  ClaimIsCurrent(worker.session, worker.id, worker.token)'
      BY <1>1 DEF ClaimHeld
    <2>1. /\ worker.id \in DOMAIN row
          /\ row[worker.id].session = worker.session
          /\ row[worker.id].state = "dispatching"
          /\ row[worker.id].token = worker.token
          /\ queue[worker.session].token = worker.token
      BY DEF IInv, ClaimHeld, ClaimIsCurrent, Rows
    <2>2. worker.id # i /\ row[i].session # worker.session
      BY <1>1, <2>1, ClaimedIsOnlyMoved
    <2>3. row'[worker.id] = row[worker.id] /\ DOMAIN row' = DOMAIN row
      BY <1>1, <2>1, <2>2, RowUpdateType DEF IInv, ItemStates
    <2>4. queue'[worker.session] = queue[worker.session]
      BY <1>1, <2>1, <2>2, QueueUpdateType DEF IInv, TypeOK, Row, Statuses
    <2> QED BY <1>1, <2>1, <2>3, <2>4 DEF ClaimIsCurrent, Rows
  <1> QED BY <1>2, <1>3 DEF IInv

LEMMA RecoverKeeps ==
  ASSUME IInv, TypeOK', RowsWereAdded', StartWorker
  PROVE  IInv'
  <1>1. /\ DOMAIN row' = DOMAIN row
        /\ \A j \in DOMAIN row :
              /\ row'[j].session = row[j].session
              /\ row'[j].position = row[j].position
              /\ row'[j].state # "dispatching"
              /\ row'[j].state # "queued" <=> row[j].state # "queued"
              /\ row'[j].token = None
    <2> SUFFICES ASSUME NEW j \in DOMAIN row
                 PROVE  /\ row'[j].session = row[j].session
                        /\ row'[j].position = row[j].position
                        /\ row'[j].state # "dispatching"
                        /\ row'[j].state # "queued" <=> row[j].state # "queued"
                        /\ row'[j].token = None
      BY DEF StartWorker
    <2>1. row[j] \in Row
      BY DEF IInv, TypeOK
    <2>2. CASE row[j].state = "dispatching"
      <3>1. row'[j] = [row[j] EXCEPT !.state = "delivery_unknown", !.token = None]
        BY <2>2 DEF StartWorker
      <3> QED BY <2>1, <2>2, <3>1 DEF Row
    <2>3. CASE row[j].state # "dispatching"
      BY <2>3 DEF StartWorker, IInv, OneClaimPerQueue
    <2> QED BY <2>2, <2>3
  <1>2. \A z \in Sessions : queue'[z].token = None
    BY DEF StartWorker, IInv, TypeOK, Queue
  <1>3. UniquePositions' /\ OnlyHeadMoves'
    BY <1>1 DEF IInv, UniquePositions, OnlyHeadMoves, IsHead, Rows
  <1>4. OneClaimPerQueue'
    BY <1>1, <1>2 DEF OneClaimPerQueue
  <1>5. ClaimHeld'
    BY DEF StartWorker, ClaimHeld, At, Holding
  <1> QED BY <1>3, <1>4, <1>5 DEF IInv

LEMMA ClaimKeeps ==
  ASSUME IInv, TypeOK', RowsWereAdded', ClaimNext
  PROVE  IInv'
  <1>1. ASSUME NEW i \in Rows(worker.session), NEW t \in Tokens,
               MayClaim(worker.session, i),
               row' = Marked(i, "dispatching", t),
               queue' = Labelled(worker.session, "dispatching", t),
               worker' = [worker EXCEPT !.pc = "recheck", !.id = i, !.token = t]
        PROVE  IInv'
    <2>1. /\ i \in DOMAIN row /\ row[i].session = worker.session
          /\ IsHead(row[i].session, i) /\ row[i].session \in Sessions
      BY <1>1 DEF MayClaim, Rows, IInv, TypeOK, Row
    <2>2. t # None
      BY NoneAssumption
    <2>3. UniquePositions' /\ OnlyHeadMoves' /\ OneClaimPerQueue'
      BY <1>1, <2>1, <2>2, MarkKeepsClaims DEF ItemStates, Statuses
    <2>4. worker'.session = worker.session /\ worker'.id = i /\ worker'.token = t
      BY <1>1 DEF IInv, TypeOK, Worker
    <2>5. /\ DOMAIN row' = DOMAIN row
          /\ row'[i].session = worker.session
          /\ row'[i].state = "dispatching"
          /\ row'[i].token = t
      BY <1>1, <2>1, RowUpdateType DEF IInv, ItemStates
    <2>6. queue'[worker.session].token = t
      <3>1. worker.session \in Sessions /\ "dispatching" \in Statuses /\ t \in Tokens \cup {None}
        BY <2>1 DEF Statuses
      <3>2. Labelled(worker.session, "dispatching", t)[worker.session].token = t
        BY <3>1, QueueUpdateType DEF IInv
      <3> QED BY <1>1, <3>2
    <2>7. ClaimHeld'
      BY <2>1, <2>4, <2>5, <2>6 DEF ClaimHeld, ClaimIsCurrent, Rows
    <2> QED BY <2>3, <2>7 DEF IInv
  <1>2. CASE Return /\ UNCHANGED <<queue, row>>
    BY <1>2, QuietStep DEF ClaimNext, Return, At, Holding
  <1> QED BY <1>1, <1>2 DEF ClaimNext

LEMMA CompleteKeeps ==
  ASSUME IInv, TypeOK', RowsWereAdded', CompleteClaim
  PROVE  IInv'
  <1>1. ~(worker'.pc \in Holding)
    BY DEF CompleteClaim, Return, At, Holding
  <1>2. CASE ClaimIsCurrent(worker.session, worker.id, worker.token)
    <2>1. /\ worker.id \in DOMAIN row
          /\ row[worker.id].session = worker.session
          /\ row[worker.id].state = "dispatching"
          /\ worker.session \in Sessions
      BY <1>2 DEF ClaimIsCurrent, Rows, IInv, TypeOK, Row
    <2>2. row' = Without(worker.id) /\ queue' = Labelled(worker.session, "running", None)
      BY <1>2 DEF CompleteClaim
    <2>3. /\ DOMAIN row' = DOMAIN row \ {worker.id}
          /\ \A j \in DOMAIN row \ {worker.id} : /\ row'[j].session = row[j].session
                                                 /\ row'[j].state = row[j].state
                                                 /\ row'[j].token = row[j].token
      BY <2>1, <2>2, WithoutType DEF IInv
    <2>4. /\ UniquePositions'
          /\ OnlyHeadMoves'
          /\ \A s \in Sessions, j \in DOMAIN row \ {worker.id} : IsHead(s, j) => IsHead(s, j)'
      BY <2>1, <2>2, RemovalKeepsHeads DEF IInv
    <2>5. /\ \A z \in Sessions \ {worker.session} : queue'[z] = queue[z]
          /\ queue'[worker.session].token = None
      BY <2>1, <2>2, QueueUpdateType DEF IInv, Statuses
    <2>6. ASSUME NEW j \in DOMAIN row', row'[j].state # "queued"
          PROVE  row[j].session # worker.session
      BY <2>1, <2>3, <2>6, ClaimedIsOnlyMoved
    <2>7. \A j \in DOMAIN row' :
             IF row'[j].state = "dispatching"
             THEN row'[j].token # None /\ queue'[row'[j].session].token = row'[j].token
             ELSE row'[j].token = None
      BY <2>3, <2>5, <2>6 DEF IInv, OneClaimPerQueue, TypeOK, Row
    <2>8. ASSUME NEW z \in Sessions, queue'[z].token # None
          PROVE  \E j \in Rows(z)' : row'[j].state = "dispatching" /\ IsHead(z, j)'
      <3>1. z # worker.session /\ queue[z].token # None
        BY <2>5, <2>8
      <3>2. PICK j \in Rows(z) : row[j].state = "dispatching" /\ IsHead(z, j)
        BY <3>1 DEF IInv, OneClaimPerQueue
      <3>3. j \in DOMAIN row \ {worker.id}
        BY <2>1, <3>1, <3>2 DEF Rows
      <3> QED BY <2>3, <2>4, <3>2, <3>3 DEF Rows
    <2>9. OneClaimPerQueue'
      BY <2>7, <2>8 DEF OneClaimPerQueue
    <2> QED BY <1>1, <2>4, <2>9 DEF IInv, ClaimHeld
  <1>3. CASE ~ClaimIsCurrent(worker.session, worker.id, worker.token)
    BY <1>1, <1>3, QuietStep DEF CompleteClaim
  <1> QED BY <1>2, <1>3

LEMMA FinishKeeps ==
  ASSUME IInv, TypeOK', RowsWereAdded', ~(worker'.pc \in Holding), UNCHANGED ahead,
         NEW state \in ItemStates \ {"dispatching"}, FinishClaim(state) \/ ClaimConflict
  PROVE  IInv'
  <1>1. CASE FinishClaim(state)
    <2>1. /\ worker.id \in DOMAIN row
          /\ row[worker.id].session = worker.session
          /\ row[worker.id].state # "queued"
      BY <1>1 DEF FinishClaim, ClaimIsCurrent, Rows
    <2>2. IsHead(row[worker.id].session, worker.id) /\ StatusOfOutcome(state) \in Statuses
      BY <2>1, ReadinessTypes DEF IInv, OnlyHeadMoves
    <2>3. UniquePositions' /\ OnlyHeadMoves' /\ OneClaimPerQueue'
      BY <1>1, <2>1, <2>2, MarkKeepsClaims DEF FinishClaim
    <2> QED BY <2>3 DEF IInv, ClaimHeld
  <1>2. CASE ClaimConflict
    BY <1>2, QuietStep DEF ClaimConflict
  <1> QED BY <1>1, <1>2

LEMMA NextKeepsClaims == IInv /\ [Next]_vars => IInv'
  <1> SUFFICES ASSUME IInv, [Next]_vars
               PROVE  IInv'
    OBVIOUS
  <1>1. TypeOK' /\ RowsWereAdded'
    BY NextType DEF IInv
  <1>2. ASSUME NEW s \in Sessions, NEW i \in Items, AddItem(s, i)
        PROVE  IInv'
    BY <1>1, <1>2, AddKeeps
  <1>3. ASSUME NEW i \in Items, DeleteItem(i) \/ RetryItem(i)
        PROVE  IInv'
    BY <1>1, <1>3, DeleteKeeps, RetryKeeps
  <1>4. ASSUME NEW s \in Sessions, ClearQueue(s)
        PROVE  IInv'
    BY <1>1, <1>4, ClearKeeps
  <1>5. ASSUME NEW s \in Sessions, NEW paused \in BOOLEAN, UpdateControl(s, paused)
        PROVE  IInv'
    <2>1. \A z \in Sessions : queue'[z].token = queue[z].token
      BY <1>5 DEF UpdateControl, IInv, TypeOK, Queue
    <2> QED BY <1>1, <1>5, <2>1, ShowKeeps DEF UpdateControl
  <1>6. ASSUME NEW e \in BOOLEAN, SetGlobalEnabled(e)
        PROVE  IInv'
    BY <1>1, <1>6, QuietStep DEF SetGlobalEnabled
  <1>7. CASE Crash \/ StartRuntime
    BY <1>1, <1>7, QuietStep DEF Crash, StartRuntime, At, Holding
  <1>8. CASE StartWorker
    BY <1>1, <1>8, RecoverKeeps
  <1>9. ASSUME NEW s \in Sessions, Begin(s)
        PROVE  IInv'
    <2>1. worker'.pc = "snapshot"
      BY <1>9 DEF Begin, At
    <2> QED BY <1>1, <1>9, <2>1, QuietStep DEF Begin, Holding
  <1>10. CASE Step
    <2>1. worker \in Worker
      BY DEF IInv, TypeOK
    <2>2. \A pc \in ProgramPoints :
             Goto(pc) => /\ worker'.pc = pc
                         /\ worker'.session = worker.session
                         /\ worker'.id = worker.id
                         /\ worker'.token = worker.token
      BY <2>1 DEF Goto, Worker
    <2>3. Return => worker'.pc = "idle"
      BY DEF Return, At
    <2>4. CASE ReadSnapshot
      BY <1>1, <2>2, <2>3, <2>4, QuietStep DEF ReadSnapshot, Holding, ProgramPoints
    <2>5. CASE CheckReadiness
      <3>1. worker'.pc \in {"claim", "persist", "idle"}
        BY <2>1, <2>2, <2>3, <2>5 DEF CheckReadiness, Worker, ProgramPoints
      <3> QED BY <1>1, <2>5, <3>1, QuietStep DEF CheckReadiness, Holding
    <2>6. CASE ClaimNext
      BY <1>1, <2>6, ClaimKeeps
    <2>7. ASSUME NEW next \in ProgramPoints, worker.pc \in Holding, CheckRuntime(next)
          PROVE  IInv'
      <3>1. /\ worker'.session = worker.session
            /\ worker'.id = worker.id
            /\ worker'.token = worker.token
        BY <2>1, <2>2, <2>7 DEF CheckRuntime, Worker
      <3> QED BY <1>1, <2>7, <3>1, QuietStep DEF CheckRuntime
    <2>8. CASE Confirm
      <3>1. worker'.pc \in Holding => /\ worker'.session = worker.session
                                      /\ worker'.id = worker.id
                                      /\ worker'.token = worker.token
        BY <2>1, <2>2, <2>3, <2>8 DEF Confirm, Worker, ProgramPoints, Holding
      <3> QED BY <1>1, <2>8, <3>1, QuietStep DEF Confirm, Holding
    <2>9. CASE Submit
      <3>1. /\ worker'.session = worker.session
            /\ worker'.id = worker.id
            /\ worker'.token = worker.token
        BY <2>1, <2>2, <2>9 DEF Submit, Worker, ProgramPoints
      <3> QED BY <1>1, <2>9, <3>1, QuietStep DEF Submit, Holding
    <2>10. CASE WriteText
      <3>1. /\ worker'.session = worker.session
            /\ worker'.id = worker.id
            /\ worker'.token = worker.token
        BY <2>2, <2>10 DEF WriteText, ProgramPoints
      <3> QED BY <1>1, <2>10, <3>1, QuietStep DEF WriteText, Holding
    <2>11. CASE CompleteClaim
      BY <1>1, <2>11, CompleteKeeps
    <2>12. CASE Requeue
      BY <1>1, <2>2, <2>3, <2>12, FinishKeeps
         DEF Requeue, ClaimConflict, Holding, ProgramPoints, ItemStates
    <2>13. CASE PersistReadiness
      <3>1. \A z \in Sessions : queue'[z].token = queue[z].token
        BY <2>13 DEF PersistReadiness, IInv, TypeOK, Queue
      <3> QED BY <1>1, <2>3, <2>13, <3>1, ShowKeeps DEF PersistReadiness, Holding
    <2>14. CASE FailClaim
      BY <1>1, <2>3, <2>14, FinishKeeps DEF FailClaim, ClaimConflict, Holding, ItemStates
    <2>15. CASE MarkDeliveryUnknown
      BY <1>1, <2>3, <2>15, FinishKeeps DEF MarkDeliveryUnknown, ClaimConflict, Holding, ItemStates
    <2> QED BY <1>10, <2>4, <2>5, <2>6, <2>7, <2>8, <2>9, <2>10, <2>11, <2>12, <2>13,
               <2>14, <2>15 DEF Step, Recheck, LastCheck, ProgramPoints, Holding
  <1>11. CASE UNCHANGED vars
    BY <1>1, <1>11, QuietStep DEF vars
  <1> QED BY <1>2, <1>3, <1>4, <1>5, <1>6, <1>7, <1>8, <1>9, <1>10, <1>11
         DEF Next, UserCommand, Startup

LEMMA InitClaims == Init => IInv
  <1> SUFFICES ASSUME Init
               PROVE  IInv
    OBVIOUS
  <1>1. TypeOK /\ RowsWereAdded
    BY InitType
  <1>2. DOMAIN row = {} /\ worker.pc = "down" /\ \A s \in Sessions : queue[s].token = None
    BY DEF Init, At
  <1> QED BY <1>1, <1>2
         DEF IInv, UniquePositions, OnlyHeadMoves, OneClaimPerQueue, ClaimHeld, Holding

\* No command, switch or restart can take a claim away from the check that holds
\* it: the four QUEUE_CLAIM_CONFLICT errors of check_session are unreachable.
THEOREM ClaimNeverLost == Spec => []ClaimHeld
  <1>1. IInv => ClaimHeld
    BY DEF IInv
  <1> QED BY <1>1, InitClaims, NextKeepsClaims, PTL DEF Spec

\* Token and dispatching item of a queue come and go together.
THEOREM OneClaim == Spec => []OneClaimPerQueue
  <1>1. IInv => OneClaimPerQueue
    BY DEF IInv
  <1> QED BY <1>1, InitClaims, NextKeepsClaims, PTL DEF Spec

\* Behind a head that waits for a decision nothing has been touched.
THEOREM HeadOnly == Spec => []OnlyHeadMoves
  <1>1. IInv => OnlyHeadMoves
    BY DEF IInv
  <1> QED BY <1>1, InitClaims, NextKeepsClaims, PTL DEF Spec

-----------------------------------------------------------------------------
(* The status of a queue.  The check that found a session not ready        *)
(* writes its answer after the claim was given back, or without one; that  *)
(* it hides no head that needs the user rests on the queue being untouched *)
(* since.                                                                  *)

\* A check that holds no claim and will go on to claim or to write its answer has
\* seen a queued head, and nobody else takes an item out of that state.
NothingMoved ==
    worker.pc \in {"readiness", "claim", "persist"} =>
        \A i \in Rows(worker.session) : row[i].state = "queued"

Shown(state) == IF state = "failed" THEN "send_failed" ELSE state

StatusInv == IInv /\ StatusTellsHead /\ NothingMoved

LEMMA StatusIs ==
  StatusTellsHead <=> \A i \in DOMAIN row : row[i].state # "queued" =>
                         queue[row[i].session].status = Shown(row[i].state)
  BY DEF StatusTellsHead, Shown

\* A step that moves no item out of the queued state and shows nothing new for a queue
\* in which one has left it.
LEMMA StatusStays ==
  ASSUME StatusInv, DOMAIN row' \subseteq DOMAIN row,
         \A j \in DOMAIN row' : /\ row'[j].session = row[j].session
                                /\ row'[j].state = row[j].state
                                /\ row[j].state # "queued" =>
                                      queue'[row[j].session].status = queue[row[j].session].status
  PROVE  StatusTellsHead'
  <1>1. \A i \in DOMAIN row : row[i].state # "queued" =>
           queue[row[i].session].status = Shown(row[i].state)
    BY StatusIs DEF StatusInv
  <1>2. \A i \in DOMAIN row' : row'[i].state # "queued" =>
           queue'[row'[i].session].status = Shown(row'[i].state)
    BY <1>1
  <1> QED BY <1>2 DEF StatusTellsHead, Shown

\* One row gets a new state and its queue the status to match.
LEMMA MarkKeepsStatus ==
  ASSUME StatusInv, NEW i \in DOMAIN row, IsHead(row[i].session, i),
         NEW state \in ItemStates, NEW status \in Statuses, NEW t \in Tokens \cup {None},
         state # "queued" => status = Shown(state),
         row' = Marked(i, state, t), queue' = Labelled(row[i].session, status, t)
  PROVE  /\ StatusTellsHead'
         /\ state = "queued" => \A j \in DOMAIN row' :
               row'[j].session = row[i].session => row'[j].state = "queued"
  <1>1. row[i].session \in Sessions /\ IInv /\ TypeOK
    BY DEF StatusInv, IInv, TypeOK, Row
  <1>2. /\ DOMAIN row' = DOMAIN row
        /\ \A j \in DOMAIN row \ {i} : row'[j] = row[j]
        /\ row'[i].session = row[i].session
        /\ row'[i].state = state
    BY <1>1, RowUpdateType
  <1>3. /\ \A z \in Sessions \ {row[i].session} : queue'[z] = queue[z]
        /\ queue'[row[i].session].status = status
    BY <1>1, QueueUpdateType
  <1>4. ASSUME NEW j \in DOMAIN row \ {i}, row[j].state # "queued"
        PROVE  row[j].session # row[i].session
    <2>1. CASE row[j].session = row[i].session
      BY <1>1, <1>4, <2>1, HeadIsUnique DEF IInv, OnlyHeadMoves
    <2> QED BY <2>1
  <1>5. \A j \in DOMAIN row : row[j].session \in Sessions
    BY <1>1 DEF TypeOK, Row
  <1>6. \A j \in DOMAIN row : row[j].state # "queued" =>
           queue[row[j].session].status = Shown(row[j].state)
    BY StatusIs DEF StatusInv
  <1>7. \A j \in DOMAIN row' : row'[j].state # "queued" =>
           queue'[row'[j].session].status = Shown(row'[j].state)
    BY <1>2, <1>3, <1>4, <1>5, <1>6
  <1>8. StatusTellsHead'
    BY <1>7 DEF StatusTellsHead, Shown
  <1>9. state = "queued" => \A j \in DOMAIN row' :
           row'[j].session = row[i].session => row'[j].state = "queued"
    BY <1>2, <1>4
  <1> QED BY <1>8, <1>9

\* The check's own queue is untouched while others edit the tables.
LEMMA NothingMovedStays ==
  ASSUME NothingMoved, worker' = worker,
         \A j \in DOMAIN row' :
            /\ row'[j].state # "queued" =>
                  j \in DOMAIN row /\ row[j].state # "queued" /\ row'[j].session = row[j].session
  PROVE  NothingMoved'
  BY DEF NothingMoved, Rows

LEMMA UserKeepsStatus ==
  ASSUME StatusInv, UserCommand
  PROVE  StatusTellsHead' /\ NothingMoved'
  <1>1. TypeOK /\ IInv /\ StatusTellsHead /\ NothingMoved
    BY DEF StatusInv, IInv
  <1>2. \A j \in DOMAIN row : row[j].session \in Sessions
    BY <1>1 DEF TypeOK, Row
  <1>3. ASSUME NEW s \in Sessions, NEW i \in Items, AddItem(s, i)
        PROVE  StatusTellsHead' /\ NothingMoved'
    <2>1. /\ DOMAIN row' = DOMAIN row \cup {i} /\ row'[i].state = "queued"
          /\ \A j \in DOMAIN row \ {i} : row'[j] = row[j]
          /\ queue' = queue /\ worker' = worker
      BY <1>3 DEF AddItem
    <2>2. StatusTellsHead'
      <3>1. \A j \in DOMAIN row' : row'[j].state # "queued" => j \in DOMAIN row /\ row'[j] = row[j]
        BY <2>1
      <3> QED BY <1>1, <2>1, <3>1 DEF StatusTellsHead
    <2>3. NothingMoved'
      BY <1>1, <2>1, NothingMovedStays
    <2> QED BY <2>2, <2>3
  <1>4. ASSUME NEW i \in Items, DeleteItem(i)
        PROVE  StatusTellsHead' /\ NothingMoved'
    <2>1. i \in DOMAIN row /\ row' = Without(i) /\ queue' = queue /\ worker' = worker
      BY <1>4 DEF DeleteItem
    <2>2. /\ DOMAIN row' = DOMAIN row \ {i}
          /\ \A j \in DOMAIN row \ {i} : /\ row'[j].session = row[j].session
                                         /\ row'[j].state = row[j].state
      BY <1>1, <2>1, WithoutType
    <2>3. StatusTellsHead'
      BY <2>1, <2>2, StatusStays
    <2>4. NothingMoved'
      BY <1>1, <2>1, <2>2, NothingMovedStays
    <2> QED BY <2>3, <2>4
  <1>5. ASSUME NEW i \in Items, RetryItem(i)
        PROVE  StatusTellsHead' /\ NothingMoved'
    <2>1. /\ i \in DOMAIN row /\ row[i].state # "queued" /\ row' = Marked(i, "queued", None)
          /\ queue' = Labelled(row[i].session, "running", None) /\ worker' = worker
      BY <1>5 DEF RetryItem
    <2>2. StatusTellsHead'
      BY <1>1, <2>1, MarkKeepsStatus DEF IInv, OnlyHeadMoves, ItemStates, Statuses
    <2>3. /\ DOMAIN row' = DOMAIN row /\ row'[i].state = "queued"
          /\ \A j \in DOMAIN row \ {i} : row'[j] = row[j]
      BY <1>1, <2>1, RowUpdateType DEF ItemStates
    <2>4. NothingMoved'
      BY <1>1, <2>1, <2>3, NothingMovedStays
    <2> QED BY <2>2, <2>4
  <1>6. ASSUME NEW s \in Sessions, ClearQueue(s)
        PROVE  StatusTellsHead' /\ NothingMoved'
    <2>1. /\ DOMAIN row' = {k \in DOMAIN row : k \notin Rows(s) \/ row[k].state = "dispatching"}
          /\ \A j \in DOMAIN row' : row'[j] = row[j]
          /\ worker' = worker
      BY <1>6 DEF ClearQueue
    <2>2. ASSUME NEW j \in DOMAIN row'
          PROVE  queue'[row[j].session].status = queue[row[j].session].status
      <3>1. CASE row[j].session = s
        <4>1. row[j].state = "dispatching" /\ j \in DOMAIN row
          BY <2>1, <3>1 DEF Rows
        <4>2. queue[s].token # None
          BY <1>1, <3>1, <4>1 DEF IInv, OneClaimPerQueue
        <4> QED BY <1>6, <4>2 DEF ClearQueue
      <3>2. CASE row[j].session # s
        <4>1. row[j].session \in Sessions
          BY <1>2, <2>1
        <4> QED BY <1>1, <1>6, <3>2, <4>1 DEF ClearQueue, TypeOK
      <3> QED BY <3>1, <3>2
    <2>3. StatusTellsHead'
      BY <2>1, <2>2, StatusStays
    <2>4. NothingMoved'
      BY <1>1, <2>1, NothingMovedStays
    <2> QED BY <2>3, <2>4
  <1>7. ASSUME NEW s \in Sessions, NEW paused \in BOOLEAN, UpdateControl(s, paused)
        PROVE  StatusTellsHead' /\ NothingMoved'
    <2>1. \A z \in Sessions : queue'[z].status = queue[z].status
      BY <1>1, <1>7 DEF UpdateControl, TypeOK, Queue
    <2>2. row' = row /\ worker' = worker
      BY <1>7 DEF UpdateControl
    <2>3. StatusTellsHead'
      BY <1>2, <2>1, <2>2, StatusStays
    <2> QED BY <1>1, <2>2, <2>3, NothingMovedStays
  <1>8. ASSUME NEW e \in BOOLEAN, SetGlobalEnabled(e)
        PROVE  StatusTellsHead' /\ NothingMoved'
    <2>1. row' = row /\ worker' = worker /\ queue' = queue
      BY <1>8 DEF SetGlobalEnabled
    <2> QED BY <1>1, <2>1, StatusStays, NothingMovedStays
  <1> QED BY <1>3, <1>4, <1>5, <1>6, <1>7, <1>8 DEF UserCommand

\* What was being written when the application died is shown as unknown.
LEMMA RecoverKeepsStatus ==
  ASSUME StatusInv, StartWorker
  PROVE  StatusTellsHead' /\ NothingMoved'
  <1>1. TypeOK /\ IInv /\ StatusTellsHead
    BY DEF StatusInv, IInv
  <1>2. NothingMoved'
    BY DEF StartWorker, At, NothingMoved
  <1>3. DOMAIN row' = DOMAIN row
    BY DEF StartWorker
  <1>4. ASSUME NEW j \in DOMAIN row, row'[j].state # "queued"
        PROVE  queue'[row'[j].session].status = Shown(row'[j].state)
    <2>1. row[j] \in Row /\ row[j].session \in Sessions
      BY <1>1 DEF TypeOK, Row
    <2>2. CASE row[j].state = "dispatching"
      <3>1. row'[j] = [row[j] EXCEPT !.state = "delivery_unknown", !.token = None]
        BY <2>2 DEF StartWorker
      <3>2. row'[j].state = "delivery_unknown" /\ row'[j].session = row[j].session
        BY <2>1, <3>1 DEF Row
      <3>3. \E i \in Rows(row[j].session) : row[i].state = "dispatching"
        BY <2>2 DEF Rows
      <3>4. queue'[row[j].session] = [queue[row[j].session] EXCEPT !.status = "delivery_unknown",
                                                                   !.token = None]
        BY <2>1, <3>3 DEF StartWorker
      <3>5. queue[row[j].session] \in Queue
        BY <1>1, <2>1 DEF TypeOK
      <3> QED BY <3>2, <3>4, <3>5 DEF Queue, Shown
    <2>3. CASE row[j].state # "dispatching"
      <3>1. row'[j] = row[j]
        BY <2>3 DEF StartWorker
      <3>2. \A i \in Rows(row[j].session) : row[i].state # "dispatching"
        <4>1. ASSUME NEW i \in Rows(row[j].session), row[i].state = "dispatching"
              PROVE  FALSE
          <5>1. i \in DOMAIN row /\ row[i].session = row[j].session
            BY <4>1 DEF Rows
          <5>2. i = j
            BY <1>1, <1>4, <3>1, <4>1, <5>1, ClaimedIsOnlyMoved
          <5> QED BY <2>3, <4>1, <5>2
        <4> QED BY <4>1
      <3>3. queue[row[j].session].token = None
        BY <1>1, <2>1, <3>2 DEF IInv, OneClaimPerQueue
      <3>4. queue'[row[j].session] = queue[row[j].session]
        BY <2>1, <3>2, <3>3 DEF StartWorker
      <3>5. queue[row[j].session].status = Shown(row[j].state)
        BY <1>1, <1>4, <3>1, StatusIs
      <3> QED BY <3>1, <3>4, <3>5
    <2> QED BY <2>2, <2>3
  <1>5. \A j \in DOMAIN row' : row'[j].state # "queued" =>
           queue'[row'[j].session].status = Shown(row'[j].state)
    BY <1>3, <1>4
  <1>6. StatusTellsHead'
    BY <1>5 DEF StatusTellsHead, Shown
  <1> QED BY <1>2, <1>6

\* A step of the check that leaves the tables alone.
LEMMA QuietStatus ==
  ASSUME StatusInv, UNCHANGED <<queue, row>>,
         worker'.pc \in {"readiness", "claim", "persist"} =>
            /\ worker.pc \in {"readiness", "claim", "persist"} /\ worker'.session = worker.session
  PROVE  StatusTellsHead' /\ NothingMoved'
  <1>1. StatusTellsHead'
    BY StatusStays
  <1>2. NothingMoved'
    BY DEF StatusInv, NothingMoved, Rows
  <1> QED BY <1>1, <1>2

\* finish_claim, and the check that goes on to write why it gave the claim back.
LEMMA FinishKeepsStatus ==
  ASSUME StatusInv, NEW state \in ItemStates \ {"dispatching"}, FinishClaim(state),
         \/ worker'.pc = "idle"
         \/ state = "queued" /\ worker'.session = worker.session
  PROVE  StatusTellsHead' /\ NothingMoved'
  <1>1. /\ worker.id \in DOMAIN row /\ row[worker.id].session = worker.session
        /\ row[worker.id].state # "queued"
        /\ row' = Marked(worker.id, state, None)
        /\ queue' = Labelled(row[worker.id].session, StatusOfOutcome(state), None)
    BY DEF FinishClaim, ClaimIsCurrent, Rows
  <1>2. IsHead(row[worker.id].session, worker.id) /\ StatusOfOutcome(state) \in Statuses
    BY <1>1, ReadinessTypes DEF StatusInv, IInv, OnlyHeadMoves
  <1>3. state # "queued" => StatusOfOutcome(state) = Shown(state)
    BY DEF ItemStates, StatusOfOutcome, Shown
  <1>4. /\ StatusTellsHead'
        /\ state = "queued" => \A j \in DOMAIN row' :
              row'[j].session = row[worker.id].session => row'[j].state = "queued"
    BY <1>1, <1>2, <1>3, MarkKeepsStatus
  <1>5. NothingMoved'
    BY <1>1, <1>4 DEF NothingMoved, Rows
  <1> QED BY <1>4, <1>5

LEMMA StepKeepsStatus ==
  ASSUME StatusInv, Step
  PROVE  StatusTellsHead' /\ NothingMoved'
  <1>1. TypeOK /\ IInv /\ StatusTellsHead /\ NothingMoved /\ worker \in Worker
    BY DEF StatusInv, IInv, TypeOK
  <1>2. \A pc \in ProgramPoints :
           Goto(pc) => worker'.pc = pc /\ worker'.session = worker.session
    BY <1>1 DEF Goto, Worker
  <1>3. \A pc \in ProgramPoints, r \in Readiness :
           worker' = [worker EXCEPT !.pc = pc, !.readiness = r] =>
              worker'.pc = pc /\ worker'.session = worker.session
    BY <1>1 DEF Worker
  <1>4. Return => worker'.pc = "idle"
    BY DEF Return, At
  <1>5. CASE ReadSnapshot
    <2>1. UNCHANGED <<queue, row>>
      BY <1>5 DEF ReadSnapshot
    <2>2. CASE Return
      BY <1>4, <2>1, <2>2, QuietStatus
    <2>3. CASE \E i \in Rows(worker.session) : IsHead(worker.session, i) /\ row[i].state = "queued"
      <3>1. PICK i \in Rows(worker.session) : IsHead(worker.session, i) /\ row[i].state = "queued"
        BY <2>3
      <3>2. worker.session \in Sessions
        BY <1>1, <3>1 DEF Rows, TypeOK, Row
      <3>3. ASSUME NEW j \in Rows(worker.session), row[j].state # "queued"
            PROVE  FALSE
        <4>1. IsHead(worker.session, j)
          BY <1>1, <3>3 DEF IInv, OnlyHeadMoves, Rows
        <4>2. i = j
          BY <1>1, <3>1, <3>2, <4>1, HeadIsUnique DEF IInv
        <4> QED BY <3>1, <3>3, <4>2
      <3>4. worker'.session = worker.session \/ worker'.pc = "idle"
        BY <1>2, <1>4, <1>5 DEF ReadSnapshot, ProgramPoints
      <3>5. NothingMoved'
        BY <2>1, <3>3, <3>4 DEF NothingMoved, Rows
      <3>6. StatusTellsHead'
        BY <2>1, StatusStays
      <3> QED BY <3>5, <3>6
    <2> QED BY <1>5, <2>2, <2>3 DEF ReadSnapshot
  <1>6. CASE CheckReadiness
    <2>1. UNCHANGED <<queue, row>> /\ worker.pc = "readiness"
      BY <1>6 DEF CheckReadiness
    <2>2. worker'.pc = "idle" \/ worker'.session = worker.session
      BY <1>2, <1>3, <1>4, <1>6, ReadinessTypes DEF CheckReadiness, ProgramPoints
    <2> QED BY <2>1, <2>2, QuietStatus
  <1>7. CASE ClaimNext
    <2>1. ASSUME NEW i \in Rows(worker.session), NEW t \in Tokens,
                 MayClaim(worker.session, i),
                 row' = Marked(i, "dispatching", t),
                 queue' = Labelled(worker.session, "dispatching", t),
                 worker' = [worker EXCEPT !.pc = "recheck", !.id = i, !.token = t]
          PROVE  StatusTellsHead' /\ NothingMoved'
      <3>1. /\ i \in DOMAIN row /\ row[i].session = worker.session
            /\ IsHead(row[i].session, i)
        BY <2>1 DEF MayClaim, Rows
      <3>2. "dispatching" \in ItemStates /\ "dispatching" \in Statuses
            /\ Shown("dispatching") = "dispatching"
        BY DEF ItemStates, Statuses, Shown
      <3>3. StatusTellsHead'
        BY <2>1, <3>1, <3>2, MarkKeepsStatus
      <3>4. worker'.pc = "recheck"
        BY <1>1, <2>1 DEF Worker
      <3> QED BY <3>3, <3>4 DEF NothingMoved
    <2>2. CASE Return /\ UNCHANGED <<queue, row>>
      BY <1>4, <2>2, QuietStatus
    <2> QED BY <1>7, <2>1, <2>2 DEF ClaimNext
  <1>8. CASE Recheck \/ LastCheck \/ Confirm \/ Submit \/ WriteText
    <2>1. UNCHANGED <<queue, row>>
      BY <1>8 DEF Recheck, LastCheck, CheckRuntime, Confirm, Submit, WriteText
    <2>2. worker'.pc \notin {"readiness", "claim", "persist"}
      BY <1>2, <1>3, <1>4, <1>8, ReadinessTypes
         DEF Recheck, LastCheck, CheckRuntime, Confirm, Submit, WriteText, ProgramPoints, Readiness
    <2> QED BY <2>1, <2>2, QuietStatus
  <1>9. CASE CompleteClaim
    <2>1. worker'.pc = "idle"
      BY <1>4, <1>9 DEF CompleteClaim
    <2>2. CASE ClaimIsCurrent(worker.session, worker.id, worker.token)
      <3>1. /\ worker.id \in DOMAIN row /\ row[worker.id].session = worker.session
            /\ row[worker.id].state # "queued" /\ worker.session \in Sessions
        BY <1>1, <2>2 DEF ClaimIsCurrent, Rows, TypeOK, Row
      <3>2. row' = Without(worker.id) /\ queue' = Labelled(worker.session, "running", None)
        BY <1>9, <2>2 DEF CompleteClaim
      <3>3. /\ DOMAIN row' = DOMAIN row \ {worker.id}
            /\ \A j \in DOMAIN row \ {worker.id} : /\ row'[j].session = row[j].session
                                                   /\ row'[j].state = row[j].state
        BY <1>1, <3>1, <3>2, WithoutType
      <3>4. \A z \in Sessions \ {worker.session} : queue'[z] = queue[z]
        <4>1. "running" \in Statuses /\ None \in Tokens \cup {None}
          BY DEF Statuses
        <4> QED BY <1>1, <3>1, <3>2, <4>1, QueueUpdateType
      <3>5. ASSUME NEW j \in DOMAIN row', row[j].state # "queued"
            PROVE  queue'[row[j].session].status = queue[row[j].session].status
        <4>1. row[j].session # worker.session
          BY <1>1, <3>1, <3>3, <3>5, ClaimedIsOnlyMoved
        <4>2. row[j].session \in Sessions
          BY <1>1, <3>3 DEF TypeOK, Row
        <4> QED BY <3>4, <4>1, <4>2
      <3>6. StatusTellsHead'
        BY <3>3, <3>5, StatusStays
      <3> QED BY <2>1, <3>6 DEF NothingMoved
    <2>3. CASE ~ClaimIsCurrent(worker.session, worker.id, worker.token)
      BY <1>9, <2>1, <2>3, QuietStatus DEF CompleteClaim
    <2> QED BY <2>2, <2>3
  <1>10. CASE ClaimConflict
    BY <1>4, <1>10, QuietStatus DEF ClaimConflict
  <1>11. CASE Requeue
    <2>1. CASE FinishClaim("queued") /\ Goto("persist")
      <3>1. worker'.session = worker.session
        BY <1>2, <2>1 DEF ProgramPoints
      <3> QED BY <2>1, <3>1, FinishKeepsStatus DEF ItemStates
    <2> QED BY <1>10, <1>11, <2>1 DEF Requeue
  <1>12. CASE FailClaim \/ MarkDeliveryUnknown
    <2>1. CASE (FinishClaim("failed") \/ FinishClaim("delivery_unknown")) /\ Return
      BY <1>4, <2>1, FinishKeepsStatus DEF ItemStates
    <2> QED BY <1>10, <1>12, <2>1 DEF FailClaim, MarkDeliveryUnknown
  <1>13. CASE PersistReadiness
    <2>1. worker'.pc = "idle" /\ row' = row /\ worker.pc = "persist"
      BY <1>4, <1>13 DEF PersistReadiness
    <2>2. \A z \in Sessions \ {worker.session} : queue'[z] = queue[z]
      BY <1>1, <1>13 DEF PersistReadiness, TypeOK
    <2>3. \A j \in DOMAIN row : row[j].state # "queued" => row[j].session \in Sessions \ {worker.session}
      BY <1>1, <2>1 DEF NothingMoved, Rows, TypeOK, Row
    <2>4. StatusTellsHead'
      BY <2>1, <2>2, <2>3, StatusStays
    <2> QED BY <2>1, <2>4 DEF NothingMoved
  <1> QED BY <1>5, <1>6, <1>7, <1>8, <1>9, <1>11, <1>12, <1>13 DEF Step

LEMMA NextKeepsStatus == StatusInv /\ [Next]_vars => StatusInv'
  <1> SUFFICES ASSUME StatusInv, [Next]_vars
               PROVE  StatusTellsHead' /\ NothingMoved'
    BY NextKeepsClaims DEF StatusInv
  <1>1. CASE Crash \/ StartRuntime
    <2>1. worker'.pc \in {"down", "starting"} /\ UNCHANGED <<queue, row>>
      BY <1>1 DEF Crash, StartRuntime, At
    <2> QED BY <2>1, QuietStatus
  <1>2. ASSUME NEW s \in Sessions, Begin(s)
        PROVE  StatusTellsHead' /\ NothingMoved'
    <2>1. worker'.pc = "snapshot" /\ UNCHANGED <<queue, row>>
      BY <1>2 DEF Begin, At
    <2> QED BY <2>1, QuietStatus
  <1>3. CASE UNCHANGED vars
    BY <1>3, QuietStatus DEF vars
  <1> QED BY <1>1, <1>2, <1>3, UserKeepsStatus, RecoverKeepsStatus, StepKeepsStatus
          DEF Next, Startup

\* A queue never shows itself running, or idle for a reason of its own, while its head
\* needs the user: the answer of an earlier readiness query, written by set_runtime_status
\* after any number of commands, hides no failed, unknown or claimed head.
THEOREM StatusIsTrue == Spec => []StatusTellsHead
  <1>1. Init => StatusInv
    <2>1. ASSUME Init
          PROVE  StatusTellsHead /\ NothingMoved
      <3>1. DOMAIN row = {}
        BY <2>1 DEF Init
      <3> QED BY <3>1 DEF StatusTellsHead, NothingMoved, Rows
    <2> QED BY <2>1, InitClaims DEF StatusInv
  <1>2. StatusInv => StatusTellsHead
    BY DEF StatusInv
  <1> QED BY <1>1, <1>2, NextKeepsStatus, PTL DEF Spec

----------------------------------------------------------------------------
(* What reaches the terminal: at most one write per request, and never in  *)
(* spite of the switch; and that the whole queue does what AtMostOnceQueue *)
(* promises, step by step.                                                 *)


\* The points of check_session at which the claimed prompt was not written yet
\* and still may be, now or after a requeue.
Unwritten == {"recheck", "confirm", "last_check", "submit", "write", "requeue"}

\* What an item may still be owed.  An item that is queued, claimed and not yet
\* written, or not yet added has one request left that no write has used.
Owed(i) ==
    \/ i \notin DOMAIN ahead
    \/ i \in DOMAIN row /\ row[i].state = "queued"
    \/ worker.pc \in Unwritten /\ worker.id = i

Budget ==
    \A i \in Items : /\ sent[i] <= 1 + retries[i]
                     /\ Owed(i) => sent[i] <= retries[i]

DInv == IInv /\ Budget

LEMMA CountTypes ==
  ASSUME TypeOK
  PROVE  \A i \in Items : sent[i] \in Nat /\ retries[i] \in Nat
  BY DEF TypeOK

\* A step that writes nothing and gives no item a new debt keeps the budget.
LEMMA NoWriteStep ==
  ASSUME DInv, UNCHANGED <<sent, retries>>, \A i \in Items : Owed(i)' => Owed(i)
  PROVE  Budget'
  BY DEF DInv, Budget

LEMMA NextKeepsBudget == DInv /\ [Next]_vars => Budget'
  <1> SUFFICES ASSUME DInv, [Next]_vars
               PROVE  Budget'
    OBVIOUS
  <1>t. TypeOK /\ worker \in Worker
    BY DEF DInv, IInv, TypeOK
  <1>1. ASSUME NEW s \in Sessions, NEW i \in Items, AddItem(s, i)
        PROVE  Budget'
    <2>1. \A j \in Items : Owed(j)' => Owed(j)
      <3>1. DOMAIN row' = DOMAIN row \cup {i} /\ \A j \in DOMAIN row \ {i} : row'[j] = row[j]
        BY <1>1 DEF AddItem
      <3>2. DOMAIN ahead' = DOMAIN ahead \cup {i} /\ i \notin DOMAIN ahead /\ worker' = worker
        BY <1>1 DEF AddItem
      <3> QED BY <3>1, <3>2 DEF Owed
    <2> QED BY <1>1, <2>1, NoWriteStep DEF AddItem
  <1>2. ASSUME NEW i \in Items, DeleteItem(i)
        PROVE  Budget'
    <2>1. /\ DOMAIN row' = DOMAIN row \ {i}
          /\ \A j \in DOMAIN row \ {i} : row'[j].state = row[j].state
      BY <1>t, <1>2, WithoutType DEF DeleteItem
    <2>2. \A j \in Items : Owed(j)' => Owed(j)
      BY <1>2, <2>1 DEF DeleteItem, Owed
    <2> QED BY <1>2, <2>2, NoWriteStep DEF DeleteItem
  <1>3. ASSUME NEW i \in Items, RetryItem(i)
        PROVE  Budget'
    <2>1. /\ DOMAIN row' = DOMAIN row /\ i \in DOMAIN row
          /\ \A j \in DOMAIN row \ {i} : row'[j] = row[j]
      BY <1>t, <1>3, RowUpdateType DEF RetryItem, ItemStates
    <2>2. \A j \in Items \ {i} : Owed(j)' => Owed(j)
      BY <1>3, <2>1 DEF RetryItem, Owed
    <2>3. /\ sent' = sent
          /\ \A j \in Items \ {i} : retries'[j] = retries[j]
          /\ retries'[i] = retries[i] + 1
      BY <1>t, <1>3 DEF RetryItem, TypeOK
    <2> QED BY <1>t, <2>2, <2>3, CountTypes DEF DInv, Budget
  <1>4. ASSUME NEW s \in Sessions, ClearQueue(s)
        PROVE  Budget'
    <2>1. /\ DOMAIN row' \subseteq DOMAIN row
          /\ \A j \in DOMAIN row' : row'[j] = row[j]
      BY <1>4 DEF ClearQueue
    <2>2. \A j \in Items : Owed(j)' => Owed(j)
      BY <1>4, <2>1 DEF ClearQueue, Owed
    <2> QED BY <1>4, <2>2, NoWriteStep DEF ClearQueue
  <1>5. ASSUME NEW s \in Sessions, NEW paused \in BOOLEAN, UpdateControl(s, paused)
        PROVE  Budget'
    BY <1>5, NoWriteStep DEF UpdateControl, Owed
  <1>6. ASSUME NEW e \in BOOLEAN, SetGlobalEnabled(e)
        PROVE  Budget'
    BY <1>6, NoWriteStep DEF SetGlobalEnabled, Owed
  <1>7. CASE Crash \/ StartRuntime
    BY <1>7, NoWriteStep DEF Crash, StartRuntime, Owed, At, Unwritten
  <1>8. CASE StartWorker
    <2>1. /\ DOMAIN row' = DOMAIN row
          /\ \A j \in DOMAIN row : row'[j].state = "queued" => row[j].state = "queued"
      <3>1. DOMAIN row' = DOMAIN row
        BY <1>8 DEF StartWorker
      <3>2. ASSUME NEW j \in DOMAIN row, row[j].state # "queued"
            PROVE  row'[j].state # "queued"
        <4>1. CASE row[j].state = "dispatching"
          <5>1. row'[j] = [row[j] EXCEPT !.state = "delivery_unknown", !.token = None]
            BY <1>8, <4>1 DEF StartWorker
          <5> QED BY <1>t, <5>1 DEF TypeOK, Row
        <4>2. CASE row[j].state # "dispatching"
          BY <1>8, <3>2, <4>2 DEF StartWorker
        <4> QED BY <4>1, <4>2
      <3> QED BY <3>1, <3>2
    <2>2. \A j \in Items : Owed(j)' => Owed(j)
      BY <1>8, <2>1 DEF StartWorker, Owed, At, Unwritten
    <2> QED BY <1>8, <2>2, NoWriteStep DEF StartWorker
  <1>9. ASSUME NEW s \in Sessions, Begin(s)
        PROVE  Budget'
    <2>1. worker'.pc = "snapshot"
      BY <1>9 DEF Begin, At
    <2> QED BY <1>9, <2>1, NoWriteStep DEF Begin, Owed, Unwritten
  <1>10. CASE Step
    <2>1. \A pc \in ProgramPoints : Goto(pc) => worker'.pc = pc /\ worker'.id = worker.id
      BY <1>t DEF Goto, Worker
    <2>2. Return => worker'.pc = "idle"
      BY DEF Return, At
    <2>3. CASE ReadSnapshot
      <3>1. worker'.pc \notin Unwritten
        BY <2>1, <2>2, <2>3 DEF ReadSnapshot, ProgramPoints, Unwritten
      <3> QED BY <2>3, <3>1, NoWriteStep DEF ReadSnapshot, Owed
    <2>4. CASE CheckReadiness
      <3>1. worker'.pc \notin Unwritten
        BY <1>t, <2>1, <2>2, <2>4 DEF CheckReadiness, ProgramPoints, Unwritten, Worker
      <3> QED BY <2>4, <3>1, NoWriteStep DEF CheckReadiness, Owed
    <2>5. CASE ClaimNext
      <3>1. ASSUME NEW i \in Rows(worker.session), NEW t \in Tokens,
                   MayClaim(worker.session, i), row' = Marked(i, "dispatching", t),
                   worker' = [worker EXCEPT !.pc = "recheck", !.id = i, !.token = t]
            PROVE  \A j \in Items : Owed(j)' => Owed(j)
        <4>1. i \in DOMAIN row /\ row[i].state = "queued"
          BY <3>1 DEF MayClaim, Rows
        <4>2. worker'.id = i
          BY <1>t, <3>1 DEF Worker
        <4>3. DOMAIN row' = DOMAIN row /\ \A j \in DOMAIN row \ {i} : row'[j] = row[j]
          BY <1>t, <3>1, <4>1, RowUpdateType DEF ItemStates
        <4> QED BY <2>5, <4>1, <4>2, <4>3 DEF ClaimNext, Owed
      <3>2. Return /\ UNCHANGED row => \A j \in Items : Owed(j)' => Owed(j)
        BY <2>2, <2>5 DEF ClaimNext, Owed, Unwritten
      <3> QED BY <2>5, <3>1, <3>2, NoWriteStep DEF ClaimNext
    <2>6. ASSUME NEW next \in ProgramPoints, worker.pc \in Unwritten, CheckRuntime(next)
          PROVE  Budget'
      <3>1. worker'.id = worker.id
        BY <1>t, <2>1, <2>6 DEF CheckRuntime, Worker
      <3> QED BY <2>6, <3>1, NoWriteStep DEF CheckRuntime, Owed
    <2>7. CASE Confirm
      <3>1. worker'.pc \in Unwritten => worker'.id = worker.id
        BY <1>t, <2>1, <2>2, <2>7 DEF Confirm, Worker, ProgramPoints, Unwritten
      <3> QED BY <2>7, <3>1, NoWriteStep DEF Confirm, Owed, Unwritten
    <2>8. CASE Submit
      <3>1. worker'.id = worker.id
        BY <1>t, <2>1, <2>8 DEF Submit, Worker, ProgramPoints
      <3> QED BY <2>8, <3>1, NoWriteStep DEF Submit, Owed, Unwritten
    <2>9. CASE WriteText
      <3>1. /\ worker.id \in Items
            /\ Owed(worker.id)
        <4>1. worker.id \in DOMAIN row
          BY <2>9 DEF WriteText, DInv, IInv, ClaimHeld, ClaimIsCurrent, Rows, Holding
        <4> QED BY <1>t, <2>9, <4>1 DEF WriteText, TypeOK, Owed, Unwritten
      <3>2. /\ \A j \in Items \ {worker.id} : sent'[j] = sent[j]
            /\ sent'[worker.id] \in {sent[worker.id], sent[worker.id] + 1}
        BY <1>t, <2>9, <3>1 DEF WriteText, TypeOK
      <3>3. worker'.pc \notin Unwritten
        BY <2>1, <2>9 DEF WriteText, ProgramPoints, Unwritten
      <3>4. worker.id \in DOMAIN row /\ row[worker.id].state = "dispatching"
        BY <2>9 DEF WriteText, DInv, IInv, ClaimHeld, ClaimIsCurrent, Rows, Holding
      <3>5. \A j \in Items \ {worker.id} : Owed(j)' => Owed(j)
        BY <2>9, <3>3 DEF WriteText, Owed
      <3>6. ~Owed(worker.id)'
        <4>1. worker.id \in DOMAIN ahead
          BY <3>4 DEF DInv, IInv, RowsWereAdded
        <4>2. DOMAIN ahead' = DOMAIN ahead /\ row' = row
          BY <2>9 DEF WriteText
        <4>3. worker'.id = worker.id
          BY <2>1, <2>9 DEF WriteText, ProgramPoints
        <4> QED BY <3>3, <3>4, <4>1, <4>2, <4>3 DEF Owed
      <3>7. retries' = retries
        BY <2>9 DEF WriteText
      <3>8. worker'.id = worker.id
        BY <2>1, <2>9 DEF WriteText, ProgramPoints
      <3> QED BY <1>t, <3>1, <3>2, <3>5, <3>6, <3>7, <3>8, CountTypes DEF DInv, Budget
    <2>10. CASE CompleteClaim
      <3>1. /\ DOMAIN row' \subseteq DOMAIN row
            /\ \A j \in DOMAIN row' : row'[j].state = row[j].state
        <4>1. CASE ClaimIsCurrent(worker.session, worker.id, worker.token)
          <5>1. worker.id \in DOMAIN row /\ row' = Without(worker.id)
            BY <2>10, <4>1 DEF CompleteClaim, ClaimIsCurrent, Rows
          <5> QED BY <1>t, <5>1, WithoutType
        <4>2. CASE ~ClaimIsCurrent(worker.session, worker.id, worker.token)
          BY <2>10, <4>2 DEF CompleteClaim
        <4> QED BY <4>1, <4>2
      <3> QED BY <2>2, <2>10, <3>1, NoWriteStep DEF CompleteClaim, Owed, Unwritten
    <2>11. ASSUME NEW state \in ItemStates \ {"dispatching"},
                  FinishClaim(state) \/ ClaimConflict,
                  worker.pc \in Unwritten \/ state # "queued",
                  worker'.pc \notin Unwritten, UNCHANGED <<sent, retries, ahead>>
           PROVE  Budget'
      <3>1. CASE FinishClaim(state)
        <4>1. worker.id \in DOMAIN row
          BY <3>1 DEF FinishClaim, ClaimIsCurrent, Rows
        <4>2. /\ DOMAIN row' = DOMAIN row
              /\ \A j \in DOMAIN row \ {worker.id} : row'[j] = row[j]
              /\ row'[worker.id].state = state
          BY <1>t, <3>1, <4>1, RowUpdateType DEF FinishClaim
        <4> QED BY <2>11, <4>2, NoWriteStep DEF Owed
      <3>2. CASE ClaimConflict
        BY <2>11, <3>2, NoWriteStep DEF ClaimConflict, Owed
      <3> QED BY <2>11, <3>1, <3>2
    <2>12. CASE Requeue
      <3>1. worker'.pc \notin Unwritten
        BY <2>1, <2>2, <2>12 DEF Requeue, ClaimConflict, ProgramPoints, Unwritten
      <3> QED BY <2>11, <2>12, <3>1 DEF Requeue, Unwritten, ItemStates
    <2>13. CASE PersistReadiness
      BY <2>2, <2>13, NoWriteStep DEF PersistReadiness, Owed, Unwritten
    <2>14. CASE FailClaim
      BY <2>2, <2>11, <2>14 DEF FailClaim, ClaimConflict, ItemStates, Unwritten
    <2>15. CASE MarkDeliveryUnknown
      BY <2>2, <2>11, <2>15 DEF MarkDeliveryUnknown, ClaimConflict, ItemStates, Unwritten
    <2> QED BY <1>10, <2>3, <2>4, <2>5, <2>6, <2>7, <2>8, <2>9, <2>10, <2>12, <2>13,
               <2>14, <2>15 DEF Step, Recheck, LastCheck, ProgramPoints, Unwritten
  <1>11. CASE UNCHANGED vars
    BY <1>11, NoWriteStep DEF vars, Owed
  <1> QED BY <1>1, <1>2, <1>3, <1>4, <1>5, <1>6, <1>7, <1>8, <1>9, <1>10, <1>11
         DEF Next, UserCommand, Startup

LEMMA InitBudget == Init => DInv
  BY InitClaims DEF DInv, Init, Budget

\* A prompt reaches the terminal at most once per request of the user, for any
\* number of crashes, requeues, lost answers and retries.
THEOREM AtMostOnce == Spec => []AtMostOncePerRequest
  <1>1. DInv /\ [Next]_vars => DInv'
    BY NextKeepsClaims, NextKeepsBudget DEF DInv
  <1>2. DInv => AtMostOncePerRequest
    BY DEF DInv, IInv, TypeOK, Budget, Owed, AtMostOncePerRequest
  <1> QED BY <1>1, <1>2, InitBudget, PTL DEF Spec

\* A switch that moves before the last look at the runtime row stops the prompt:
\* the generation remembers it, although the flag may be back where it was.
SwitchInv ==
    /\ TypeOK
    /\ RowsWereAdded
    /\ worker.pc \in BeforeLastCheck =>
          worker.generation <= generation /\ (revoked => worker.generation < generation)
    /\ worker.pc \in {"down", "starting", "idle"} => ~revoked
    /\ worker.pc \in {"submit", "write", "complete", "unknown"} => ~revoked

\* A step of the check itself: the generation of the claim and the history do
\* not move, and only the last look at the runtime row leads on to the write.
LEMMA CheckStep ==
  ASSUME SwitchInv, TypeOK', RowsWereAdded',
         UNCHANGED <<generation, revoked>>, worker'.generation = worker.generation,
         \/ worker.pc \in BeforeLastCheck /\ worker'.pc \in BeforeLastCheck
         \/ worker'.pc \in {"requeue", "persist", "fail"}
         \/ /\ worker.pc = "last_check" /\ worker'.pc = "submit"
            /\ worker.generation = generation
         \/ worker.pc \in {"submit", "write"} /\ worker'.pc \in {"write", "complete", "unknown"}
  PROVE  SwitchInv'
  <1>1. worker.generation \in Nat /\ generation \in Nat
    BY DEF SwitchInv, TypeOK, Worker
  <1>2. CASE worker.pc \in BeforeLastCheck /\ worker'.pc \in BeforeLastCheck
    BY <1>2 DEF SwitchInv, BeforeLastCheck
  <1>3. CASE worker'.pc \in {"requeue", "persist", "fail"}
    BY <1>3 DEF SwitchInv, BeforeLastCheck
  <1>4. CASE /\ worker.pc = "last_check" /\ worker'.pc = "submit"
             /\ worker.generation = generation
    <2>1. ~(worker.generation < generation)
      BY <1>1, <1>4
    <2>2. ~revoked
      BY <1>4, <2>1 DEF SwitchInv, BeforeLastCheck
    <2> QED BY <1>4, <2>2 DEF SwitchInv, BeforeLastCheck
  <1>5. CASE worker.pc \in {"submit", "write"} /\ worker'.pc \in {"write", "complete", "unknown"}
    BY <1>5 DEF SwitchInv, BeforeLastCheck
  <1> QED BY <1>2, <1>3, <1>4, <1>5

LEMMA NextKeepsSwitch == SwitchInv /\ [Next]_vars => SwitchInv'
  <1> SUFFICES ASSUME SwitchInv, [Next]_vars
               PROVE  SwitchInv'
    OBVIOUS
  <1>1. TypeOK' /\ RowsWereAdded'
    BY NextType DEF SwitchInv
  <1>2. worker \in Worker /\ generation \in Nat /\ worker.generation \in Nat
    BY DEF SwitchInv, TypeOK, Worker
  <1>3. CASE UNCHANGED <<generation, worker, revoked>>
    BY <1>1, <1>3 DEF SwitchInv
  <1>4. ASSUME NEW e \in BOOLEAN, SetGlobalEnabled(e)
        PROVE  SwitchInv'
    <2>1. worker' = worker /\ generation' = generation + 1
      BY <1>4 DEF SetGlobalEnabled
    <2>2. CASE worker.pc \in BeforeLastCheck
      <3>1. worker.generation <= generation
        BY <2>2 DEF SwitchInv
      <3>2. worker'.generation <= generation' /\ worker'.generation < generation'
        BY <1>2, <2>1, <3>1
      <3> QED BY <1>1, <2>1, <2>2, <3>2 DEF SwitchInv, BeforeLastCheck
    <2>3. CASE worker.pc \notin BeforeLastCheck
      <3>1. revoked' = revoked
        BY <1>4, <2>3 DEF SetGlobalEnabled, SwitchInv, TypeOK
      <3> QED BY <1>1, <2>1, <2>3, <3>1 DEF SwitchInv
    <2> QED BY <2>2, <2>3
  <1>5. CASE Crash \/ StartRuntime \/ StartWorker
    <2>1. worker'.pc \in {"down", "starting", "idle"}
      <3>1. \E pc \in {"down", "starting", "idle"} : worker' = At(pc)
        BY <1>5 DEF Crash, StartRuntime, StartWorker
      <3> QED BY <3>1 DEF At
    <2>2. ~revoked'
      BY <1>5 DEF Crash, StartRuntime, StartWorker, SwitchInv
    <2> QED BY <1>1, <2>1, <2>2 DEF SwitchInv, BeforeLastCheck
  <1>6. ASSUME NEW s \in Sessions, Begin(s)
        PROVE  SwitchInv'
    <2>1. worker'.pc = "snapshot" /\ worker'.generation = generation /\ generation' = generation
      BY <1>6 DEF Begin, At
    <2>2. ~revoked'
      BY <1>6 DEF Begin, SwitchInv
    <2>3. worker'.generation <= generation'
      BY <1>2, <2>1
    <2> QED BY <1>1, <2>1, <2>2, <2>3 DEF SwitchInv, BeforeLastCheck
  <1>7. CASE Step
    <2>1. \A pc \in ProgramPoints :
             Goto(pc) => worker'.pc = pc /\ worker'.generation = worker.generation
      BY <1>2 DEF Goto, Worker
    <2>2. \A pc \in ProgramPoints, r \in Readiness :
             worker' = [worker EXCEPT !.pc = pc, !.readiness = r] =>
                worker'.pc = pc /\ worker'.generation = worker.generation
      BY <1>2 DEF Worker
    <2>3. ASSUME Return
          PROVE  SwitchInv'
      <3>1. worker'.pc = "idle" /\ ~revoked'
        BY <2>3 DEF Return, At
      <3> QED BY <1>1, <3>1 DEF SwitchInv, BeforeLastCheck
    <2>4. CASE ReadSnapshot
      BY <1>1, <2>1, <2>3, <2>4, CheckStep DEF ReadSnapshot, ProgramPoints, BeforeLastCheck
    <2>5. CASE CheckReadiness
      BY <1>1, <2>1, <2>2, <2>3, <2>5, CheckStep, ReadinessTypes
         DEF CheckReadiness, ProgramPoints, BeforeLastCheck
    <2>6. CASE ClaimNext
      <3>1. ASSUME NEW i, NEW t,
                   worker' = [worker EXCEPT !.pc = "recheck", !.id = i, !.token = t],
                   UNCHANGED revoked
            PROVE  SwitchInv'
        <4>1. worker'.pc = "recheck" /\ worker'.generation = worker.generation
          BY <1>2, <3>1 DEF Worker
        <4> QED BY <1>1, <2>6, <3>1, <4>1, CheckStep DEF ClaimNext, BeforeLastCheck
      <3> QED BY <2>3, <2>6, <3>1 DEF ClaimNext
    <2>7. CASE Recheck \/ LastCheck
      BY <1>1, <2>1, <2>2, <2>7, CheckStep
         DEF Recheck, LastCheck, CheckRuntime, ProgramPoints, BeforeLastCheck, Readiness
    <2>8. CASE Confirm
      BY <1>1, <2>1, <2>2, <2>3, <2>8, CheckStep, ReadinessTypes
         DEF Confirm, ProgramPoints, BeforeLastCheck
    <2>9. CASE Submit
      BY <1>1, <2>1, <2>2, <2>9, CheckStep, ReadinessTypes DEF Submit, ProgramPoints
    <2>10. CASE WriteText
      BY <1>1, <2>1, <2>10, CheckStep DEF WriteText, ProgramPoints
    <2>11. CASE Requeue
      BY <1>1, <2>1, <2>3, <2>11, CheckStep DEF Requeue, ClaimConflict, ProgramPoints
    <2> QED BY <1>7, <2>3, <2>4, <2>5, <2>6, <2>7, <2>8, <2>9, <2>10, <2>11
           DEF Step, CompleteClaim, PersistReadiness, FailClaim, MarkDeliveryUnknown, ClaimConflict
  <1> QED BY <1>3, <1>4, <1>5, <1>6, <1>7
         DEF Next, UserCommand, Startup, AddItem, DeleteItem, RetryItem, ClearQueue,
             UpdateControl, vars

LEMMA InitSwitch == Init => SwitchInv
  BY InitType DEF Init, SwitchInv, At, BeforeLastCheck

\* Turning the switch off before the last check always stops the prompt.
THEOREM SwitchStopsPrompt == Spec => []RevokedNeverWritten
  <1>1. SwitchInv => RevokedNeverWritten
    BY DEF SwitchInv, RevokedNeverWritten
  <1> QED BY <1>1, InitSwitch, NextKeepsSwitch, PTL DEF Spec

-----------------------------------------------------------------------------
(* The rows, the claims and the worker implement AtMostOnceQueue.  Every   *)
(* step is a step of the promise or one it does not see.  The only hard one*)
(* is the write: that nothing older of the session is still waiting follows*)
(* from positions keeping the order in which the tasks were added.         *)

Home == [i \in DOMAIN row |-> row[i].session]
Armed == {i \in DOMAIN row :
             \/ row[i].state = "queued"
             \/ worker.pc \in Holding \ {"complete", "fail", "unknown"} /\ worker.id = i}

\* The steps of the promise, in terms of what the rows and the worker stand for.
LEMMA PromiseAdds ==
  ASSUME NEW s \in Sessions, NEW i \in Items, i \notin DOMAIN ahead,
         Home' = [j \in DOMAIN Home \cup {i} |-> IF j = i THEN s ELSE Home[j]],
         ahead' = [j \in DOMAIN ahead \cup {i} |->
                      IF j = i THEN {k \in DOMAIN Home : Home[k] = s} ELSE ahead[j]],
         Armed' = Armed \cup {i}, UNCHANGED <<retries, sent>>
  PROVE  Promise!Next
  BY DEF Promise!Next, Promise!Add, Promise!Waiting, Home, Armed

LEMMA PromiseLeaves ==
  ASSUME NEW gone \in SUBSET DOMAIN Home,
         Home' = [j \in DOMAIN Home \ gone |-> Home[j]],
         Armed' = Armed \ gone, UNCHANGED <<ahead, retries, sent>>
  PROVE  Promise!Next
  BY DEF Promise!Next, Promise!Leave, Home, Armed

LEMMA PromiseWrites ==
  ASSUME NEW i \in Items, i \in Armed,
         ahead[i] \cap {k \in DOMAIN Home : Home[k] = Home[i]} = {},
         sent' = [sent EXCEPT ![i] = @ + 1],
         Armed' = Armed \ {i}, Home' = Home, UNCHANGED <<ahead, retries>>
  PROVE  Promise!Next
  BY DEF Promise!Next, Promise!Write, Promise!Waiting, Home, Armed

LEMMA PromiseDisarms ==
  ASSUME NEW given \in SUBSET Armed,
         Armed' = Armed \ given, Home' = Home, UNCHANGED <<ahead, retries, sent>>
  PROVE  Promise!Next
  BY DEF Promise!Next, Promise!Disarm, Home, Armed

LEMMA PromiseAsks ==
  ASSUME NEW i \in Items, i \in DOMAIN Home,
         Armed' = Armed \cup {i}, retries' = [retries EXCEPT ![i] = @ + 1],
         Home' = Home, UNCHANGED <<ahead, sent>>
  PROVE  Promise!Next
  BY DEF Promise!Next, Promise!Ask, Home, Armed

LEMMA PromiseStutters ==
  ASSUME Armed' = Armed, Home' = Home, UNCHANGED <<ahead, retries, sent>>
  PROVE  UNCHANGED Promise!vars
  BY DEF Promise!vars, Home, Armed

\* Whatever was queued before a task stays in front of it.
AheadKnown == \A i \in DOMAIN ahead : ahead[i] \subseteq DOMAIN ahead
AheadFirst ==
    \A i, j \in DOMAIN row : j \in ahead[i] /\ row[j].session = row[i].session =>
        row[j].position < row[i].position

OrderInv == IInv /\ AheadKnown /\ AheadFirst

LEMMA OrderStays ==
  ASSUME OrderInv, UNCHANGED ahead, DOMAIN row' \subseteq DOMAIN row,
         \A i \in DOMAIN row' : row'[i].session = row[i].session,
         \A i, j \in DOMAIN row' :
            row[j].session = row[i].session /\ row[j].position < row[i].position =>
               row'[j].position < row'[i].position
  PROVE  AheadKnown' /\ AheadFirst'
  <1>1. AheadKnown'
    BY DEF OrderInv, AheadKnown
  <1>2. AheadFirst'
    BY DEF OrderInv, AheadFirst
  <1> QED BY <1>1, <1>2

\* Deleting a row moves the later ones of its session down and keeps their order.
LEMMA RemovalKeepsOrder ==
  ASSUME OrderInv, NEW i \in DOMAIN row, row' = Without(i), UNCHANGED ahead
  PROVE  AheadKnown' /\ AheadFirst'
  <1>1. TypeOK /\ UniquePositions
    BY DEF OrderInv, IInv
  <1>2. /\ DOMAIN row' = DOMAIN row \ {i}
        /\ \A j \in DOMAIN row \ {i} :
              /\ row'[j].session = row[j].session
              /\ row'[j].position =
                    IF row[j].session = row[i].session /\ row[j].position > row[i].position
                    THEN row[j].position - 1 ELSE row[j].position
    BY <1>1, WithoutType
  <1>3. \A j \in DOMAIN row : row[j].position \in Nat
    BY <1>1 DEF TypeOK, Row
  <1>4. ASSUME NEW j \in DOMAIN row \ {i}, NEW k \in DOMAIN row \ {i},
               row[k].session = row[j].session, row[k].position < row[j].position
        PROVE  row'[k].position < row'[j].position
    <2>1. row[j].session = row[i].session =>
             row[j].position # row[i].position /\ row[k].position # row[i].position
      BY <1>1, <1>4 DEF UniquePositions
    <2> QED BY <1>2, <1>3, <1>4, <2>1
  <1> QED BY <1>2, <1>4, OrderStays

\* Rewriting rows without moving them.
LEMMA MarkKeepsOrder ==
  ASSUME OrderInv, NEW i \in DOMAIN row, NEW state \in ItemStates, NEW t \in Tokens \cup {None},
         row' = Marked(i, state, t), UNCHANGED ahead
  PROVE  AheadKnown' /\ AheadFirst'
  <1>1. TypeOK
    BY DEF OrderInv, IInv
  <1>2. /\ DOMAIN row' = DOMAIN row
        /\ \A j \in DOMAIN row \ {i} : row'[j] = row[j]
        /\ row'[i].session = row[i].session /\ row'[i].position = row[i].position
    BY <1>1, RowUpdateType
  <1>3. \A j \in DOMAIN row' : row'[j].session = row[j].session /\ row'[j].position = row[j].position
    BY <1>2
  <1> QED BY <1>2, <1>3, OrderStays

LEMMA AddKeepsOrder ==
  ASSUME OrderInv, NEW s \in Sessions, NEW i \in Items, AddItem(s, i)
  PROVE  AheadKnown' /\ AheadFirst'
  <1>1. /\ i \notin DOMAIN ahead /\ DOMAIN ahead' = DOMAIN ahead \cup {i} /\ ahead'[i] = Rows(s)
        /\ \A j \in DOMAIN ahead : ahead'[j] = ahead[j]
    BY DEF AddItem
  <1>2. DOMAIN row \subseteq DOMAIN ahead /\ Rows(s) \subseteq DOMAIN row
    BY DEF OrderInv, IInv, RowsWereAdded, Rows
  <1>3. AheadKnown'
    BY <1>1, <1>2 DEF OrderInv, AheadKnown
  <1>4. PICK p \in {0} \cup {row[j].position + 1 : j \in Rows(s)} :
           /\ IsEndPosition(s, p)
           /\ row' = [j \in DOMAIN row \cup {i} |->
                         IF j = i
                         THEN [session |-> s, position |-> p, state |-> "queued", token |-> None]
                         ELSE row[j]]
    BY DEF AddItem
  <1>5. i \notin DOMAIN row
    BY <1>1, <1>2
  <1>6. /\ DOMAIN row' = DOMAIN row \cup {i} /\ \A j \in DOMAIN row : row'[j] = row[j]
        /\ row'[i].session = s /\ row'[i].position = p
    BY <1>4, <1>5
  <1>7. \A j \in Rows(s) : row[j].position < p
    <2>1. \A j \in DOMAIN row : row[j].position \in Nat
      BY DEF OrderInv, IInv, TypeOK, Row
    <2> QED BY <1>4, <2>1 DEF IsEndPosition, Rows
  <1>8. ASSUME NEW k \in DOMAIN row', NEW j \in DOMAIN row',
               j \in ahead'[k], row'[j].session = row'[k].session
        PROVE  row'[j].position < row'[k].position
    <2>1. CASE k = i
      BY <1>1, <1>2, <1>6, <1>7, <1>8, <2>1
    <2>2. CASE k # i
      <3>1. k \in DOMAIN row /\ ahead'[k] = ahead[k] /\ ahead[k] \subseteq DOMAIN ahead
        BY <1>1, <1>2, <1>6, <2>2 DEF OrderInv, AheadKnown
      <3>2. j \in DOMAIN row
        BY <1>1, <1>6, <1>8, <3>1
      <3> QED BY <1>6, <1>8, <3>1, <3>2 DEF OrderInv, AheadFirst
    <2> QED BY <2>1, <2>2
  <1>9. AheadFirst'
    BY <1>8 DEF AheadFirst
  <1> QED BY <1>3, <1>9

LEMMA NextKeepsOrder == OrderInv /\ [Next]_vars => OrderInv'
  <1> SUFFICES ASSUME OrderInv, [Next]_vars
               PROVE  AheadKnown' /\ AheadFirst'
    BY NextKeepsClaims DEF OrderInv
  <1>1. TypeOK
    BY DEF OrderInv, IInv
  <1>2. ASSUME UNCHANGED <<row, ahead>>
        PROVE  AheadKnown' /\ AheadFirst'
    BY <1>2, OrderStays
  <1>3. ASSUME NEW i \in Items, DeleteItem(i) \/ RetryItem(i)
        PROVE  AheadKnown' /\ AheadFirst'
    BY <1>3, RemovalKeepsOrder, MarkKeepsOrder DEF DeleteItem, RetryItem, ItemStates
  <1>4. ASSUME NEW s \in Sessions, ClearQueue(s)
        PROVE  AheadKnown' /\ AheadFirst'
    <2>1. DOMAIN row' \subseteq DOMAIN row /\ \A j \in DOMAIN row' : row'[j] = row[j]
      BY <1>4 DEF ClearQueue
    <2> QED BY <1>4, <2>1, OrderStays DEF ClearQueue
  <1>5. CASE StartWorker
    <2>1. DOMAIN row' = DOMAIN row
      BY <1>5 DEF StartWorker
    <2>2. ASSUME NEW j \in DOMAIN row
          PROVE  row'[j].session = row[j].session /\ row'[j].position = row[j].position
      <3>1. row[j] \in Row
        BY <1>1 DEF TypeOK
      <3>2. \/ row'[j] = row[j]
            \/ row'[j] = [row[j] EXCEPT !.state = "delivery_unknown", !.token = None]
        BY <1>5 DEF StartWorker
      <3> QED BY <3>1, <3>2 DEF Row
    <2> QED BY <1>5, <2>1, <2>2, OrderStays DEF StartWorker
  <1>6. ASSUME NEW state \in ItemStates \ {"dispatching"}, UNCHANGED ahead,
               FinishClaim(state) \/ ClaimConflict
        PROVE  AheadKnown' /\ AheadFirst'
    <2>1. CASE FinishClaim(state)
      <3>1. worker.id \in DOMAIN row /\ row' = Marked(worker.id, state, None)
        BY <2>1 DEF FinishClaim, ClaimIsCurrent, Rows
      <3> QED BY <1>6, <3>1, MarkKeepsOrder
    <2>2. CASE ClaimConflict
      BY <1>2, <1>6, <2>2 DEF ClaimConflict
    <2> QED BY <1>6, <2>1, <2>2
  <1>7. CASE Step
    <2>1. CASE ClaimNext
      <3>1. ASSUME NEW i \in Rows(worker.session), NEW t \in Tokens,
                   row' = Marked(i, "dispatching", t)
            PROVE  AheadKnown' /\ AheadFirst'
        <4>1. i \in DOMAIN row /\ "dispatching" \in ItemStates /\ ahead' = ahead
          BY <2>1 DEF Rows, ItemStates, ClaimNext
        <4> QED BY <3>1, <4>1, MarkKeepsOrder
      <3> QED BY <1>2, <2>1, <3>1 DEF ClaimNext
    <2>2. CASE CompleteClaim
      <3>1. CASE ClaimIsCurrent(worker.session, worker.id, worker.token)
        <4>1. worker.id \in DOMAIN row /\ row' = Without(worker.id) /\ ahead' = ahead
          BY <2>2, <3>1 DEF CompleteClaim, ClaimIsCurrent, Rows
        <4> QED BY <4>1, RemovalKeepsOrder
      <3> QED BY <1>2, <2>2, <3>1 DEF CompleteClaim
    <2>3. CASE Requeue \/ FailClaim \/ MarkDeliveryUnknown
      BY <1>6, <2>3 DEF Requeue, FailClaim, MarkDeliveryUnknown, ItemStates
    <2>4. CASE \/ ReadSnapshot \/ CheckReadiness \/ Recheck \/ Confirm \/ LastCheck \/ Submit
               \/ WriteText \/ PersistReadiness
      <3>1. UNCHANGED <<row, ahead>>
        BY <2>4 DEF ReadSnapshot, CheckReadiness, Recheck, CheckRuntime, Confirm, LastCheck, Submit,
                    WriteText, PersistReadiness
      <3> QED BY <1>2, <3>1
    <2> QED BY <1>7, <2>1, <2>2, <2>3, <2>4 DEF Step
  <1> QED BY <1>2, <1>3, <1>4, <1>5, <1>7, AddKeepsOrder
          DEF Next, UserCommand, UpdateControl, SetGlobalEnabled, Crash, Startup, StartRuntime,
              Begin, vars

\* A head has nobody left in front of it.
LEMMA HeadIsNext ==
  ASSUME OrderInv, NEW s \in Sessions, NEW i, IsHead(s, i)
  PROVE  ahead[i] \cap {k \in DOMAIN Home : Home[k] = Home[i]} = {}
  <1>1. /\ i \in DOMAIN row /\ row[i].session = s
        /\ \A j \in Rows(s) : row[i].position <= row[j].position
    BY DEF IsHead, Rows
  <1>2. \A j \in DOMAIN row : row[j].position \in Nat
    BY DEF OrderInv, IInv, TypeOK, Row
  <1>3. ASSUME NEW k \in DOMAIN row, k \in ahead[i], row[k].session = row[i].session
        PROVE  FALSE
    <2>1. row[k].position < row[i].position
      BY <1>1, <1>3 DEF OrderInv, AheadFirst
    <2>2. row[i].position <= row[k].position
      BY <1>1, <1>3 DEF Rows
    <2> QED BY <1>1, <1>2, <2>1, <2>2
  <1>4. DOMAIN Home = DOMAIN row /\ \A k \in DOMAIN row : Home[k] = row[k].session
    BY DEF Home
  <1> QED BY <1>1, <1>3, <1>4

MayWrite == Holding \ {"complete", "fail", "unknown"}

\* What the promise sees of the tables.
LEMMA HomeIs ==
  /\ DOMAIN Home = DOMAIN row /\ \A i \in DOMAIN row : Home[i] = row[i].session
  /\ DOMAIN row' = DOMAIN row /\ (\A i \in DOMAIN row : row'[i].session = row[i].session)
        => Home' = Home
  <1>1. DOMAIN Home = DOMAIN row /\ \A i \in DOMAIN row : Home[i] = row[i].session
    BY DEF Home
  <1>2. DOMAIN row' = DOMAIN row /\ (\A i \in DOMAIN row : row'[i].session = row[i].session)
           => Home' = Home
    BY DEF Home
  <1> QED BY <1>1, <1>2

LEMMA ArmedIs ==
  /\ \A i : i \in Armed <=> /\ i \in DOMAIN row
                            /\ row[i].state = "queued" \/ (worker.pc \in MayWrite /\ worker.id = i)
  /\ \A i : i \in Armed' <=>
        /\ i \in DOMAIN row'
        /\ row'[i].state = "queued" \/ (worker'.pc \in MayWrite /\ worker'.id = i)
  BY DEF Armed, MayWrite

\* The claim of the check is a row of the table, and the head of its queue.
LEMMA ClaimIs ==
  ASSUME IInv, worker.pc \in Holding
  PROVE  /\ worker.id \in DOMAIN row /\ worker.id \in Items
         /\ row[worker.id].state = "dispatching" /\ row[worker.id].session \in Sessions
         /\ IsHead(row[worker.id].session, worker.id)
         /\ ClaimIsCurrent(worker.session, worker.id, worker.token)
  <1>1. ClaimIsCurrent(worker.session, worker.id, worker.token)
    BY DEF IInv, ClaimHeld
  <1>2. worker.id \in DOMAIN row /\ row[worker.id].state = "dispatching"
    BY <1>1 DEF ClaimIsCurrent, Rows
  <1> QED BY <1>1, <1>2 DEF IInv, OnlyHeadMoves, TypeOK, Row

\* A step of the check that leaves the tables alone gives its claim up or goes on.
LEMMA QuietMaps ==
  ASSUME OrderInv, UNCHANGED <<row, ahead, retries, sent>>,
         \/ worker.pc \in MayWrite /\ worker'.pc \in MayWrite /\ worker'.id = worker.id
         \/ worker'.pc \notin MayWrite
  PROVE  [Promise!Next]_Promise!vars
  <1>1. Home' = Home
    BY HomeIs
  <1>2. CASE worker'.pc \in MayWrite \/ worker.pc \notin MayWrite
    <2>1. Armed' = Armed
      BY <1>2, ArmedIs
    <2> QED BY <1>1, <2>1, PromiseStutters
  <1>3. CASE worker.pc \in MayWrite /\ worker'.pc \notin MayWrite
    <2>1. worker.id \in DOMAIN row /\ row[worker.id].state = "dispatching"
      BY <1>3, ClaimIs DEF MayWrite, OrderInv
    <2>2. worker.id \in Armed
      BY <1>3, <2>1, ArmedIs
    <2>3. Armed' = Armed \ {worker.id}
      BY <1>3, <2>1, ArmedIs
    <2>4. Promise!Next
      BY <1>1, <2>2, <2>3, PromiseDisarms
    <2> QED BY <2>4
  <1> QED BY <1>2, <1>3

LEMMA UserMaps ==
  ASSUME OrderInv, UserCommand
  PROVE  [Promise!Next]_Promise!vars
  <1>1. TypeOK /\ IInv
    BY DEF OrderInv, IInv
  <1>2. ASSUME NEW s \in Sessions, NEW i \in Items, AddItem(s, i)
        PROVE  Promise!Next
    <2>1. /\ i \notin DOMAIN ahead /\ UNCHANGED <<worker, sent, retries>>
          /\ ahead' = [j \in DOMAIN ahead \cup {i} |-> IF j = i THEN Rows(s) ELSE ahead[j]]
          /\ DOMAIN row' = DOMAIN row \cup {i}
          /\ row'[i].session = s /\ row'[i].state = "queued"
          /\ \A j \in DOMAIN row \ {i} : row'[j] = row[j]
      BY <1>2 DEF AddItem
    <2>2. i \notin DOMAIN row
      BY <1>1, <2>1 DEF IInv, RowsWereAdded
    <2>3. Home' = [j \in DOMAIN Home \cup {i} |-> IF j = i THEN s ELSE Home[j]]
      BY <2>1, <2>2 DEF Home
    <2>4. {k \in DOMAIN Home : Home[k] = s} = Rows(s)
      BY HomeIs DEF Rows
    <2>5. Armed' = Armed \cup {i}
      BY <2>1, <2>2, ArmedIs
    <2> QED BY <2>1, <2>3, <2>4, <2>5, PromiseAdds
  <1>3. ASSUME NEW i \in Items, DeleteItem(i)
        PROVE  Promise!Next
    <2>1. /\ i \in DOMAIN row /\ row' = Without(i)
          /\ UNCHANGED <<worker, ahead, sent, retries>>
      BY <1>3 DEF DeleteItem
    <2>2. /\ DOMAIN row' = DOMAIN row \ {i}
          /\ \A j \in DOMAIN row \ {i} : /\ row'[j].session = row[j].session
                                         /\ row'[j].state = row[j].state
      BY <1>1, <2>1, WithoutType
    <2>3. Home' = [j \in DOMAIN Home \ {i} |-> Home[j]]
      BY <2>2 DEF Home
    <2>4. Armed' = Armed \ {i}
      BY <2>1, <2>2, ArmedIs
    <2>5. {i} \in SUBSET DOMAIN Home
      BY <2>1, HomeIs
    <2> QED BY <2>1, <2>3, <2>4, <2>5, PromiseLeaves
  <1>4. ASSUME NEW i \in Items, RetryItem(i)
        PROVE  Promise!Next
    <2>1. /\ i \in DOMAIN row /\ row' = Marked(i, "queued", None)
          /\ retries' = [retries EXCEPT ![i] = @ + 1] /\ UNCHANGED <<worker, ahead, sent>>
      BY <1>4 DEF RetryItem
    <2>2. /\ DOMAIN row' = DOMAIN row /\ row'[i].session = row[i].session
          /\ row'[i].state = "queued" /\ \A j \in DOMAIN row \ {i} : row'[j] = row[j]
      BY <1>1, <2>1, RowUpdateType DEF ItemStates
    <2>3. Home' = Home
      BY <2>2, HomeIs
    <2>4. Armed' = Armed \cup {i}
      BY <2>1, <2>2, ArmedIs
    <2> QED BY <2>1, <2>3, <2>4, HomeIs, PromiseAsks
  <1>5. ASSUME NEW s \in Sessions, ClearQueue(s)
        PROVE  Promise!Next
    <2> DEFINE gone == {k \in Rows(s) : row[k].state # "dispatching"}
    <2>1. /\ DOMAIN row' = DOMAIN row \ gone /\ gone \subseteq DOMAIN row
          /\ \A j \in DOMAIN row' : row'[j] = row[j]
          /\ UNCHANGED <<worker, ahead, sent, retries>>
      BY <1>5 DEF ClearQueue, Rows
    <2> HIDE DEF gone
    <2>2. Home' = [j \in DOMAIN Home \ gone |-> Home[j]]
      BY <2>1 DEF Home
    <2>3. Armed' = Armed \ gone
      BY <2>1, ArmedIs
    <2>4. gone \in SUBSET DOMAIN Home
      BY <2>1, HomeIs
    <2> QED BY <2>1, <2>2, <2>3, <2>4, PromiseLeaves
  <1>6. ASSUME UNCHANGED <<row, worker, ahead, sent, retries>>
        PROVE  [Promise!Next]_Promise!vars
    BY <1>6, HomeIs, ArmedIs, PromiseStutters
  <1> QED BY <1>2, <1>3, <1>4, <1>5, <1>6 DEF UserCommand, UpdateControl, SetGlobalEnabled

LEMMA RestartMaps ==
  ASSUME OrderInv, Crash \/ Startup
  PROVE  [Promise!Next]_Promise!vars
  <1>1. CASE Crash \/ StartRuntime
    <2>1. UNCHANGED <<row, ahead, retries, sent>> /\ worker'.pc \notin MayWrite
      BY <1>1 DEF Crash, StartRuntime, At, MayWrite, Holding
    <2> QED BY <2>1, QuietMaps
  <1>2. CASE StartWorker
    <2>1. /\ DOMAIN row' = DOMAIN row /\ UNCHANGED <<ahead, retries, sent>>
          /\ worker.pc \notin MayWrite /\ worker'.pc \notin MayWrite
      BY <1>2 DEF StartWorker, At, MayWrite, Holding
    <2>2. ASSUME NEW j \in DOMAIN row
          PROVE  /\ row'[j].session = row[j].session
                 /\ row'[j].state = "queued" <=> row[j].state = "queued"
      <3>1. row[j] \in Row
        BY DEF OrderInv, IInv, TypeOK
      <3>2. CASE row[j].state = "dispatching"
        <4>1. row'[j] = [row[j] EXCEPT !.state = "delivery_unknown", !.token = None]
          BY <1>2, <3>2 DEF StartWorker
        <4> QED BY <3>1, <3>2, <4>1 DEF Row
      <3>3. CASE row[j].state # "dispatching"
        BY <1>2, <3>3 DEF StartWorker
      <3> QED BY <3>2, <3>3
    <2>3. Home' = Home /\ Armed' = Armed
      BY <2>1, <2>2, HomeIs, ArmedIs
    <2> QED BY <2>1, <2>3, PromiseStutters
  <1> QED BY <1>1, <1>2 DEF Startup

LEMMA CheckMaps ==
  ASSUME OrderInv, Step
  PROVE  [Promise!Next]_Promise!vars
  <1>1. TypeOK /\ IInv /\ worker \in Worker
    BY DEF OrderInv, IInv, TypeOK
  <1>2. \A pc \in ProgramPoints : Goto(pc) => worker'.pc = pc /\ worker'.id = worker.id
    BY <1>1 DEF Goto, Worker
  <1>3. \A pc \in ProgramPoints, r \in Readiness :
           worker' = [worker EXCEPT !.pc = pc, !.readiness = r] =>
              worker'.pc = pc /\ worker'.id = worker.id
    BY <1>1 DEF Worker
  <1>4. Return => worker'.pc \notin MayWrite
    BY DEF Return, At, MayWrite, Holding
  <1>5. CASE ReadSnapshot \/ CheckReadiness
    <2>1. UNCHANGED <<row, ahead, retries, sent>>
      BY <1>5 DEF ReadSnapshot, CheckReadiness
    <2>2. worker'.pc \notin MayWrite
      BY <1>2, <1>3, <1>4, <1>5, ReadinessTypes
         DEF ReadSnapshot, CheckReadiness, ProgramPoints, MayWrite, Holding
    <2> QED BY <2>1, <2>2, QuietMaps
  <1>6. CASE Recheck \/ LastCheck \/ Confirm \/ Submit
    <2>1. UNCHANGED <<row, ahead, retries, sent>> /\ worker.pc \in MayWrite
      BY <1>6 DEF Recheck, LastCheck, CheckRuntime, Confirm, Submit, MayWrite, Holding
    <2>2. worker'.id = worker.id \/ worker'.pc \notin MayWrite
      BY <1>2, <1>3, <1>4, <1>6, ReadinessTypes
         DEF Recheck, LastCheck, CheckRuntime, Confirm, Submit, ProgramPoints, Readiness
    <2> QED BY <2>1, <2>2, QuietMaps
  <1>7. CASE ClaimNext
    <2>1. ASSUME NEW i \in Rows(worker.session), NEW t \in Tokens,
                 MayClaim(worker.session, i), row' = Marked(i, "dispatching", t),
                 worker' = [worker EXCEPT !.pc = "recheck", !.id = i, !.token = t]
          PROVE  [Promise!Next]_Promise!vars
      <3>1. /\ i \in DOMAIN row /\ row[i].state = "queued" /\ worker.pc \notin MayWrite
            /\ UNCHANGED <<ahead, retries, sent>>
        BY <1>7, <2>1 DEF MayClaim, Rows, ClaimNext, MayWrite, Holding
      <3>2. worker'.pc \in MayWrite /\ worker'.id = i
        BY <1>1, <2>1 DEF Worker, MayWrite, Holding
      <3>3. /\ DOMAIN row' = DOMAIN row /\ row'[i].session = row[i].session
            /\ row'[i].state = "dispatching" /\ \A j \in DOMAIN row \ {i} : row'[j] = row[j]
        BY <1>1, <2>1, <3>1, RowUpdateType DEF ItemStates
      <3>4. Home' = Home
        BY <3>3, HomeIs
      <3>5. i \in Armed /\ i \in Armed'
        BY <3>1, <3>2, <3>3, ArmedIs
      <3>6. ASSUME NEW j, j # i, j \in Armed
            PROVE  j \in Armed'
        <4>1. j \in DOMAIN row /\ row[j].state = "queued"
          BY <3>1, <3>6, ArmedIs
        <4>2. j \in DOMAIN row' /\ row'[j] = row[j]
          BY <3>3, <3>6, <4>1
        <4> QED BY <4>1, <4>2, ArmedIs
      <3>7. ASSUME NEW j, j # i, j \in Armed'
            PROVE  j \in Armed
        <4>1. j \in DOMAIN row' /\ row'[j].state = "queued"
          BY <3>2, <3>7, ArmedIs
        <4>2. j \in DOMAIN row /\ row'[j] = row[j]
          BY <3>3, <3>7, <4>1
        <4> QED BY <4>1, <4>2, ArmedIs
      <3>8. Armed' = Armed
        BY <3>5, <3>6, <3>7
      <3> QED BY <3>1, <3>4, <3>8, PromiseStutters
    <2>2. CASE Return /\ UNCHANGED <<queue, row>>
      BY <1>4, <1>7, <2>2, QuietMaps DEF ClaimNext
    <2> QED BY <1>7, <2>1, <2>2 DEF ClaimNext
  <1>8. CASE WriteText
    <2>1. /\ UNCHANGED <<row, ahead, retries>> /\ worker.pc = "write"
          /\ worker'.pc \notin MayWrite
      BY <1>2, <1>8 DEF WriteText, ProgramPoints, MayWrite, Holding
    <2>2. sent' = sent \/ sent' = [sent EXCEPT ![worker.id] = @ + 1]
      <3>1. sent \in [Items -> Nat] /\ worker.id \in Items
        BY <1>1, <2>1, ClaimIs DEF TypeOK, Holding
      <3>2. [sent EXCEPT ![worker.id] = @ + 0] = sent
        BY <3>1
      <3> QED BY <1>8, <3>2 DEF WriteText
    <2>3. CASE sent' = sent
      BY <2>1, <2>3, QuietMaps
    <2>4. CASE sent' = [sent EXCEPT ![worker.id] = @ + 1]
      <3>1. /\ worker.id \in DOMAIN row /\ worker.id \in Items
            /\ row[worker.id].state = "dispatching" /\ row[worker.id].session \in Sessions
            /\ IsHead(row[worker.id].session, worker.id)
        BY <1>1, <2>1, ClaimIs DEF Holding
      <3>2. worker.id \in Armed /\ Armed' = Armed \ {worker.id}
        BY <2>1, <3>1, ArmedIs DEF MayWrite, Holding
      <3>3. Home' = Home
        BY <2>1, HomeIs
      <3>4. ahead[worker.id] \cap {k \in DOMAIN Home : Home[k] = Home[worker.id]} = {}
        BY <3>1, HeadIsNext
      <3>5. Promise!Next
        BY <2>1, <2>4, <3>1, <3>2, <3>3, <3>4, PromiseWrites
      <3> QED BY <3>5
    <2> QED BY <2>2, <2>3, <2>4
  <1>9. CASE CompleteClaim
    <2>1. /\ worker.id \in DOMAIN row /\ row' = Without(worker.id)
          /\ row[worker.id].state = "dispatching"
          /\ UNCHANGED <<ahead, retries, sent>> /\ worker.pc = "complete"
      BY <1>1, <1>9, ClaimIs DEF CompleteClaim, Holding
    <2>2. worker'.pc \notin MayWrite /\ worker.pc \notin MayWrite
      BY <1>4, <1>9, <2>1 DEF CompleteClaim, MayWrite
    <2>3. /\ DOMAIN row' = DOMAIN row \ {worker.id}
          /\ \A j \in DOMAIN row \ {worker.id} : /\ row'[j].session = row[j].session
                                                 /\ row'[j].state = row[j].state
      BY <1>1, <2>1, WithoutType
    <2>4. Home' = [j \in DOMAIN Home \ {worker.id} |-> Home[j]]
      BY <2>3 DEF Home
    <2>5. Armed' = Armed \ {worker.id}
      BY <2>2, <2>3, ArmedIs
    <2>6. {worker.id} \in SUBSET DOMAIN Home
      BY <2>1, HomeIs
    <2>7. Promise!Next
      BY <2>1, <2>4, <2>5, <2>6, PromiseLeaves
    <2> QED BY <2>7
  <1>10. ASSUME worker.pc \in {"requeue", "fail", "unknown"}, UNCHANGED <<ahead, retries, sent>>,
                NEW state \in ItemStates \ {"dispatching"}, FinishClaim(state),
                worker.pc = "requeue" <=> state = "queued", worker'.pc \notin MayWrite
         PROVE  [Promise!Next]_Promise!vars
    <2>1. /\ worker.id \in DOMAIN row /\ row' = Marked(worker.id, state, None)
          /\ row[worker.id].state = "dispatching"
      BY <1>1, <1>10, ClaimIs DEF FinishClaim, Holding
    <2>2. /\ DOMAIN row' = DOMAIN row /\ row'[worker.id].session = row[worker.id].session
          /\ row'[worker.id].state = state
          /\ \A j \in DOMAIN row \ {worker.id} : row'[j] = row[j]
      BY <1>1, <2>1, RowUpdateType
    <2>3. Home' = Home
      BY <2>2, HomeIs
    <2>4. ASSUME NEW j, j # worker.id, j \in Armed
          PROVE  j \in Armed'
      <3>1. j \in DOMAIN row /\ row[j].state = "queued"
        BY <2>4, ArmedIs
      <3>2. j \in DOMAIN row' /\ row'[j] = row[j]
        BY <2>2, <2>4, <3>1
      <3> QED BY <3>1, <3>2, ArmedIs
    <2>5. ASSUME NEW j, j # worker.id, j \in Armed'
          PROVE  j \in Armed
      <3>1. j \in DOMAIN row' /\ row'[j].state = "queued"
        BY <1>10, <2>5, ArmedIs
      <3>2. j \in DOMAIN row /\ row'[j] = row[j]
        BY <2>2, <2>5, <3>1
      <3> QED BY <3>1, <3>2, ArmedIs
    <2>6. ASSUME state = "queued"
          PROVE  Armed' = Armed
      <3>1. worker.pc = "requeue"
        BY <1>10, <2>6
      <3>2. worker.id \in Armed
        BY <2>1, <3>1, ArmedIs DEF MayWrite, Holding
      <3>3. worker.id \in Armed'
        BY <2>1, <2>2, <2>6, ArmedIs
      <3> QED BY <2>4, <2>5, <3>2, <3>3
    <2>7. ASSUME state # "queued"
          PROVE  Armed' = Armed
      <3>1. worker.pc \notin MayWrite
        BY <1>10, <2>7 DEF MayWrite
      <3>2. worker.id \notin Armed
        BY <2>1, <3>1, ArmedIs
      <3>3. worker.id \notin Armed'
        BY <1>10, <2>2, <2>7, ArmedIs
      <3> QED BY <2>4, <2>5, <3>2, <3>3
    <2>8. Armed' = Armed
      BY <2>6, <2>7
    <2> QED BY <1>10, <2>3, <2>8, PromiseStutters
  <1>11. CASE Requeue \/ FailClaim \/ MarkDeliveryUnknown
    <2>1. worker.pc \in {"requeue", "fail", "unknown"} /\ UNCHANGED <<ahead, retries, sent>>
      BY <1>11 DEF Requeue, FailClaim, MarkDeliveryUnknown
    <2>2. ~ClaimConflict
      BY <1>1, <2>1, ClaimIs DEF ClaimConflict, Holding
    <2>3. worker'.pc \notin MayWrite
      <3>1. Goto("persist") => worker'.pc \notin MayWrite
        BY <1>2 DEF ProgramPoints, MayWrite, Holding
      <3> QED BY <1>4, <1>11, <2>2, <3>1 DEF Requeue, FailClaim, MarkDeliveryUnknown
    <2>4. \/ worker.pc = "requeue" /\ FinishClaim("queued")
          \/ worker.pc = "fail" /\ FinishClaim("failed")
          \/ worker.pc = "unknown" /\ FinishClaim("delivery_unknown")
      BY <1>11, <2>2 DEF Requeue, FailClaim, MarkDeliveryUnknown
    <2> QED BY <1>10, <2>1, <2>3, <2>4 DEF ItemStates
  <1>12. CASE PersistReadiness
    <2>1. UNCHANGED <<row, ahead, retries, sent>> /\ worker'.pc \notin MayWrite
      BY <1>4, <1>12 DEF PersistReadiness
    <2> QED BY <2>1, QuietMaps
  <1> QED BY <1>5, <1>6, <1>7, <1>8, <1>9, <1>11, <1>12 DEF Step

\* Every step of the queue is a step of the promise, or one it does not see.
LEMMA NextMaps == OrderInv /\ [Next]_vars => [Promise!Next]_Promise!vars
  <1> SUFFICES ASSUME OrderInv, [Next]_vars
               PROVE  [Promise!Next]_Promise!vars
    OBVIOUS
  <1>1. ASSUME NEW s \in Sessions, Begin(s)
        PROVE  [Promise!Next]_Promise!vars
    <2>1. UNCHANGED <<row, ahead, retries, sent>> /\ worker'.pc = "snapshot"
      BY <1>1 DEF Begin, At
    <2> QED BY <2>1, QuietMaps DEF MayWrite, Holding
  <1>2. CASE UNCHANGED vars
    BY <1>2, HomeIs, ArmedIs, PromiseStutters DEF vars
  <1> QED BY <1>1, <1>2, UserMaps, RestartMaps, CheckMaps DEF Next

LEMMA InitMaps == Init => OrderInv /\ Promise!Init
  <1> SUFFICES ASSUME Init
               PROVE  OrderInv /\ Promise!Init
    OBVIOUS
  <1>1. DOMAIN row = {} /\ DOMAIN ahead = {}
    BY DEF Init
  <1>2. OrderInv
    BY <1>1, InitClaims DEF OrderInv, AheadKnown, AheadFirst
  <1>3. Promise!Init
    BY <1>1 DEF Init, Promise!Init
  <1> QED BY <1>2, <1>3

\* The rows, the claims, the worker, the commands and the restarts do what
\* AtMostOnceQueue promises: a task is written at most once for each time the user asked
\* for it, and never before an older task of its session that is still waiting.
THEOREM PromiseKept == Spec => ImplementsPromise
  <1>1. Spec => []OrderInv
    BY InitMaps, NextKeepsOrder, PTL DEF Spec
  <1> QED BY <1>1, InitMaps, NextMaps, PTL DEF Spec, ImplementsPromise, Promise!Spec
=============================================================================
