-------------------------- MODULE WorkerReportsProofs --------------------------
(***************************************************************************)
(* Theorems about WorkerReports, for every finite set of workers and every *)
(* value of the bounds.  The invariant says where a report may wait (once, *)
(* in the queue or in one list of a send) and that the stamps of a worker's *)
(* reports are in the order in which it made them.                         *)
(***************************************************************************)
EXTENDS WorkerReports, FiniteSetTheorems, TLAPS

----------------------------------------------------------------------------
(* Only(q, I) is q without what is not at I, whatever q and I are (the same *)
(* lemmas as in IdentityOutboxProofs).                                     *)

Rank(I, i) == Cardinality({j \in I : j <= i})

\* Ranks are distinct and between 1 and the number of indices.
LEMMA RankIsInjective ==
  ASSUME NEW n \in Nat, NEW I \in SUBSET (1..n)
  PROVE  /\ IsFiniteSet(I) /\ Cardinality(I) \in Nat /\ Cardinality(I) <= n
         /\ \A i \in I : Rank(I, i) \in 1..Cardinality(I)
         /\ \A i, l \in I : Rank(I, i) = Rank(I, l) => i = l
  <1>1. IsFiniteSet(1..n) /\ Cardinality(1..n) = n
    <2>1. Cardinality(1..n) = IF 1 > n THEN 0 ELSE n - 1 + 1
      BY FS_Interval
    <2> QED BY <2>1, FS_Interval
  <1>2. IsFiniteSet(I) /\ Cardinality(I) <= n
    BY <1>1, FS_Subset
  <1>3. Cardinality(I) \in Nat
    BY <1>2, FS_CardinalityType
  <1>4. ASSUME NEW i \in I
        PROVE  /\ {j \in I : j <= i} \in SUBSET I
               /\ IsFiniteSet({j \in I : j <= i})
               /\ Rank(I, i) \in 1..Cardinality(I)
    <2>1. {j \in I : j <= i} \in SUBSET I
      OBVIOUS
    <2>2. /\ IsFiniteSet({j \in I : j <= i})
          /\ Cardinality({j \in I : j <= i}) <= Cardinality(I)
      BY <1>2, <2>1, FS_Subset
    <2>3. Cardinality({j \in I : j <= i}) \in Nat
      BY <2>2, FS_CardinalityType
    <2>4. {j \in I : j <= i} # {}
      <3>1. i \in {j \in I : j <= i}
        OBVIOUS
      <3> QED BY <3>1
    <2>5. Cardinality({j \in I : j <= i}) # 0
      BY <2>2, <2>4, FS_EmptySet
    <2> QED BY <1>3, <2>1, <2>2, <2>3, <2>5 DEF Rank
  <1>5. ASSUME NEW i \in I, NEW l \in I, i < l
        PROVE  Rank(I, i) # Rank(I, l)
    <2>1. {j \in I : j <= i} \in SUBSET {j \in I : j <= l}
      <3>1. \A j \in I : j <= i => j <= l
        <4>1. i \in Int /\ l \in Int /\ \A j \in I : j \in Int
          OBVIOUS
        <4> QED BY <1>5, <4>1
      <3> QED BY <3>1
    <2>2. l \in {j \in I : j <= l} /\ l \notin {j \in I : j <= i}
      BY <1>5
    <2>3. {j \in I : j <= i} # {j \in I : j <= l}
      BY <2>2
    <2> QED BY <1>4, <2>1, <2>3, FS_Subset DEF Rank
  <1>6. ASSUME NEW i \in I, NEW l \in I, Rank(I, i) = Rank(I, l)
        PROVE  i = l
    <2>1. i \in Int /\ l \in Int
      OBVIOUS
    <2> QED BY <1>5, <1>6, <2>1
  <1> QED BY <1>2, <1>3, <1>4, <1>6

\* Every number up to the number of indices is the rank of one.
LEMMA RankIsOnto ==
  ASSUME NEW n \in Nat, NEW I \in SUBSET (1..n), NEW k \in 1..Cardinality(I)
  PROVE  \E i \in I : Rank(I, i) = k
  <1> DEFINE m == Cardinality(I)
             f == [i \in I |-> Rank(I, i)]
  <1>1. m \in Nat /\ IsFiniteSet(I)
    BY RankIsInjective
  <1>2. f \in [I -> 1..m]
    BY RankIsInjective
  <1>3. \A i, l \in I : f[i] = f[l] => i = l
    BY RankIsInjective
  <1>4. f \in Injection(I, 1..m)
    BY <1>2, <1>3, Zenon DEF Injection, IsInjective
  <1>5. IsFiniteSet(1..m) /\ Cardinality(1..m) = m
    <2>1. Cardinality(1..m) = IF 1 > m THEN 0 ELSE m - 1 + 1
      BY <1>1, FS_Interval
    <2> QED BY <1>1, <2>1, FS_Interval
  <1>6. f \in Surjection(I, 1..m)
    BY <1>4, <1>5, FS_Injection
  <1>7. \E i \in I : f[i] = k
    BY <1>6 DEF Surjection
  <1> QED BY <1>7

LEMMA NthIs ==
  ASSUME NEW n \in Nat, NEW I \in SUBSET (1..n)
  PROVE  /\ \A k \in 1..Cardinality(I) : Nth(I, k) \in I /\ Rank(I, Nth(I, k)) = k
         /\ \A i \in I : Nth(I, Rank(I, i)) = i
  <1>1. ASSUME NEW k \in 1..Cardinality(I)
        PROVE  Nth(I, k) \in I /\ Rank(I, Nth(I, k)) = k
    <2>1. \E i \in I : Rank(I, i) = k
      BY RankIsOnto
    <2> QED BY <2>1 DEF Nth, Rank
  <1>2. ASSUME NEW i \in I
        PROVE  Nth(I, Rank(I, i)) = i
    <2>1. Rank(I, i) \in 1..Cardinality(I)
      BY RankIsInjective
    <2>2. /\ Nth(I, Rank(I, i)) \in I
          /\ Rank(I, Nth(I, Rank(I, i))) = Rank(I, i)
      BY <1>1, <2>1
    <2> QED BY <2>2, RankIsInjective
  <1> QED BY <1>1, <1>2

\* Only(q, I) is a sequence with each element of q at an index of I once, and
\* no other.
LEMMA OnlyIs ==
  ASSUME NEW T, NEW q \in Seq(T), NEW I \in SUBSET (DOMAIN q)
  PROVE  /\ Only(q, I) \in Seq(T)
         /\ Len(Only(q, I)) <= Len(q)
         /\ \A k \in DOMAIN Only(q, I) : Nth(I, k) \in I /\ Only(q, I)[k] = q[Nth(I, k)]
         /\ \A k, l \in DOMAIN Only(q, I) : Nth(I, k) = Nth(I, l) => k = l
         /\ \A i \in I : \E k \in DOMAIN Only(q, I) : Only(q, I)[k] = q[i]
  <1> DEFINE m == Cardinality(I)
  <1>1. Len(q) \in Nat /\ I \in SUBSET (1..Len(q))
    OBVIOUS
  <1>2. m \in Nat /\ m <= Len(q)
    BY <1>1, RankIsInjective
  <1>3. /\ \A k \in 1..m : Nth(I, k) \in I /\ Rank(I, Nth(I, k)) = k
        /\ \A i \in I : Nth(I, Rank(I, i)) = i /\ Rank(I, i) \in 1..m
    BY <1>1, NthIs, RankIsInjective
  <1>4. DOMAIN Only(q, I) = 1..m /\ \A k \in 1..m : Only(q, I)[k] = q[Nth(I, k)]
    BY DEF Only
  <1>5. \A k \in 1..m : q[Nth(I, k)] \in T
    BY <1>1, <1>3
  <1>6. Only(q, I) \in Seq(T) /\ Len(Only(q, I)) = m
    <2>1. Only(q, I) = [k \in 1..m |-> q[Nth(I, k)]]
      BY DEF Only
    <2> HIDE DEF m
    <2> QED BY <1>2, <1>5, <2>1
  <1>7. \A i \in I : \E k \in 1..m : Only(q, I)[k] = q[i]
    BY <1>3, <1>4
  <1> QED BY <1>2, <1>3, <1>4, <1>6, <1>7

----------------------------------------------------------------------------
(* The invariant.                                                          *)

\* The entries of a job that it still has to send: the head is queued again when
\* the second look at the leader is still to come.
Live(j) == IF j.pc = "recheck" THEN 2..Len(j.todo) ELSE 1..Len(j.todo)

\* Stamps are in the order in which a worker made its reports.
Ordered(x, y) == x.w = y.w /\ x.at > 0 /\ y.at > 0 /\ x.k > y.k => x.at > y.at
Apart(x, y) == ReportOf(x) # ReportOf(y) /\ Ordered(x, y) /\ Ordered(y, x)

\* A report waits in one place: in the queue or once in one job.
QueueApart ==
    \A i \in DOMAIN queue : \A j \in jobs : \A l \in Live(j) : Apart(queue[i], j.todo[l])
JobsApart ==
    \A j, m \in jobs : \A l \in Live(j), n \in Live(m) :
        j # m \/ l # n => Apart(j.todo[l], m.todo[n])

\* What waits was made, and is not delivered.
Waits(x) == x.k <= issued[x.w] /\ ReportOf(x) \notin delivered
QueueWaits == \A i \in DOMAIN queue : queue[i].at > 0 /\ Waits(queue[i])
JobsWait == \A j \in jobs : \A l \in Live(j) : Waits(j.todo[l])
DeliveredWasMade == \A r \in delivered : r.k <= issued[r.w]

\* A report without a stamp is the newest of its worker, and the first of its job.
NewIsNewest ==
    \A j \in jobs : \A l \in DOMAIN j.todo :
        j.todo[l].at = 0 => l = 1 /\ j.todo[l].k = issued[j.todo[l].w]

Held(r) ==
    \/ \E i \in DOMAIN queue : ReportOf(queue[i]) = r
    \/ \E j \in jobs : \E l \in Live(j) : ReportOf(j.todo[l]) = r

\* NewestIsKept, without what a job has queued again.
Newest(w) == [w |-> w, k |-> issued[w]]
NewestIsHeld ==
    \A w \in Worker : issued[w] > 0 =>
        Held(Newest(w)) \/ Newest(w) \in delivered \/ w \in told \cup untold

Places == QueueApart /\ JobsApart /\ QueueWaits /\ JobsWait /\ DeliveredWasMade /\ NewIsNewest

IInv == TypeOK /\ Places /\ DeliveredOnce /\ NewestIsHeld

Pc == {"read", "submit", "enqueue", "clear", "recheck"}

LEMMA Bounds ==
  /\ IsFiniteSet(Worker)
  /\ MaxPending \in Nat /\ MaxPending > 0
  /\ MaxReports \in Nat /\ MaxFaults \in Nat /\ MaxFlushes \in Nat /\ MaxFlushes > 0
  BY WorkerAssumption, PendingAssumption, BoundsAssumption

LEMMA InitIInv == Init => IInv
  <1> SUFFICES ASSUME Init
               PROVE  IInv
    OBVIOUS
  <1>1. TypeOK
    <2>1. queue \in Seq(Entry) /\ Len(queue) = 0 /\ DOMAIN queue = 1..0
      BY DEF Init
    <2>2. Len(queue) <= MaxPending
      BY <2>1, Bounds
    <2>3. issued \in [Worker -> 0..MaxReports]
      BY Bounds DEF Init
    <2>4. faults \in 0..MaxFaults /\ flushes \in 0..MaxFlushes
      BY Bounds DEF Init
    <2>5. \A i, j \in DOMAIN queue : queue[i].w = queue[j].w => i = j
      BY <2>1
    <2> QED BY <2>1, <2>2, <2>3, <2>4, <2>5 DEF Init, TypeOK, Status
  <1>2. Places
    BY DEF Init, Places, QueueApart, JobsApart, QueueWaits, JobsWait, DeliveredWasMade,
           NewIsNewest
  <1>3. DeliveredOnce
    BY DEF Init, DeliveredOnce
  <1>4. NewestIsHeld
    BY DEF Init, NewestIsHeld
  <1> QED BY <1>1, <1>2, <1>3, <1>4 DEF IInv

----------------------------------------------------------------------------
(* Lemmas about the operators of the model.                                *)

\* A list in which each worker comes once keeps that, and what is selected of it.
LEMMA OnlyOnce ==
  ASSUME NEW T, NEW q \in Seq(T), NEW I \in SUBSET (DOMAIN q),
         \A i, l \in DOMAIN q : q[i].w = q[l].w => i = l
  PROVE  /\ Only(q, I) \in Seq(T) /\ Len(Only(q, I)) <= Len(q)
         /\ \A k, l \in DOMAIN Only(q, I) : Only(q, I)[k].w = Only(q, I)[l].w => k = l
         /\ \A k \in DOMAIN Only(q, I) : \E i \in I : Only(q, I)[k] = q[i]
         /\ \A i \in I : \E k \in DOMAIN Only(q, I) : Only(q, I)[k] = q[i]
  <1> DEFINE r == Only(q, I)
  <1>1. /\ r \in Seq(T) /\ Len(r) <= Len(q)
        /\ \A k \in DOMAIN r : Nth(I, k) \in I /\ r[k] = q[Nth(I, k)]
        /\ \A k, l \in DOMAIN r : Nth(I, k) = Nth(I, l) => k = l
        /\ \A i \in I : \E k \in DOMAIN r : r[k] = q[i]
    BY OnlyIs
  <1> HIDE DEF r
  <1>2. ASSUME NEW k \in DOMAIN r, NEW l \in DOMAIN r, r[k].w = r[l].w
        PROVE  k = l
    <2>1. /\ Nth(I, k) \in DOMAIN q /\ Nth(I, l) \in DOMAIN q
          /\ q[Nth(I, k)].w = q[Nth(I, l)].w
      BY <1>1, <1>2
    <2>2. Nth(I, k) = Nth(I, l)
      BY <2>1
    <2> QED BY <1>1, <2>2
  <1> QED BY <1>1, <1>2 DEF r

\* What has not expired is in the queue as it was.
LEMMA FreshIs ==
  ASSUME TypeOK
  PROVE  LET fresh == FreshIn(queue) IN
         /\ fresh \in Seq(Entry) /\ Len(fresh) <= MaxPending
         /\ \A k, l \in DOMAIN fresh : fresh[k].w = fresh[l].w => k = l
         /\ \A k \in DOMAIN fresh : \E i \in DOMAIN queue : fresh[k] = queue[i]
         /\ \A i \in DOMAIN queue :
               queue[i].w \in ExpiredOf(queue) \/ \E k \in DOMAIN fresh : fresh[k] = queue[i]
  <1> DEFINE I == {i \in DOMAIN queue : ~Expired(queue[i])}
             fresh == Only(queue, I)
  <1>1. /\ queue \in Seq(Entry) /\ I \in SUBSET (DOMAIN queue)
        /\ \A i, l \in DOMAIN queue : queue[i].w = queue[l].w => i = l
    BY DEF TypeOK
  <1>2. \A i \in DOMAIN queue : i \in I \/ queue[i].w \in ExpiredOf(queue)
    BY DEF ExpiredOf
  <1>3. fresh = FreshIn(queue)
    BY DEF FreshIn
  <1> HIDE DEF I
  <1>4. /\ fresh \in Seq(Entry) /\ Len(fresh) <= Len(queue)
        /\ \A k, l \in DOMAIN fresh : fresh[k].w = fresh[l].w => k = l
        /\ \A k \in DOMAIN fresh : \E i \in I : fresh[k] = queue[i]
        /\ \A i \in I : \E k \in DOMAIN fresh : fresh[k] = queue[i]
    BY <1>1, OnlyOnce
  <1>5. Len(fresh) <= MaxPending
    <2>1. Len(queue) <= MaxPending /\ Len(queue) \in Nat
      BY <1>1 DEF TypeOK
    <2>2. Len(fresh) \in Nat
      BY <1>4
    <2> QED BY <1>4, <2>1, <2>2, Bounds
  <1> HIDE DEF fresh
  <1>6. /\ \A k \in DOMAIN fresh : \E i \in DOMAIN queue : fresh[k] = queue[i]
        /\ \A i \in DOMAIN queue :
              queue[i].w \in ExpiredOf(queue) \/ \E k \in DOMAIN fresh : fresh[k] = queue[i]
    BY <1>1, <1>2, <1>4
  <1> QED BY <1>3, <1>4, <1>5, <1>6

----------------------------------------------------------------------------
(* A job moves: it goes on with its list, or with the rest of it.          *)

JobType == [todo : Seq(Entry) \ {<<>>}, pc : Pc]

LEMMA JobIs ==
  ASSUME TypeOK, NEW j \in jobs
  PROVE  /\ j \in JobType /\ j.pc \in Pc
         /\ j.todo \in Seq(Entry) /\ Len(j.todo) \in Nat /\ Len(j.todo) >= 1
         /\ DOMAIN j.todo = 1..Len(j.todo)
         /\ 1 \in DOMAIN j.todo /\ Head(j.todo) = j.todo[1] /\ Head(j.todo) \in Entry
         /\ \A l \in Live(j) : l \in DOMAIN j.todo /\ j.todo[l] \in Entry
         /\ j.pc # "recheck" => 1 \in Live(j)
  <1>1. j \in JobType
    BY DEF TypeOK, JobType, Pc
  <1>2. j.todo \in Seq(Entry) /\ j.todo # <<>> /\ j.pc \in Pc
    BY <1>1 DEF JobType
  <1> DEFINE t == j.todo
  <1>3. t \in Seq(Entry) /\ t # <<>>
    BY <1>2
  <1> HIDE DEF t
  <1>4. /\ Len(t) \in Nat /\ Len(t) >= 1 /\ DOMAIN t = 1..Len(t)
        /\ 1 \in DOMAIN t /\ Head(t) = t[1] /\ Head(t) \in Entry
        /\ \A l \in 1..Len(t) : t[l] \in Entry
    BY <1>3
  <1>5. Live(j) \subseteq 1..Len(t) /\ (j.pc # "recheck" => 1 \in Live(j))
    BY <1>4 DEF Live, t
  <1> QED BY <1>1, <1>2, <1>3, <1>4, <1>5 DEF t

\* n has the entries of j, or those behind the head.
Follows(n, j, d) == \A l \in Live(n) : l + d \in Live(j) /\ n.todo[l] = j.todo[l + d]

LEMMA MoveIs ==
  ASSUME JobsApart, NEW j \in jobs, NEW n, NEW d \in Nat, Follows(n, j, d),
         NEW N \in {{}, {n}}, jobs' = (jobs \ {j}) \cup N,
         \A l \in Live(n) : l \in Nat
  PROVE  /\ JobsApart'
         /\ \A m \in jobs' : \A l \in Live(m) :
               \/ m \in jobs /\ m # j
               \/ l + d \in Live(j) /\ m.todo[l] = j.todo[l + d]
  <1>1. \A m \in jobs' : (m \in jobs /\ m # j) \/ m = n
    OBVIOUS
  <1>2. ASSUME NEW m \in jobs', NEW o \in jobs', NEW l \in Live(m), NEW k \in Live(o),
               m # o \/ l # k
        PROVE  Apart(m.todo[l], o.todo[k])
    <2>1. CASE m \in jobs /\ o \in jobs
      BY <1>2, <2>1 DEF JobsApart
    <2>2. CASE m = n /\ o = n
      <3>1. /\ l + d \in Live(j) /\ m.todo[l] = j.todo[l + d]
            /\ k + d \in Live(j) /\ o.todo[k] = j.todo[k + d]
        BY <2>2 DEF Follows
      <3>2. l + d # k + d
        BY <1>2, <2>2
      <3> QED BY <3>1, <3>2 DEF JobsApart
    <2>3. CASE m = n /\ o \in jobs /\ o # j
      <3>1. l + d \in Live(j) /\ m.todo[l] = j.todo[l + d]
        BY <2>3 DEF Follows
      <3> QED BY <2>3, <3>1 DEF JobsApart
    <2>4. CASE o = n /\ m \in jobs /\ m # j
      <3>1. k + d \in Live(j) /\ o.todo[k] = j.todo[k + d]
        BY <2>4 DEF Follows
      <3> QED BY <2>4, <3>1 DEF JobsApart
    <2> QED BY <1>1, <2>1, <2>2, <2>3, <2>4
  <1>3. ASSUME NEW m \in jobs', NEW l \in Live(m)
        PROVE  \/ m \in jobs /\ m # j
               \/ l + d \in Live(j) /\ m.todo[l] = j.todo[l + d]
    BY <1>1 DEF Follows
  <1> QED BY <1>2, <1>3 DEF JobsApart

\* The entries behind the head of j wait in the jobs as before, the head does not.
HeadGone(j) ==
    /\ \A m \in jobs' : \A l \in Live(m) :
          \E o \in jobs : \E k \in Live(o) : (o # j \/ k # 1) /\ m.todo[l] = o.todo[k]
    /\ \A o \in jobs : \A k \in Live(o) : o # j \/ k # 1 =>
          \E m \in jobs' : \E l \in Live(m) : m.todo[l] = o.todo[k]

LEMMA DoneIs ==
  ASSUME TypeOK, JobsApart, NewIsNewest, NEW j \in jobs, Done(j), UNCHANGED issued
  PROVE  jobs' \subseteq JobType /\ JobsApart' /\ NewIsNewest' /\ HeadGone(j)
  <1> DEFINE t == j.todo
             n == [todo |-> Tail(t), pc |-> "read"]
             N == IF Len(t) = 1 THEN {} ELSE {n}
  <1>1. /\ t \in Seq(Entry) /\ Len(t) \in Nat /\ Len(t) >= 1 /\ DOMAIN t = 1..Len(t)
        /\ Live(j) = IF j.pc = "recheck" THEN 2..Len(t) ELSE 1..Len(t)
    BY JobIs DEF Live
  <1>2. jobs' = (jobs \ {j}) \cup N /\ N \in {{}, {n}}
    BY DEF Done
  <1>3. n.todo = Tail(t) /\ n.pc = "read"
    OBVIOUS
  <1> HIDE DEF n, t
  <1>4. /\ Tail(t) \in Seq(Entry) /\ Len(Tail(t)) = Len(t) - 1
        /\ DOMAIN Tail(t) = 1..Len(t) - 1
        /\ \A l \in 1..Len(t) - 1 : Tail(t)[l] = t[l + 1]
    <2>1. t # <<>>
      BY <1>1
    <2>2. Tail(t) \in Seq(Entry) /\ Len(Tail(t)) = Len(t) - 1
      BY <1>1, <2>1
    <2>3. \A l \in 1..Len(t) - 1 : Tail(t)[l] = t[l + 1]
      BY <1>1, <2>1
    <2>4. DOMAIN Tail(t) = 1..Len(t) - 1
      BY <2>2
    <2> QED BY <2>2, <2>3, <2>4
  <1>5. Live(n) = 1..Len(t) - 1
    BY <1>3, <1>4 DEF Live
  <1>6. Follows(n, j, 1)
    <2>1. ASSUME NEW l \in 1..Len(t) - 1
          PROVE  l + 1 \in Live(j) /\ n.todo[l] = j.todo[l + 1]
      <3>1. l + 1 \in 2..Len(t)
        BY <1>1
      <3>2. l + 1 \in Live(j)
        BY <1>1, <3>1
      <3> QED BY <1>3, <1>4, <3>2 DEF t
    <2> QED BY <1>5, <2>1 DEF Follows
  <1>7. /\ JobsApart'
        /\ \A m \in jobs' : \A l \in Live(m) :
              \/ m \in jobs /\ m # j
              \/ l + 1 \in Live(j) /\ m.todo[l] = j.todo[l + 1]
    <2>1. \A l \in Live(n) : l \in Nat
      BY <1>1, <1>5
    <2> HIDE DEF N
    <2> QED BY <1>2, <1>6, <2>1, MoveIs
  <1>8. N # {} => n \in JobType
    <2>1. SUFFICES ASSUME Len(t) # 1
                   PROVE  n \in JobType
      OBVIOUS
    <2>2. Len(Tail(t)) # 0
      BY <1>1, <1>4, <2>1
    <2>3. Tail(t) # <<>>
      <3>1. Len(<<>>) = 0
        OBVIOUS
      <3> QED BY <2>2, <3>1
    <2> QED BY <1>4, <2>3 DEF n, JobType, Pc
  <1>9. jobs' \subseteq JobType
    <2>1. jobs \subseteq JobType
      BY DEF TypeOK, JobType, Pc
    <2> QED BY <1>2, <1>8, <2>1
  <1>10. NewIsNewest'
    <2>1. ASSUME NEW m \in jobs', NEW l \in DOMAIN m.todo, m.todo[l].at = 0
          PROVE  l = 1 /\ m.todo[l].k = issued'[m.todo[l].w]
      <3>1. CASE m \in jobs
        BY <2>1, <3>1 DEF NewIsNewest
      <3>2. CASE m = n
        <4>1. l \in 1..Len(t) - 1 /\ j.todo[l + 1].at = 0
          BY <1>3, <1>4, <2>1, <3>2 DEF t
        <4>2. l + 1 \in DOMAIN j.todo
          BY <1>1, <4>1 DEF t
        <4>3. l + 1 = 1
          BY <4>1, <4>2 DEF NewIsNewest
        <4> QED BY <1>1, <4>1, <4>3
      <3> QED BY <1>2, <3>1, <3>2
    <2> QED BY <2>1 DEF NewIsNewest
  <1>11. HeadGone(j)
    <2>1. ASSUME NEW m \in jobs', NEW l \in Live(m)
          PROVE  \E o \in jobs : \E k \in Live(o) :
                    (o # j \/ k # 1) /\ m.todo[l] = o.todo[k]
      <3>1. CASE m \in jobs /\ m # j
        BY <3>1
      <3>2. CASE ~(m \in jobs /\ m # j)
        <4>1. m = n
          BY <1>2, <3>2
        <4>2. l + 1 \in Live(j) /\ m.todo[l] = j.todo[l + 1]
          BY <1>7, <3>2
        <4>3. l + 1 # 1
          BY <1>1, <1>5, <4>1
        <4> QED BY <4>2, <4>3
      <3> QED BY <3>1, <3>2
    <2>2. ASSUME NEW o \in jobs, NEW k \in Live(o), o # j \/ k # 1
          PROVE  \E m \in jobs' : \E l \in Live(m) : m.todo[l] = o.todo[k]
      <3>1. CASE o # j
        BY <1>2, <3>1
      <3>2. CASE o = j
        <4>1. k \in 2..Len(t)
          BY <1>1, <2>2, <3>2
        <4>2. k - 1 \in Live(n) /\ n.todo[k - 1] = j.todo[k]
          <5>1. k - 1 \in 1..Len(t) - 1 /\ k - 1 + 1 = k
            BY <1>1, <4>1
          <5> QED BY <1>3, <1>4, <1>5, <5>1 DEF t
        <4>3. n \in jobs'
          BY <1>1, <1>2, <4>1
        <4> QED BY <3>2, <4>2, <4>3
      <3> QED BY <3>1, <3>2
    <2> QED BY <2>1, <2>2 DEF HeadGone
  <1> QED BY <1>7, <1>9, <1>10, <1>11

\* Every entry waits in some job as before.
SameEntries ==
    /\ \A m \in jobs' : \A l \in Live(m) :
          \E o \in jobs : \E k \in Live(o) : m.todo[l] = o.todo[k]
    /\ \A o \in jobs : \A k \in Live(o) :
          \E m \in jobs' : \E l \in Live(m) : m.todo[l] = o.todo[k]

LEMMA GotoIs ==
  ASSUME TypeOK, JobsApart, NewIsNewest, NEW j \in jobs, j.pc # "recheck",
         NEW pc \in Pc, Goto(j, pc), UNCHANGED issued
  PROVE  /\ jobs' \subseteq JobType /\ JobsApart' /\ NewIsNewest'
         /\ pc # "recheck" => SameEntries
         /\ pc = "recheck" => HeadGone(j)
  <1> DEFINE n == [j EXCEPT !.pc = pc]
  <1>1. /\ j \in JobType /\ Len(j.todo) \in Nat
        /\ Live(j) = 1..Len(j.todo) /\ DOMAIN j.todo = 1..Len(j.todo)
    BY JobIs DEF Live
  <1>2. jobs' = (jobs \ {j}) \cup {n}
    BY DEF Goto
  <1>3. n \in JobType /\ n.todo = j.todo /\ n.pc = pc
    BY <1>1 DEF JobType
  <1> HIDE DEF n
  <1>4. Live(n) = IF pc = "recheck" THEN 2..Len(j.todo) ELSE 1..Len(j.todo)
    BY <1>3 DEF Live
  <1>5. Follows(n, j, 0) /\ \A l \in Live(n) : l \in Nat
    <2>1. \A l \in Live(n) : l \in Nat /\ l + 0 = l /\ l \in Live(j)
      BY <1>1, <1>4
    <2> QED BY <1>3, <2>1 DEF Follows
  <1>6. /\ JobsApart'
        /\ \A m \in jobs' : \A l \in Live(m) :
              \/ m \in jobs /\ m # j
              \/ l + 0 \in Live(j) /\ m.todo[l] = j.todo[l + 0]
    <2>1. {n} \in {{}, {n}} /\ 0 \in Nat
      OBVIOUS
    <2> QED BY <1>2, <1>5, <2>1, MoveIs
  <1>7. jobs' \subseteq JobType
    <2>1. jobs \subseteq JobType
      BY DEF TypeOK, JobType, Pc
    <2> QED BY <1>2, <1>3, <2>1
  <1>8. NewIsNewest'
    <2>1. \A m \in jobs' : m \in jobs \/ m.todo = j.todo
      BY <1>2, <1>3
    <2> QED BY <2>1 DEF NewIsNewest
  <1>9. ASSUME NEW m \in jobs', NEW l \in Live(m)
        PROVE  \/ m \in jobs /\ m # j
               \/ m = n /\ l \in Live(j) /\ m.todo[l] = j.todo[l]
    <2>1. CASE m \in jobs /\ m # j
      BY <2>1
    <2>2. CASE ~(m \in jobs /\ m # j)
      <3>1. m = n
        BY <1>2, <2>2
      <3>2. l \in Live(j)
        BY <1>1, <1>4, <3>1
      <3> QED BY <1>3, <3>1, <3>2
    <2> QED BY <2>1, <2>2
  <1>10. CASE pc # "recheck"
    <2>1. \A m \in jobs' : \A l \in Live(m) :
             \E o \in jobs : \E k \in Live(o) : m.todo[l] = o.todo[k]
      BY <1>9
    <2>2. ASSUME NEW o \in jobs, NEW k \in Live(o)
          PROVE  \E m \in jobs' : \E l \in Live(m) : m.todo[l] = o.todo[k]
      <3>1. CASE o # j
        BY <1>2, <3>1
      <3>2. CASE o = j
        <4>1. n \in jobs' /\ k \in Live(n) /\ n.todo[k] = o.todo[k]
          BY <1>1, <1>2, <1>3, <1>4, <1>10, <3>2
        <4> QED BY <4>1
      <3> QED BY <3>1, <3>2
    <2>3. SameEntries
      BY <2>1, <2>2 DEF SameEntries
    <2> QED BY <1>6, <1>7, <1>8, <1>10, <2>3
  <1>11. CASE pc = "recheck"
    <2>1. ASSUME NEW m \in jobs', NEW l \in Live(m)
          PROVE  \E o \in jobs : \E k \in Live(o) :
                    (o # j \/ k # 1) /\ m.todo[l] = o.todo[k]
      <3>1. CASE m \in jobs /\ m # j
        BY <3>1
      <3>2. CASE m = n
        <4>1. l \in Live(j) /\ m.todo[l] = j.todo[l]
          <5>1. l \in Live(j)
            BY <1>1, <1>4, <3>2
          <5> QED BY <1>3, <3>2, <5>1
        <4>2. l # 1
          BY <1>1, <1>4, <1>11, <3>2
        <4> QED BY <4>1, <4>2
      <3> QED BY <1>9, <3>1, <3>2
    <2>2. ASSUME NEW o \in jobs, NEW k \in Live(o), o # j \/ k # 1
          PROVE  \E m \in jobs' : \E l \in Live(m) : m.todo[l] = o.todo[k]
      <3>1. CASE o # j
        BY <1>2, <3>1
      <3>2. CASE o = j
        <4>1. n \in jobs' /\ k \in Live(n) /\ n.todo[k] = o.todo[k]
          BY <1>1, <1>2, <1>3, <1>4, <1>11, <2>2, <3>2
        <4> QED BY <4>1
      <3> QED BY <3>1, <3>2
    <2>3. HeadGone(j)
      BY <2>1, <2>2 DEF HeadGone
    <2> QED BY <1>6, <1>7, <1>8, <1>11, <2>3
  <1> QED BY <1>10, <1>11

----------------------------------------------------------------------------
(* Each action keeps the invariant.                                        *)

\* What moves no report.
LEMMA QuietKeeps ==
  ASSUME IInv, UNCHANGED <<issued, queue, jobs, clock, delivered, twice, told, untold>>,
         TypeOK'
  PROVE  IInv'
  <1>1. Places'
    BY DEF IInv, Places, QueueApart, JobsApart, QueueWaits, JobsWait, DeliveredWasMade,
           NewIsNewest, Waits
  <1>2. DeliveredOnce' /\ NewestIsHeld'
    BY DEF IInv, DeliveredOnce, NewestIsHeld, Held, Newest
  <1> QED BY <1>1, <1>2 DEF IInv

\* The queue is given up, and its workers are told.
LEMMA ClearKeeps ==
  ASSUME IInv, Clear, UNCHANGED <<issued, jobs, clock, delivered, twice, untold>>, TypeOK'
  PROVE  IInv'
  <1>1. queue' = <<>> /\ told' = told \cup WorkersOf(queue)
    BY DEF Clear
  <1>2. Places'
    BY <1>1
       DEF IInv, Places, QueueApart, JobsApart, QueueWaits, JobsWait, DeliveredWasMade,
           NewIsNewest, Waits
  <1>3. NewestIsHeld'
    <2> SUFFICES ASSUME NEW w \in Worker, issued[w] > 0
                 PROVE  Held(Newest(w))' \/ Newest(w)' \in delivered' \/ w \in told' \cup untold'
      BY DEF NewestIsHeld
    <2>1. Newest(w)' = Newest(w)
      BY DEF Newest
    <2>2. Held(Newest(w)) \/ Newest(w) \in delivered \/ w \in told \cup untold
      BY DEF IInv, NewestIsHeld
    <2>3. ASSUME NEW i \in DOMAIN queue, ReportOf(queue[i]) = Newest(w)
          PROVE  w \in told'
      <3>1. queue[i].w = w
        BY <2>3 DEF ReportOf, Newest
      <3> QED BY <1>1, <3>1 DEF WorkersOf
    <2> QED BY <1>1, <2>1, <2>2, <2>3 DEF Held
  <1>4. DeliveredOnce'
    BY DEF IInv, DeliveredOnce
  <1> QED BY <1>2, <1>3, <1>4 DEF IInv

\* Jobs move but keep their entries.
LEMMA GotoKeeps ==
  ASSUME IInv, NEW j \in jobs, j.pc # "recheck", NEW pc \in Pc, pc # "recheck", Goto(j, pc),
         UNCHANGED <<leader, edge, issued, queue, flushes, time, typed, told, faults, untold>>
  PROVE  IInv'
  <1>1. jobs' \subseteq JobType /\ JobsApart' /\ NewIsNewest' /\ SameEntries
    BY GotoIs DEF IInv, Places
  <1>2. UNCHANGED <<leader, edge, issued, queue, flushes, clock, horizon, delivered, twice,
                    told, faults, untold>>
    BY DEF time, typed
  <1>3. TypeOK'
    <2>1. Entry' = Entry
      BY <1>2 DEF Entry
    <2> QED BY <1>1, <1>2, <2>1 DEF IInv, TypeOK, JobType, Pc
  <1>4. QueueApart'
    BY <1>1, <1>2 DEF SameEntries, IInv, Places, QueueApart
  <1>5. JobsWait'
    BY <1>1, <1>2 DEF SameEntries, IInv, Places, JobsWait, Waits
  <1>6. QueueWaits' /\ DeliveredWasMade'
    BY <1>2 DEF IInv, Places, QueueWaits, DeliveredWasMade, Waits
  <1>7. DeliveredOnce'
    BY <1>2 DEF IInv, DeliveredOnce
  <1>8. NewestIsHeld'
    <2>1. \A r : Held(r) => Held(r)'
      BY <1>1, <1>2 DEF Held, SameEntries
    <2> QED BY <1>2, <2>1 DEF IInv, NewestIsHeld, Newest
  <1> QED BY <1>1, <1>3, <1>4, <1>5, <1>6, <1>7, <1>8 DEF IInv, Places

\* A job has done with its head, which was queued again or whose worker is told;
\* and the queue stays or is given up.
LEMMA DropKeeps ==
  ASSUME IInv, NEW j \in jobs, Done(j),
         UNCHANGED <<leader, edge, issued, clock, horizon, delivered, twice, untold>>,
         flushes' \in 0..MaxFlushes, faults' \in 0..MaxFaults,
         told \subseteq told', told' \subseteq Worker,
         j.pc = "recheck" \/ Head(j.todo).w \in told',
         queue' = queue \/ (queue' = <<>> /\ WorkersOf(queue) \subseteq told')
  PROVE  IInv'
  <1>1. jobs' \subseteq JobType /\ JobsApart' /\ NewIsNewest' /\ HeadGone(j)
    BY DoneIs DEF IInv, Places
  <1>2. TypeOK'
    <2>1. Entry' = Entry
      BY DEF Entry
    <2>2. /\ queue' \in Seq(Entry) /\ Len(queue') <= MaxPending
          /\ \A i, k \in DOMAIN queue' : queue'[i].w = queue'[k].w => i = k
      <3>1. CASE queue' = queue
        BY <3>1 DEF IInv, TypeOK
      <3>2. CASE queue' = <<>>
        <4>1. queue' \in Seq(Entry) /\ Len(queue') = 0 /\ DOMAIN queue' = 1..0
          BY <3>2
        <4> QED BY <4>1, Bounds
      <3> QED BY <3>1, <3>2
    <2> QED BY <1>1, <2>1, <2>2 DEF IInv, TypeOK, JobType, Pc
  <1>3. \A i \in DOMAIN queue' : i \in DOMAIN queue /\ queue'[i] = queue[i]
    OBVIOUS
  <1>4. QueueApart'
    BY <1>1, <1>3 DEF HeadGone, IInv, Places, QueueApart
  <1>5. JobsWait'
    BY <1>1 DEF HeadGone, IInv, Places, JobsWait, Waits
  <1>6. QueueWaits'
    BY <1>3 DEF IInv, Places, QueueWaits, Waits
  <1>7. DeliveredWasMade' /\ DeliveredOnce'
    BY DEF IInv, Places, DeliveredWasMade, DeliveredOnce
  <1>8. NewestIsHeld'
    <2> SUFFICES ASSUME NEW w \in Worker, issued[w] > 0
                 PROVE  Held(Newest(w))' \/ Newest(w)' \in delivered' \/ w \in told' \cup untold'
      BY DEF NewestIsHeld
    <2>1. Newest(w)' = Newest(w)
      BY DEF Newest
    <2>2. Held(Newest(w)) \/ Newest(w) \in delivered \/ w \in told \cup untold
      BY DEF IInv, NewestIsHeld
    <2>3. ASSUME NEW i \in DOMAIN queue, ReportOf(queue[i]) = Newest(w)
          PROVE  Held(Newest(w))' \/ w \in told'
      <3>1. queue[i].w = w
        BY <2>3 DEF ReportOf, Newest
      <3>2. CASE queue' = queue
        BY <2>1, <2>3, <3>2 DEF Held
      <3>3. CASE WorkersOf(queue) \subseteq told'
        BY <3>1, <3>3 DEF WorkersOf
      <3> QED BY <3>2, <3>3
    <2>4. ASSUME NEW o \in jobs, NEW k \in Live(o), ReportOf(o.todo[k]) = Newest(w)
          PROVE  Held(Newest(w))' \/ w \in told'
      <3>1. CASE o # j \/ k # 1
        <4>1. \E m \in jobs' : \E l \in Live(m) : m.todo[l] = o.todo[k]
          BY <1>1, <3>1 DEF HeadGone
        <4> QED BY <2>1, <2>4, <4>1 DEF Held
      <3>2. CASE o = j /\ k = 1
        <4>1. j.pc # "recheck"
          <5>1. ASSUME j.pc = "recheck"
                PROVE  FALSE
            <6>1. 1 \in 2..Len(j.todo)
              BY <2>4, <3>2, <5>1 DEF Live
            <6>2. Len(j.todo) \in Nat
              BY JobIs DEF IInv
            <6> QED BY <6>1, <6>2
          <5> QED BY <5>1
        <4>2. Head(j.todo) = j.todo[1]
          BY JobIs DEF IInv
        <4>3. Head(j.todo).w = w
          BY <2>4, <3>2, <4>2 DEF ReportOf, Newest
        <4> QED BY <4>1, <4>3
      <3> QED BY <3>1, <3>2
    <2> QED BY <2>1, <2>2, <2>3, <2>4 DEF Held
  <1> QED BY <1>1, <1>2, <1>4, <1>5, <1>6, <1>7, <1>8 DEF IInv, Places

\* The head of j, which waits nowhere else.
LEMMA HeadIs ==
  ASSUME IInv, NEW j \in jobs, j.pc # "recheck"
  PROVE  LET e == Head(j.todo) IN
         /\ e \in Entry /\ Waits(e) /\ (e.at = 0 => e.k = issued[e.w])
         /\ \A i \in DOMAIN queue : Apart(queue[i], e)
         /\ \A o \in jobs : \A k \in Live(o) :
               o # j \/ k # 1 => Apart(e, o.todo[k]) /\ Apart(o.todo[k], e)
  <1> DEFINE e == Head(j.todo)
  <1>1. e = j.todo[1] /\ 1 \in Live(j) /\ 1 \in DOMAIN j.todo /\ e \in Entry
    BY JobIs DEF IInv
  <1> HIDE DEF e
  <1>2. Waits(e)
    BY <1>1 DEF IInv, Places, JobsWait
  <1>3. e.at = 0 => e.k = issued[e.w]
    BY <1>1 DEF IInv, Places, NewIsNewest
  <1>4. \A i \in DOMAIN queue : Apart(queue[i], e)
    BY <1>1 DEF IInv, Places, QueueApart
  <1>5. ASSUME NEW o \in jobs, NEW k \in Live(o), o # j \/ k # 1
        PROVE  Apart(e, o.todo[k]) /\ Apart(o.todo[k], e)
    BY <1>1, <1>5 DEF IInv, Places, JobsApart
  <1> QED BY <1>1, <1>2, <1>3, <1>4, <1>5 DEF e

\* The entry that waits for Newest(w) when j has done with its head.
LEMMA HeldBehind ==
  ASSUME IInv, NEW j \in jobs, HeadGone(j), NEW o \in jobs, NEW k \in Live(o),
         NEW r, ReportOf(o.todo[k]) = r
  PROVE  \/ \E m \in jobs' : \E l \in Live(m) : ReportOf(m.todo[l]) = r
         \/ r = ReportOf(Head(j.todo))
  <1>1. Head(j.todo) = j.todo[1]
    BY JobIs DEF IInv
  <1>2. CASE o # j \/ k # 1
    BY <1>2 DEF HeadGone
  <1>3. CASE o = j /\ k = 1
    BY <1>1, <1>3
  <1> QED BY <1>2, <1>3

LEMMA SubmitKeeps ==
  ASSUME IInv, NEW j \in jobs, Submit(j)
  PROVE  IInv'
  <1> DEFINE e == Head(j.todo)
             r == ReportOf(e)
  <1>1. /\ j.pc = "submit" /\ Done(j)
        /\ delivered' = delivered \cup {r} /\ twice' = twice \cup ({r} \cap delivered)
        /\ UNCHANGED <<leader, edge, issued, queue, flushes, clock, horizon, told, faults,
                       untold>>
    BY DEF Submit, time
  <1>2. jobs' \subseteq JobType /\ JobsApart' /\ NewIsNewest' /\ HeadGone(j)
    BY <1>1, DoneIs DEF IInv, Places
  <1>3. /\ e \in Entry /\ Waits(e)
        /\ \A i \in DOMAIN queue : Apart(queue[i], e)
        /\ \A o \in jobs : \A k \in Live(o) : o # j \/ k # 1 => Apart(e, o.todo[k])
    BY <1>1, HeadIs
  <1> HIDE DEF e
  <1>4. r \in Report /\ r.k <= issued[r.w] /\ r \notin delivered
    BY <1>3 DEF Entry, Report, ReportOf, Waits
  <1>5. TypeOK'
    <2>1. Entry' = Entry
      BY <1>1 DEF Entry
    <2>2. delivered' \subseteq Report /\ twice' \subseteq delivered'
      BY <1>1, <1>4 DEF IInv, TypeOK
    <2> QED BY <1>1, <1>2, <2>1, <2>2 DEF IInv, TypeOK, JobType, Pc
  <1>6. DeliveredOnce'
    BY <1>1, <1>4 DEF IInv, DeliveredOnce
  <1>7. DeliveredWasMade'
    BY <1>1, <1>4 DEF IInv, Places, DeliveredWasMade
  <1>8. QueueApart'
    BY <1>1, <1>2 DEF HeadGone, IInv, Places, QueueApart
  <1>9. QueueWaits'
    BY <1>1, <1>3 DEF IInv, Places, QueueWaits, Waits, Apart
  <1>10. JobsWait'
    <2>1. ASSUME NEW m \in jobs', NEW l \in Live(m)
          PROVE  Waits(m.todo[l])'
      <3>1. PICK o \in jobs : \E k \in Live(o) : (o # j \/ k # 1) /\ m.todo[l] = o.todo[k]
        BY <1>2 DEF HeadGone
      <3>2. PICK k \in Live(o) : (o # j \/ k # 1) /\ m.todo[l] = o.todo[k]
        BY <3>1
      <3>3. Waits(o.todo[k]) /\ ReportOf(o.todo[k]) # r
        BY <1>3, <3>2 DEF IInv, Places, JobsWait, Apart
      <3> QED BY <1>1, <3>2, <3>3 DEF Waits
    <2> QED BY <2>1 DEF JobsWait
  <1>11. NewestIsHeld'
    <2> SUFFICES ASSUME NEW w \in Worker, issued[w] > 0
                 PROVE  Held(Newest(w))' \/ Newest(w)' \in delivered' \/ w \in told' \cup untold'
      BY <1>1 DEF NewestIsHeld
    <2>1. Newest(w)' = Newest(w)
      BY <1>1 DEF Newest
    <2>2. Held(Newest(w)) \/ Newest(w) \in delivered \/ w \in told \cup untold
      BY DEF IInv, NewestIsHeld
    <2>3. ASSUME NEW o \in jobs, NEW k \in Live(o), ReportOf(o.todo[k]) = Newest(w)
          PROVE  Held(Newest(w))' \/ Newest(w) \in delivered'
      BY <1>1, <1>2, <2>1, <2>3, HeldBehind DEF Held, e
    <2> QED BY <1>1, <2>1, <2>2, <2>3 DEF Held
  <1> QED BY <1>2, <1>5, <1>6, <1>7, <1>8, <1>9, <1>10, <1>11 DEF IInv, Places

\* There is room for one more report of a worker.
LEMMA MadeBound ==
  ASSUME TypeOK, NEW w \in Worker, Cardinality(Made) < MaxReports
  PROVE  issued[w] + 1 \in 1..MaxReports
  <1> DEFINE K == 1..MaxReports
             P == Worker \X K
             g == [p \in P |-> [w |-> p[1], k |-> p[2]]]
  <1>1. IsFiniteSet(K) /\ Cardinality(K) = MaxReports
    <2>1. Cardinality(K) = IF 1 > MaxReports THEN 0 ELSE MaxReports - 1 + 1
      BY Bounds, FS_Interval
    <2> QED BY <2>1, Bounds, FS_Interval
  <1>2. IsFiniteSet(P)
    BY <1>1, Bounds, FS_Product
  <1>3. g \in Surjection(P, Report)
    <2>1. g \in [P -> Report]
      BY DEF Report
    <2>2. \A r \in Report : \E p \in P : g[p] = r
      <3>1. ASSUME NEW r \in Report
            PROVE  \E p \in P : g[p] = r
        <4>1. <<r.w, r.k>> \in P /\ g[<<r.w, r.k>>] = r
          BY DEF Report
        <4> QED BY <4>1
      <3> QED BY <3>1
    <2> QED BY <2>1, <2>2 DEF Surjection
  <1>4. IsFiniteSet(Report)
    BY <1>2, <1>3, FS_Surjection
  <1>5. IsFiniteSet(Made) /\ Cardinality(Made) \in Nat
    <2>1. Made \in SUBSET Report
      BY DEF Made
    <2> QED BY <1>4, <2>1, FS_Subset, FS_CardinalityType
  <1>6. issued[w] \in 0..MaxReports
    BY DEF TypeOK
  <1>7. ASSUME issued[w] = MaxReports
        PROVE  FALSE
    <2> DEFINE f == [k \in K |-> [w |-> w, k |-> k]]
    <2>1. f \in [K -> Made]
      BY <1>7, Bounds DEF Made, Report
    <2>2. \A k, l \in K : f[k] = f[l] => k = l
      <3>1. \A k \in K : f[k].k = k
        OBVIOUS
      <3> QED BY <3>1
    <2>3. f \in Injection(K, Made)
      BY <2>1, <2>2, Zenon DEF Injection, IsInjective
    <2>4. Cardinality(K) <= Cardinality(Made)
      BY <1>5, <2>3, FS_Injection
    <2> QED BY <1>1, <1>5, <2>4, Bounds
  <1> QED BY <1>6, <1>7, Bounds

LEMMA SendReportKeeps ==
  ASSUME IInv, NEW w \in Worker, SendReport(w)
  PROVE  IInv'
  <1> DEFINE e == [w |-> w, k |-> issued[w] + 1, at |-> 0]
             n == [todo |-> <<e>>, pc |-> "read"]
  <1>1. /\ issued' = [issued EXCEPT ![w] = issued[w] + 1]
        /\ \A j \in jobs : ~(Head(j.todo).w = w /\ Head(j.todo).at = 0)
        /\ UNCHANGED <<leader, edge, queue, flushes, clock, horizon, delivered, twice, told,
                       faults, untold>>
    BY DEF SendReport, time, typed
  <1>2. issued \in [Worker -> 0..MaxReports] /\ issued[w] \in Nat
    BY DEF IInv, TypeOK
  <1>3. jobs' = jobs \cup {n}
    <2>1. issued'[w] = issued[w] + 1
      BY <1>1, <1>2
    <2> QED BY <2>1 DEF SendReport
  <1>4. issued[w] + 1 \in 1..MaxReports
    BY MadeBound DEF SendReport, IInv
  <1>5. /\ issued' \in [Worker -> 0..MaxReports] /\ issued'[w] = issued[w] + 1
        /\ \A v \in Worker : issued[v] \in Nat /\ issued'[v] \in Nat /\ issued[v] <= issued'[v]
        /\ \A v \in Worker : v # w => issued'[v] = issued[v]
    BY <1>1, <1>2, <1>4, Bounds
  <1>6. /\ e \in Entry /\ e.w = w /\ e.k = issued[w] + 1 /\ e.at = 0
    BY <1>4 DEF Entry, IInv, TypeOK
  <1> HIDE DEF e
  <1>7. n \in JobType /\ n.todo = <<e>> /\ n.pc = "read"
    BY <1>6 DEF JobType, Pc
  <1> HIDE DEF n
  <1>8. Live(n) = {1} /\ DOMAIN n.todo = {1} /\ n.todo[1] = e
    BY <1>7 DEF Live
  <1>9. TypeOK'
    <2>1. Entry' = Entry
      BY <1>1 DEF Entry
    <2>2. jobs' \subseteq JobType
      BY <1>3, <1>7 DEF IInv, TypeOK, JobType, Pc
    <2> QED BY <1>1, <1>5, <2>1, <2>2 DEF IInv, TypeOK, JobType, Pc
  <1>10. ASSUME NEW x \in Entry, Waits(x)
         PROVE  /\ x.k <= issued'[x.w] /\ ReportOf(x) \notin delivered
                /\ Apart(e, x) /\ Apart(x, e)
    <2>1. x.w \in Worker /\ x.k \in Nat /\ x.k <= issued[x.w] /\ ReportOf(x) \notin delivered
      BY <1>10 DEF Entry, Waits
    <2>2. x.k <= issued'[x.w]
      BY <1>5, <2>1
    <2>3. ~(x.w = w /\ x.k = issued[w] + 1)
      BY <1>2, <2>1
    <2>4. ReportOf(x) # ReportOf(e)
      BY <1>6, <2>3 DEF ReportOf
    <2>5. Ordered(e, x) /\ Ordered(x, e)
      BY <1>6 DEF Ordered
    <2> QED BY <1>1, <2>1, <2>2, <2>4, <2>5 DEF Waits, Apart
  <1>11. \A i \in DOMAIN queue : queue[i] \in Entry /\ Waits(queue[i])
    BY DEF IInv, TypeOK, Places, QueueWaits
  <1>12. \A j \in jobs : \A l \in Live(j) : j.todo[l] \in Entry /\ Waits(j.todo[l])
    BY JobIs DEF IInv, Places, JobsWait
  <1>13. QueueApart'
    <2>1. ASSUME NEW i \in DOMAIN queue, NEW j \in jobs', NEW l \in Live(j)
          PROVE  Apart(queue[i], j.todo[l])
      <3>1. CASE j \in jobs
        BY <3>1 DEF IInv, Places, QueueApart
      <3>2. CASE j = n
        BY <1>8, <1>10, <1>11, <3>2
      <3> QED BY <1>3, <3>1, <3>2
    <2> QED BY <1>1, <2>1 DEF QueueApart
  <1>14. JobsApart'
    <2>1. ASSUME NEW j \in jobs', NEW m \in jobs', NEW l \in Live(j), NEW k \in Live(m),
                 j # m \/ l # k
          PROVE  Apart(j.todo[l], m.todo[k])
      <3>1. CASE j \in jobs /\ m \in jobs
        BY <2>1, <3>1 DEF IInv, Places, JobsApart
      <3>2. CASE j = n /\ m = n
        BY <1>8, <2>1, <3>2
      <3>3. CASE j = n /\ m \in jobs
        BY <1>8, <1>10, <1>12, <3>3
      <3>4. CASE j \in jobs /\ m = n
        BY <1>8, <1>10, <1>12, <3>4
      <3> QED BY <1>3, <3>1, <3>2, <3>3, <3>4
    <2> QED BY <2>1 DEF JobsApart
  <1>15. QueueWaits'
    <2>1. ASSUME NEW i \in DOMAIN queue
          PROVE  /\ queue[i].at > 0 /\ queue[i].k <= issued'[queue[i].w]
                 /\ ReportOf(queue[i]) \notin delivered
      BY <1>10, <1>11 DEF IInv, Places, QueueWaits
    <2> QED BY <1>1, <2>1 DEF QueueWaits, Waits
  <1>16. DeliveredWasMade'
    <2>1. \A r \in delivered : r.w \in Worker /\ r.k \in Nat
      BY DEF IInv, TypeOK, Report
    <2> QED BY <1>1, <1>5, <2>1 DEF IInv, Places, DeliveredWasMade
  <1>17. JobsWait'
    <2>1. e.k <= issued'[e.w] /\ ReportOf(e) \notin delivered
      <3>1. ReportOf(e) \notin delivered
        <4>1. ReportOf(e).w = w /\ ReportOf(e).k = issued[w] + 1
          BY <1>6 DEF ReportOf
        <4>2. ~(issued[w] + 1 <= issued[w])
          BY <1>2
        <4> QED BY <4>1, <4>2 DEF IInv, Places, DeliveredWasMade
      <3>2. e.k <= issued'[e.w]
        BY <1>2, <1>5, <1>6
      <3> QED BY <3>1, <3>2
    <2>2. ASSUME NEW j \in jobs', NEW l \in Live(j)
          PROVE  j.todo[l].k <= issued'[j.todo[l].w] /\ ReportOf(j.todo[l]) \notin delivered
      <3>1. CASE j \in jobs
        BY <1>10, <1>12, <3>1
      <3>2. CASE j = n
        BY <1>8, <2>1, <3>2
      <3> QED BY <1>3, <3>1, <3>2
    <2> QED BY <1>1, <2>2 DEF JobsWait, Waits
  <1>18. NewIsNewest'
    <2>1. ASSUME NEW j \in jobs', NEW l \in DOMAIN j.todo, j.todo[l].at = 0
          PROVE  l = 1 /\ j.todo[l].k = issued'[j.todo[l].w]
      <3>1. CASE j \in jobs
        <4>1. l = 1 /\ j.todo[l].k = issued[j.todo[l].w]
          BY <2>1, <3>1 DEF IInv, Places, NewIsNewest
        <4>2. Head(j.todo) = j.todo[1] /\ Head(j.todo) \in Entry
          BY <3>1, JobIs DEF IInv
        <4>3. j.todo[l].w \in Worker /\ j.todo[l].w # w
          BY <1>1, <2>1, <3>1, <4>1, <4>2 DEF Entry
        <4> QED BY <1>5, <4>1, <4>3
      <3>2. CASE j = n
        BY <1>5, <1>6, <1>8, <3>2
      <3> QED BY <1>3, <3>1, <3>2
    <2> QED BY <2>1 DEF NewIsNewest
  <1>19. NewestIsHeld'
    <2>1. ASSUME NEW v \in Worker, issued'[v] > 0
          PROVE  Held(Newest(v))' \/ Newest(v)' \in delivered' \/ v \in told' \cup untold'
      <3>1. CASE v = w
        <4>1. ReportOf(e) = Newest(v)'
          BY <1>5, <1>6, <3>1 DEF ReportOf, Newest
        <4>2. n \in jobs' /\ 1 \in Live(n) /\ n.todo[1] = e
          BY <1>3, <1>8
        <4> QED BY <4>1, <4>2 DEF Held
      <3>2. CASE v # w
        <4>1. Newest(v)' = Newest(v) /\ issued[v] > 0
          BY <1>5, <2>1, <3>2 DEF Newest
        <4>2. Held(Newest(v)) => Held(Newest(v))'
          BY <1>1, <1>3, <4>1 DEF Held
        <4>3. Held(Newest(v)) \/ Newest(v) \in delivered \/ v \in told \cup untold
          BY <4>1 DEF IInv, NewestIsHeld
        <4> QED BY <1>1, <4>1, <4>2, <4>3
      <3> QED BY <3>1, <3>2
    <2> QED BY <2>1 DEF NewestIsHeld
  <1>20. DeliveredOnce'
    BY <1>1 DEF IInv, DeliveredOnce
  <1> QED BY <1>9, <1>13, <1>14, <1>15, <1>16, <1>17, <1>18, <1>19, <1>20 DEF IInv, Places

LEMMA ExpiredAreWorkers ==
  ASSUME TypeOK
  PROVE  ExpiredOf(queue) \subseteq Worker /\ WorkersOf(queue) \subseteq Worker
  <1>1. \A i \in DOMAIN queue : queue[i] \in Entry
    BY DEF TypeOK
  <1> QED BY <1>1 DEF ExpiredOf, WorkersOf, Entry

LEMMA FlushKeeps ==
  ASSUME IInv, FlushTakes
  PROVE  IInv'
  <1> DEFINE fresh == FreshIn(queue)
             n == [todo |-> fresh, pc |-> "read"]
             N == IF fresh = <<>> THEN {} ELSE {n}
  <1>1. /\ flushes' \in 0..MaxFlushes /\ queue' = <<>>
        /\ told' = told \cup ExpiredOf(queue) /\ jobs' = jobs \cup N
        /\ UNCHANGED <<leader, edge, issued, clock, horizon, delivered, twice, faults, untold>>
    BY Bounds DEF FlushTakes, time, typed, IInv, TypeOK
  <1>2. /\ fresh \in Seq(Entry)
        /\ \A k, l \in DOMAIN fresh : fresh[k].w = fresh[l].w => k = l
        /\ \A k \in DOMAIN fresh : \E i \in DOMAIN queue : fresh[k] = queue[i]
        /\ \A i \in DOMAIN queue :
              queue[i].w \in ExpiredOf(queue) \/ \E k \in DOMAIN fresh : fresh[k] = queue[i]
    BY FreshIs DEF IInv
  <1>3. /\ DOMAIN fresh = 1..Len(fresh) /\ Len(fresh) \in Nat
        /\ fresh # <<>> => n \in JobType
    BY <1>2 DEF JobType, Pc
  <1>4. n.todo = fresh /\ Live(n) = DOMAIN fresh
    BY <1>3 DEF Live
  <1>5. \A j \in jobs' : j \in jobs \/ j = n
    BY <1>1
  <1>6. fresh # <<>> => n \in jobs'
    BY <1>1
  <1> HIDE DEF N, n, fresh
  <1>7. TypeOK'
    <2>1. Entry' = Entry
      BY <1>1 DEF Entry
    <2>2. jobs' \subseteq JobType
      BY <1>1, <1>3 DEF IInv, TypeOK, JobType, Pc, N
    <2>3. queue' \in Seq(Entry) /\ Len(queue') <= MaxPending /\ DOMAIN queue' = {}
      BY <1>1, Bounds
    <2>4. told' \subseteq Worker
      BY <1>1, ExpiredAreWorkers DEF IInv, TypeOK
    <2> QED BY <1>1, <2>1, <2>2, <2>3, <2>4 DEF IInv, TypeOK, JobType, Pc
  <1>8. QueueApart' /\ QueueWaits'
    BY <1>1 DEF QueueApart, QueueWaits
  <1>9. JobsApart'
    <2>1. ASSUME NEW j \in jobs', NEW m \in jobs', NEW l \in Live(j), NEW k \in Live(m),
                 j # m \/ l # k
          PROVE  Apart(j.todo[l], m.todo[k])
      <3>1. CASE j \in jobs /\ m \in jobs
        BY <2>1, <3>1 DEF IInv, Places, JobsApart
      <3>2. CASE j = n /\ m = n
        <4>1. fresh[l].w # fresh[k].w
          BY <1>2, <1>4, <2>1, <3>2
        <4> QED BY <1>4, <3>2, <4>1 DEF Apart, Ordered, ReportOf
      <3>3. CASE j = n /\ m \in jobs
        <4>1. \E i \in DOMAIN queue : j.todo[l] = queue[i]
          BY <1>2, <1>4, <3>3
        <4> QED BY <3>3, <4>1 DEF IInv, Places, QueueApart
      <3>4. CASE j \in jobs /\ m = n
        <4>1. \E i \in DOMAIN queue : m.todo[k] = queue[i]
          BY <1>2, <1>4, <3>4
        <4> QED BY <3>4, <4>1 DEF IInv, Places, QueueApart, Apart
      <3> QED BY <1>5, <3>1, <3>2, <3>3, <3>4
    <2> QED BY <2>1 DEF JobsApart
  <1>10. JobsWait' /\ DeliveredWasMade'
    <2>1. ASSUME NEW j \in jobs', NEW l \in Live(j)
          PROVE  Waits(j.todo[l])
      <3>1. CASE j \in jobs
        BY <3>1 DEF IInv, Places, JobsWait
      <3>2. CASE j = n
        BY <1>2, <1>4, <3>2 DEF IInv, Places, QueueWaits
      <3> QED BY <1>5, <3>1, <3>2
    <2> QED BY <1>1, <2>1 DEF JobsWait, Waits, DeliveredWasMade, IInv, Places
  <1>11. NewIsNewest'
    <2>1. ASSUME NEW j \in jobs', NEW l \in DOMAIN j.todo, j.todo[l].at = 0
          PROVE  l = 1 /\ j.todo[l].k = issued[j.todo[l].w]
      <3>1. CASE j \in jobs
        BY <2>1, <3>1 DEF IInv, Places, NewIsNewest
      <3>2. CASE j = n
        <4>1. \E i \in DOMAIN queue : j.todo[l] = queue[i]
          BY <1>2, <1>4, <3>2
        <4>2. ~(0 > 0)
          OBVIOUS
        <4> QED BY <2>1, <4>1, <4>2 DEF IInv, Places, QueueWaits
      <3> QED BY <1>5, <3>1, <3>2
    <2> QED BY <1>1, <2>1 DEF NewIsNewest
  <1>12. DeliveredOnce'
    BY <1>1 DEF IInv, DeliveredOnce
  <1>13. NewestIsHeld'
    <2> SUFFICES ASSUME NEW w \in Worker, issued[w] > 0
                 PROVE  Held(Newest(w))' \/ Newest(w)' \in delivered' \/ w \in told' \cup untold'
      BY <1>1 DEF NewestIsHeld
    <2>1. Newest(w)' = Newest(w)
      BY <1>1 DEF Newest
    <2>2. Held(Newest(w)) \/ Newest(w) \in delivered \/ w \in told \cup untold
      BY DEF IInv, NewestIsHeld
    <2>3. ASSUME NEW i \in DOMAIN queue, ReportOf(queue[i]) = Newest(w)
          PROVE  Held(Newest(w))' \/ w \in told'
      <3>1. queue[i].w = w
        BY <2>3 DEF ReportOf, Newest
      <3>2. CASE queue[i].w \in ExpiredOf(queue)
        BY <1>1, <3>1, <3>2
      <3>3. ASSUME NEW k \in DOMAIN fresh, fresh[k] = queue[i]
            PROVE  Held(Newest(w))'
        <4>1. n \in jobs' /\ k \in Live(n) /\ n.todo[k] = queue[i]
          BY <1>2, <1>3, <1>4, <1>6, <3>3
        <4> QED BY <2>1, <2>3, <4>1 DEF Held
      <3> QED BY <1>2, <3>2, <3>3
    <2>4. ASSUME NEW j \in jobs, NEW l \in Live(j), ReportOf(j.todo[l]) = Newest(w)
          PROVE  Held(Newest(w))'
      BY <1>1, <2>1, <2>4 DEF Held
    <2> QED BY <1>1, <2>1, <2>2, <2>3, <2>4 DEF Held
  <1> QED BY <1>7, <1>8, <1>9, <1>10, <1>11, <1>12, <1>13 DEF IInv, Places

\* Behind the entries of other workers comes e; if that is too many, the oldest goes.
All(q, e) == Append(Only(q, {i \in DOMAIN q : q[i].w # e.w}), e)
Out(q, e) == SubSeq(All(q, e), 1, Overflow(All(q, e)))
Pushed(q, e) == SubSeq(All(q, e), Len(Out(q, e)) + 1, Len(All(q, e)))

PushedIs(T, q, e) ==
    LET out == Out(q, e)
        r == Pushed(q, e)
    IN
    /\ r \in Seq(T) /\ Len(r) <= MaxPending
    /\ \A k, l \in DOMAIN r : r[k].w = r[l].w => k = l
    /\ \A k \in DOMAIN r : r[k] = e \/ \E i \in DOMAIN q : r[k] = q[i]
    /\ \A i \in DOMAIN q :
          \/ q[i].w = e.w \/ q[i].w \in WorkersOf(out)
          \/ \E k \in DOMAIN r : r[k] = q[i]
    /\ \E k \in DOMAIN r : r[k] = e
    /\ \A w \in WorkersOf(out) : \E x \in T : x.w = w

Once(q) == \A i, l \in DOMAIN q : q[i].w = q[l].w => i = l

LEMMA PushIs ==
  ASSUME NEW T, NEW q \in Seq(T), NEW e \in T, Len(q) <= MaxPending, Once(q)
  PROVE  PushedIs(T, q, e)
  <1> DEFINE I == {i \in DOMAIN q : q[i].w # e.w}
             others == Only(q, I)
             all == Append(others, e)
             n == Len(others)
             d == Overflow(all)
             out == SubSeq(all, 1, d)
             r == SubSeq(all, Len(out) + 1, Len(all))
  <1>1. /\ others \in Seq(T) /\ n <= Len(q) /\ n \in Nat
        /\ \A k, l \in DOMAIN others : others[k].w = others[l].w => k = l
        /\ \A k \in DOMAIN others : \E i \in DOMAIN q : q[i].w # e.w /\ others[k] = q[i]
        /\ \A i \in DOMAIN q : q[i].w = e.w \/ \E k \in DOMAIN others : others[k] = q[i]
    <2>1. I \in SUBSET (DOMAIN q) /\ \A i \in DOMAIN q : i \in I <=> q[i].w # e.w
      OBVIOUS
    <2> HIDE DEF I
    <2>2. /\ others \in Seq(T) /\ Len(others) <= Len(q)
          /\ \A k, l \in DOMAIN others : others[k].w = others[l].w => k = l
          /\ \A k \in DOMAIN others : \E i \in I : others[k] = q[i]
          /\ \A i \in I : \E k \in DOMAIN others : others[k] = q[i]
      BY <2>1, OnlyOnce DEF Once
    <2> HIDE DEF others
    <2>3. n \in Nat
      BY <2>2
    <2> QED BY <2>1, <2>2, <2>3
  <1> HIDE DEF I, others
  <1>2. DOMAIN others = 1..n
    BY <1>1
  <1>3. /\ all \in Seq(T) /\ Len(all) = n + 1 /\ DOMAIN all = 1..n + 1
        /\ \A k \in 1..n : all[k] = others[k]
        /\ all[n + 1] = e
    BY <1>1
  <1> HIDE DEF all, n
  <1>4. n + 1 <= MaxPending + 1 /\ n \in Nat
    <2>1. Len(q) \in Nat
      OBVIOUS
    <2> QED BY <1>1, <2>1, Bounds
  <1>5. d \in 0..1 /\ d <= n /\ n + 1 - d <= MaxPending
    BY <1>3, <1>4, Bounds DEF Overflow
  <1> HIDE DEF d
  <1>6. /\ out \in Seq(T) /\ Len(out) = d /\ DOMAIN out = 1..d
        /\ \A k \in 1..d : out[k] = all[k]
    BY <1>3, <1>4, <1>5
  <1> HIDE DEF out
  <1>7. /\ r \in Seq(T) /\ Len(r) = n + 1 - d /\ DOMAIN r = 1..n + 1 - d
        /\ \A k \in 1..n + 1 - d : r[k] = all[k + d]
    BY <1>3, <1>4, <1>5, <1>6
  <1> HIDE DEF r
  <1>8. \A k, l \in 1..n + 1 : all[k].w = all[l].w => k = l
    <2>1. ASSUME NEW k \in 1..n
          PROVE  all[k].w # e.w
      <3>1. PICK i \in DOMAIN q : q[i].w # e.w /\ others[k] = q[i]
        BY <1>1, <1>2
      <3> QED BY <1>3, <3>1
    <2>2. \A k \in 1..n + 1 : k = n + 1 \/ k \in 1..n
      BY <1>4
    <2>3. \A k, l \in 1..n : all[k].w = all[l].w => k = l
      BY <1>1, <1>2, <1>3
    <2> QED BY <1>3, <2>1, <2>2, <2>3
  <1>9. \A k \in 1..n + 1 : all[k] = e \/ \E i \in DOMAIN q : all[k] = q[i]
    <2>1. \A k \in 1..n + 1 : k = n + 1 \/ k \in 1..n
      BY <1>4
    <2>2. ASSUME NEW k \in 1..n
          PROVE  \E i \in DOMAIN q : all[k] = q[i]
      <3>1. PICK i \in DOMAIN q : q[i].w # e.w /\ others[k] = q[i]
        BY <1>1, <1>2
      <3> QED BY <1>3, <3>1
    <2> QED BY <1>3, <2>1, <2>2
  <1>10. \A k \in 1..n + 1 - d : k + d \in 1..n + 1
    BY <1>4, <1>5
  <1>11. \A k \in 1..n + 1 : k \in 1..d \/ (k - d \in 1..n + 1 - d /\ k - d + d = k)
    BY <1>4, <1>5
  <1>12. \A k, l \in DOMAIN r : r[k].w = r[l].w => k = l
    <2>1. ASSUME NEW k \in 1..n + 1 - d, NEW l \in 1..n + 1 - d, r[k].w = r[l].w
          PROVE  k = l
      <3>1. k + d = l + d
        BY <1>7, <1>8, <1>10, <2>1
      <3> QED BY <1>5, <3>1
    <2> QED BY <1>7, <2>1
  <1>13. \A k \in DOMAIN r : r[k] = e \/ \E i \in DOMAIN q : r[k] = q[i]
    BY <1>7, <1>9, <1>10
  <1>14. ASSUME NEW i \in DOMAIN q
         PROVE  \/ q[i].w = e.w \/ q[i].w \in WorkersOf(out)
                \/ \E k \in DOMAIN r : r[k] = q[i]
    <2>1. SUFFICES ASSUME q[i].w # e.w
                   PROVE  q[i].w \in WorkersOf(out) \/ \E k \in DOMAIN r : r[k] = q[i]
      OBVIOUS
    <2>2. PICK k \in 1..n : others[k] = q[i]
      BY <1>1, <1>2, <2>1
    <2>3. k \in 1..n + 1 /\ all[k] = q[i]
      BY <1>3, <1>4, <2>2
    <2>4. CASE k \in 1..d
      BY <1>6, <2>3, <2>4 DEF WorkersOf
    <2>5. CASE k - d \in 1..n + 1 - d /\ k - d + d = k
      BY <1>7, <2>3, <2>5
    <2> QED BY <1>11, <2>3, <2>4, <2>5
  <1>15. \E k \in DOMAIN r : r[k] = e
    <2>1. n + 1 - d \in 1..n + 1 - d /\ n + 1 - d + d = n + 1
      BY <1>4, <1>5
    <2> QED BY <1>3, <1>7, <2>1
  <1>16. \A w \in WorkersOf(out) : \E x \in T : x.w = w
    <2>1. \A k \in 1..d : out[k] \in T
      BY <1>6
    <2> QED BY <1>6, <2>1 DEF WorkersOf
  <1>17. Len(r) <= MaxPending
    BY <1>5, <1>7
  <1>18. out = Out(q, e) /\ r = Pushed(q, e)
    BY DEF r, out, d, all, others, I, All, Out, Pushed
  <1>19. r \in Seq(T)
    BY <1>7
  <1> QED BY <1>12, <1>13, <1>14, <1>15, <1>16, <1>17, <1>18, <1>19 DEF PushedIs

\* The head of j as it is put into the queue.
Stamped(j) == [Head(j.todo) EXCEPT !.at = Stamp(Head(j.todo))]

LEMMA StampedIs ==
  ASSUME IInv, NEW j \in jobs, j.pc = "enqueue",
         clock' = IF Head(j.todo).at = 0 THEN Stamp(Head(j.todo)) ELSE clock
  PROVE  LET e == Head(j.todo)
             x == Stamped(j)
         IN
         /\ clock' \in Nat /\ clock <= clock' /\ horizon \in 0..clock'
         /\ x \in [w : Worker, k : 1..MaxReports, at : 0..clock']
         /\ x.w = e.w /\ x.k = e.k /\ x.at > 0 /\ x.at = Stamp(e) /\ ReportOf(x) = ReportOf(e)
         /\ \A y \in Entry :
               Waits(y) /\ Apart(e, y) /\ Apart(y, e) => Apart(x, y) /\ Apart(y, x)
  <1> DEFINE e == Head(j.todo)
             x == Stamped(j)
  <1>1. e \in Entry /\ Waits(e) /\ (e.at = 0 => e.k = issued[e.w])
    BY HeadIs
  <1>2. x = [e EXCEPT !.at = Stamp(e)] /\ clock' = IF e.at = 0 THEN Stamp(e) ELSE clock
    BY DEF Stamped
  <1> HIDE DEF e, x
  <1>3. clock \in Nat /\ horizon \in 0..clock
    BY DEF IInv, TypeOK
  <1>4. e.w \in Worker /\ e.k \in 1..MaxReports /\ e.at \in 0..clock
    BY <1>1 DEF Entry
  <1>5. /\ clock' \in Nat /\ clock <= clock'
        /\ Stamp(e) \in 0..clock' /\ Stamp(e) > 0
        /\ e.at = 0 => Stamp(e) = clock + 1
        /\ e.at # 0 => Stamp(e) = e.at
    BY <1>2, <1>3, <1>4 DEF Stamp
  <1>6. x = [w |-> e.w, k |-> e.k, at |-> Stamp(e)]
    <2>1. e \in [w : Worker, k : 1..MaxReports, at : 0..clock]
      BY <1>1 DEF Entry
    <2> QED BY <1>2, <2>1
  <1>7. ReportOf(x) = ReportOf(e)
    BY <1>6 DEF ReportOf
  <1>8. ASSUME NEW y \in Entry, Waits(y), Apart(e, y), Apart(y, e)
        PROVE  Apart(x, y) /\ Apart(y, x)
    <2>1. y.k \in Nat /\ y.at \in 0..clock /\ y.k <= issued[y.w]
      BY <1>8 DEF Entry, Waits
    <2>2. ReportOf(x) # ReportOf(y)
      BY <1>7, <1>8 DEF Apart
    <2>3. CASE e.at = 0
      <3>1. Ordered(x, y)
        BY <1>3, <1>5, <1>6, <2>1, <2>3 DEF Ordered
      <3>2. ASSUME y.w = x.w
            PROVE  ~(y.k > x.k)
        BY <1>1, <1>4, <1>6, <2>1, <2>3, <3>2
      <3>3. Ordered(y, x)
        BY <3>2 DEF Ordered
      <3> QED BY <2>2, <3>1, <3>3 DEF Apart
    <2>4. CASE e.at # 0
      <3>1. x.w = e.w /\ x.k = e.k /\ x.at = e.at
        BY <1>5, <1>6, <2>4
      <3>2. Ordered(x, y) /\ Ordered(y, x)
        BY <1>8, <3>1 DEF Ordered, Apart
      <3> QED BY <2>2, <3>2 DEF Apart
    <2> QED BY <2>3, <2>4
  <1>9. horizon \in 0..clock'
    BY <1>3, <1>5
  <1> QED BY <1>4, <1>5, <1>6, <1>7, <1>8, <1>9 DEF e, x

\* The entry that makes Enqueue refuse the head of j.
Newer(j) ==
    LET e == Head(j.todo)
        fresh == FreshIn(queue)
    IN \E i \in DOMAIN fresh : fresh[i].w = e.w /\ fresh[i].at > Stamp(e)

LEMMA RefuseKeeps ==
  ASSUME IInv, NEW j \in jobs, Enqueue(j), Newer(j)
  PROVE  IInv'
  <1> DEFINE e == Head(j.todo)
             fresh == FreshIn(queue)
  <1>1. /\ j.pc = "enqueue" /\ queue' = fresh /\ Done(j)
        /\ untold' = untold \cup ExpiredOf(queue)
        /\ clock' = IF e.at = 0 THEN Stamp(e) ELSE clock
        /\ UNCHANGED <<leader, edge, issued, flushes, horizon, delivered, twice, told, faults>>
    BY DEF Enqueue, Newer, typed
  <1>2. /\ fresh \in Seq(Entry) /\ Len(fresh) <= MaxPending
        /\ \A k, l \in DOMAIN fresh : fresh[k].w = fresh[l].w => k = l
        /\ \A k \in DOMAIN fresh : \E i \in DOMAIN queue : fresh[k] = queue[i]
        /\ \A i \in DOMAIN queue :
              queue[i].w \in ExpiredOf(queue) \/ \E k \in DOMAIN fresh : fresh[k] = queue[i]
    BY FreshIs DEF IInv
  <1>3. /\ e \in Entry /\ (e.at = 0 => e.k = issued[e.w])
        /\ \A i \in DOMAIN queue : Apart(queue[i], e)
    BY <1>1, HeadIs
  <1>4. \E i \in DOMAIN fresh : fresh[i].w = e.w /\ fresh[i].at > Stamp(e)
    BY DEF Newer
  <1>5. jobs' \subseteq JobType /\ JobsApart' /\ NewIsNewest' /\ HeadGone(j)
    BY <1>1, DoneIs DEF IInv, Places
  <1> HIDE DEF e, fresh
  <1>6. PICK i \in DOMAIN queue : queue[i].w = e.w /\ queue[i].at > Stamp(e)
    BY <1>2, <1>4
  <1>7. /\ queue[i] \in Entry /\ Waits(queue[i]) /\ Apart(queue[i], e)
        /\ queue[i].at \in 0..clock /\ queue[i].k \in Nat /\ clock \in Nat
        /\ e.at \in 0..clock /\ e.k \in Nat
    <2>1. queue[i] \in Entry /\ clock \in Nat
      BY DEF IInv, TypeOK
    <2>2. Waits(queue[i]) /\ Apart(queue[i], e)
      BY <1>3 DEF IInv, Places, QueueWaits
    <2>3. queue[i].at \in 0..clock /\ queue[i].k \in Nat
      BY <2>1 DEF Entry
    <2>4. e.at \in 0..clock /\ e.k \in Nat
      BY <1>3 DEF Entry
    <2> QED BY <2>1, <2>2, <2>3, <2>4
  <1>8. e.at # 0 /\ clock' = clock /\ queue[i].at > e.at
    BY <1>1, <1>6, <1>7 DEF Stamp
  <1>9. e.k # issued[e.w]
    <2>1. SUFFICES ASSUME e.k = issued[e.w]
                   PROVE  FALSE
      OBVIOUS
    <2>2. queue[i].k <= e.k
      BY <1>6, <1>7, <2>1 DEF Waits
    <2>3. queue[i].k # e.k
      BY <1>6, <1>7 DEF Apart, ReportOf
    <2>4. e.k > queue[i].k
      BY <1>7, <2>2, <2>3
    <2>5. e.at > 0 /\ queue[i].at > 0
      BY <1>7, <1>8
    <2>6. e.at > queue[i].at
      BY <1>6, <1>7, <2>4, <2>5 DEF Apart, Ordered
    <2> QED BY <1>7, <1>8, <2>6
  <1>10. TypeOK'
    <2>1. Entry' = Entry
      BY <1>8 DEF Entry
    <2>2. untold' \subseteq Worker
      BY <1>1, ExpiredAreWorkers DEF IInv, TypeOK
    <2> QED BY <1>1, <1>2, <1>5, <1>8, <2>1, <2>2 DEF IInv, TypeOK, JobType, Pc
  <1>11. QueueApart'
    <2>1. ASSUME NEW k \in DOMAIN fresh, NEW m \in jobs', NEW l \in Live(m)
          PROVE  Apart(fresh[k], m.todo[l])
      <3>1. PICK q \in DOMAIN queue : fresh[k] = queue[q]
        BY <1>2
      <3>2. \E o \in jobs : \E n \in Live(o) : m.todo[l] = o.todo[n]
        BY <1>5 DEF HeadGone
      <3> QED BY <3>1, <3>2 DEF IInv, Places, QueueApart
    <2> QED BY <1>1, <2>1 DEF QueueApart
  <1>12. QueueWaits'
    <2>1. \A k \in DOMAIN fresh : fresh[k].at > 0 /\ Waits(fresh[k])
      BY <1>2 DEF IInv, Places, QueueWaits
    <2> QED BY <1>1, <2>1 DEF QueueWaits, Waits
  <1>13. JobsWait' /\ DeliveredWasMade' /\ DeliveredOnce'
    BY <1>1, <1>5 DEF HeadGone, IInv, Places, JobsWait, Waits, DeliveredWasMade, DeliveredOnce
  <1>14. NewestIsHeld'
    <2> SUFFICES ASSUME NEW w \in Worker, issued[w] > 0
                 PROVE  Held(Newest(w))' \/ Newest(w)' \in delivered' \/ w \in told' \cup untold'
      BY <1>1 DEF NewestIsHeld
    <2>1. Newest(w)' = Newest(w)
      BY <1>1 DEF Newest
    <2>2. Held(Newest(w)) \/ Newest(w) \in delivered \/ w \in told \cup untold
      BY DEF IInv, NewestIsHeld
    <2>3. ASSUME NEW q \in DOMAIN queue, ReportOf(queue[q]) = Newest(w)
          PROVE  Held(Newest(w))' \/ w \in untold'
      <3>1. queue[q].w = w
        BY <2>3 DEF ReportOf, Newest
      <3>2. CASE queue[q].w \in ExpiredOf(queue)
        BY <1>1, <3>1, <3>2
      <3>3. CASE \E k \in DOMAIN fresh : fresh[k] = queue[q]
        BY <1>1, <2>1, <2>3, <3>3 DEF Held
      <3> QED BY <1>2, <3>2, <3>3
    <2>4. ASSUME NEW o \in jobs, NEW k \in Live(o), ReportOf(o.todo[k]) = Newest(w)
          PROVE  Held(Newest(w))'
      <3>1. \/ \E m \in jobs' : \E l \in Live(m) : ReportOf(m.todo[l]) = Newest(w)
            \/ Newest(w) = ReportOf(e)
        BY <1>5, <2>4, HeldBehind DEF e
      <3>2. Newest(w) # ReportOf(e)
        BY <1>9 DEF Newest, ReportOf
      <3> QED BY <2>1, <3>1, <3>2 DEF Held
    <2> QED BY <1>1, <2>1, <2>2, <2>3, <2>4 DEF Held
  <1> QED BY <1>5, <1>10, <1>11, <1>12, <1>13, <1>14 DEF IInv, Places

LEMMA AcceptKeeps ==
  ASSUME IInv, NEW j \in jobs, Enqueue(j), ~Newer(j)
  PROVE  IInv'
  <1> DEFINE e == Head(j.todo)
             x == Stamped(j)
             fresh == FreshIn(queue)
             Type == [w : Worker, k : 1..MaxReports, at : 0..clock']
             out == Out(fresh, x)
             r == Pushed(fresh, x)
             gone == ExpiredOf(queue) \cup WorkersOf(out)
  <1>1. /\ j.pc = "enqueue" /\ Goto(j, "recheck")
        /\ clock' = IF e.at = 0 THEN Stamp(e) ELSE clock
        /\ UNCHANGED <<leader, edge, issued, flushes, horizon, delivered, twice, untold, faults>>
    BY DEF Enqueue, Newer, typed
  <1>2. /\ clock' \in Nat /\ clock <= clock' /\ horizon \in 0..clock'
        /\ x \in Type
        /\ x.w = e.w /\ x.k = e.k /\ x.at > 0 /\ x.at = Stamp(e) /\ ReportOf(x) = ReportOf(e)
        /\ \A y \in Entry :
              Waits(y) /\ Apart(e, y) /\ Apart(y, e) => Apart(x, y) /\ Apart(y, x)
    BY <1>1, StampedIs
  <1>3. queue' = r /\ told' = told \cup gone
    <2>1. /\ x = [e EXCEPT !.at = Stamp(e)]
          /\ {i \in DOMAIN fresh : fresh[i].w # x.w} = {i \in DOMAIN fresh : fresh[i].w # e.w}
      BY <1>2 DEF Stamped
    <2> QED BY <2>1 DEF Enqueue, Newer, All, Out, Pushed
  <1>4. /\ e \in Entry /\ Waits(e) /\ (e.at = 0 => e.k = issued[e.w])
        /\ \A i \in DOMAIN queue : Apart(queue[i], e)
        /\ \A o \in jobs : \A k \in Live(o) :
              o # j \/ k # 1 => Apart(e, o.todo[k]) /\ Apart(o.todo[k], e)
    BY <1>1, HeadIs
  <1>5. /\ fresh \in Seq(Entry) /\ Len(fresh) <= MaxPending
        /\ \A k, l \in DOMAIN fresh : fresh[k].w = fresh[l].w => k = l
        /\ \A k \in DOMAIN fresh : \E i \in DOMAIN queue : fresh[k] = queue[i]
        /\ \A i \in DOMAIN queue :
              queue[i].w \in ExpiredOf(queue) \/ \E k \in DOMAIN fresh : fresh[k] = queue[i]
    BY FreshIs DEF IInv
  <1>6. ~ \E i \in DOMAIN fresh : fresh[i].w = e.w /\ fresh[i].at > Stamp(e)
    BY DEF Newer
  <1>7. jobs' \subseteq JobType /\ JobsApart' /\ NewIsNewest' /\ HeadGone(j)
    <2>1. "recheck" \in Pc
      BY DEF Pc
    <2> QED BY <1>1, <2>1, GotoIs DEF IInv, Places
  <1>8. Entry \subseteq Type /\ Entry' = Type
    <2>1. clock \in Nat
      BY DEF IInv, TypeOK
    <2>2. 0..clock \subseteq 0..clock'
      BY <1>2, <2>1
    <2> QED BY <2>2 DEF Entry
  <1> HIDE DEF e, x, fresh, Type
  <1>9. /\ r \in Seq(Type) /\ Len(r) <= MaxPending
        /\ \A k, l \in DOMAIN r : r[k].w = r[l].w => k = l
        /\ \A k \in DOMAIN r : r[k] = x \/ \E i \in DOMAIN fresh : r[k] = fresh[i]
        /\ \A i \in DOMAIN fresh :
              \/ fresh[i].w = x.w \/ fresh[i].w \in WorkersOf(out)
              \/ \E k \in DOMAIN r : r[k] = fresh[i]
        /\ \E k \in DOMAIN r : r[k] = x
        /\ \A w \in WorkersOf(out) : \E y \in Type : y.w = w
    <2>1. fresh \in Seq(Type)
      BY <1>5, <1>8
    <2>2. PushedIs(Type, fresh, x)
      BY <1>2, <1>5, <2>1, PushIs DEF Once
    <2> QED BY <2>2 DEF PushedIs
  <1>10. gone \subseteq Worker
    <2>1. \A y \in Type : y.w \in Worker
      BY DEF Type
    <2> HIDE DEF out, r
    <2> QED BY <1>9, <2>1, ExpiredAreWorkers DEF IInv
  <1> HIDE DEF out, r
  <1>11. TypeOK'
    <2>1. queue' \in Seq(Entry') /\ Len(queue') <= MaxPending
      BY <1>3, <1>8, <1>9
    <2>2. \A k, l \in DOMAIN queue' : queue'[k].w = queue'[l].w => k = l
      BY <1>3, <1>9
    <2>3. jobs' \subseteq [todo : Seq(Entry') \ {<<>>}, pc : Pc]
      <3>1. Seq(Entry) \subseteq Seq(Entry')
        BY <1>8
      <3> QED BY <1>7, <3>1 DEF JobType
    <2>4. told' \subseteq Worker
      BY <1>3, <1>10 DEF IInv, TypeOK
    <2>5. clock' \in Nat /\ horizon' \in 0..clock'
      BY <1>1, <1>2
    <2> QED BY <1>1, <2>1, <2>2, <2>3, <2>4, <2>5 DEF IInv, TypeOK, Pc
  <1>12. \A k \in DOMAIN r : r[k] = x \/ \E i \in DOMAIN queue : r[k] = queue[i]
    BY <1>5, <1>9
  <1>13. QueueApart'
    <2>1. ASSUME NEW k \in DOMAIN r, NEW m \in jobs', NEW l \in Live(m)
          PROVE  Apart(r[k], m.todo[l])
      <3>1. PICK o \in jobs : \E n \in Live(o) : (o # j \/ n # 1) /\ m.todo[l] = o.todo[n]
        BY <1>7 DEF HeadGone
      <3>2. PICK n \in Live(o) : (o # j \/ n # 1) /\ m.todo[l] = o.todo[n]
        BY <3>1
      <3>3. CASE r[k] = x
        <4>1. o.todo[n] \in Entry /\ Waits(o.todo[n])
          BY JobIs DEF IInv, Places, JobsWait
        <4>2. Apart(e, o.todo[n]) /\ Apart(o.todo[n], e)
          BY <1>4, <3>2
        <4> QED BY <1>2, <3>2, <3>3, <4>1, <4>2
      <3>4. CASE \E i \in DOMAIN queue : r[k] = queue[i]
        BY <3>2, <3>4 DEF IInv, Places, QueueApart
      <3> QED BY <1>12, <3>3, <3>4
    <2> QED BY <1>3, <2>1 DEF QueueApart
  <1>14. QueueWaits'
    <2>1. ASSUME NEW k \in DOMAIN r
          PROVE  r[k].at > 0 /\ Waits(r[k])
      <3>1. CASE r[k] = x
        <4>1. Waits(x)
          BY <1>2, <1>4 DEF Waits
        <4> QED BY <1>2, <3>1, <4>1
      <3>2. CASE \E i \in DOMAIN queue : r[k] = queue[i]
        BY <3>2 DEF IInv, Places, QueueWaits
      <3> QED BY <1>12, <3>1, <3>2
    <2> QED BY <1>1, <1>3, <2>1 DEF QueueWaits, Waits
  <1>15. JobsWait' /\ DeliveredWasMade' /\ DeliveredOnce'
    BY <1>1, <1>7 DEF HeadGone, IInv, Places, JobsWait, Waits, DeliveredWasMade, DeliveredOnce
  <1>16. NewestIsHeld'
    <2> SUFFICES ASSUME NEW w \in Worker, issued[w] > 0
                 PROVE  Held(Newest(w))' \/ Newest(w)' \in delivered' \/ w \in told' \cup untold'
      BY <1>1 DEF NewestIsHeld
    <2>1. Newest(w)' = Newest(w)
      BY <1>1 DEF Newest
    <2>2. Held(Newest(w)) \/ Newest(w) \in delivered \/ w \in told \cup untold
      BY DEF IInv, NewestIsHeld
    <2>3. ASSUME NEW q \in DOMAIN queue, ReportOf(queue[q]) = Newest(w)
          PROVE  Held(Newest(w))' \/ w \in told'
      <3>1. queue[q].w = w /\ queue[q].k = issued[w]
        BY <2>3 DEF ReportOf, Newest
      <3>2. CASE queue[q].w \in ExpiredOf(queue)
        BY <1>3, <3>1, <3>2
      <3>3. ASSUME NEW i \in DOMAIN fresh, fresh[i] = queue[q]
            PROVE  Held(Newest(w))' \/ w \in told'
        <4>1. w # e.w
          <5>1. SUFFICES ASSUME w = e.w
                         PROVE  FALSE
            OBVIOUS
          <5>2. /\ queue[q].at \in 0..clock /\ clock \in Nat /\ queue[q].at > 0
                /\ Apart(queue[q], e)
            <6>1. queue[q] \in Entry /\ clock \in Nat
              BY DEF IInv, TypeOK
            <6>2. queue[q].at > 0 /\ Apart(queue[q], e)
              BY <1>4 DEF IInv, Places, QueueWaits
            <6> QED BY <6>1, <6>2 DEF Entry
          <5>3. e.k \in Nat /\ e.at \in 0..clock /\ e.k <= issued[w]
            BY <1>4, <5>1 DEF Entry, Waits
          <5>4. issued[w] \in Nat
            BY DEF IInv, TypeOK
          <5>5. e.k # issued[w]
            BY <3>1, <5>1, <5>2 DEF Apart, ReportOf
          <5>6. e.at > 0
            BY <1>4, <5>1, <5>2, <5>3, <5>5
          <5>7. queue[q].k > e.k
            BY <3>1, <5>3, <5>4, <5>5
          <5>8. queue[q].at > e.at
            BY <3>1, <5>1, <5>2, <5>6, <5>7 DEF Apart, Ordered
          <5>9. Stamp(e) = e.at
            BY <5>3, <5>6 DEF Stamp
          <5> QED BY <1>6, <3>1, <3>3, <5>1, <5>8, <5>9
        <4>2. \/ fresh[i].w \in WorkersOf(out)
              \/ \E k \in DOMAIN r : r[k] = fresh[i]
          BY <1>2, <1>9, <3>1, <3>3, <4>1
        <4>3. CASE fresh[i].w \in WorkersOf(out)
          BY <1>3, <3>1, <3>3, <4>3
        <4>4. CASE \E k \in DOMAIN r : r[k] = fresh[i]
          BY <1>3, <2>1, <2>3, <3>3, <4>4 DEF Held
        <4> QED BY <4>2, <4>3, <4>4
      <3> QED BY <1>5, <3>2, <3>3
    <2>4. ASSUME NEW o \in jobs, NEW k \in Live(o), ReportOf(o.todo[k]) = Newest(w)
          PROVE  Held(Newest(w))'
      <3>1. \/ \E m \in jobs' : \E l \in Live(m) : ReportOf(m.todo[l]) = Newest(w)
            \/ Newest(w) = ReportOf(e)
        BY <1>7, <2>4, HeldBehind DEF e
      <3>2. CASE Newest(w) = ReportOf(e)
        BY <1>2, <1>3, <1>9, <2>1, <3>2 DEF Held
      <3> QED BY <2>1, <3>1, <3>2 DEF Held
    <2> QED BY <1>1, <1>3, <2>1, <2>2, <2>3, <2>4 DEF Held
  <1> QED BY <1>7, <1>11, <1>13, <1>14, <1>15, <1>16 DEF IInv, Places

LEMMA LeaderKeeps ==
  ASSUME IInv, NEW s \in Status, LeaderMoves(s)
  PROVE  IInv'
  <1>1. UNCHANGED <<issued, queue, jobs, flushes, clock, horizon, delivered, twice, told,
                    faults, untold>>
    BY DEF LeaderMoves, time, typed
  <1>2. leader' \in Status /\ edge' \in {"idle", "error", "none"}
    BY DEF LeaderMoves, IInv, TypeOK
  <1>3. TypeOK'
    <2>1. Entry' = Entry
      BY <1>1 DEF Entry
    <2> QED BY <1>1, <1>2, <2>1 DEF IInv, TypeOK
  <1> QED BY <1>1, <1>3, QuietKeeps

LEMMA TimeKeeps ==
  ASSUME IInv, TimePasses
  PROVE  IInv'
  <1>1. /\ UNCHANGED <<leader, edge, issued, queue, jobs, flushes, clock, delivered, twice,
                       told, faults, untold>>
        /\ horizon' \in (horizon + 1)..clock
    BY DEF TimePasses, typed
  <1>2. horizon' \in 0..clock
    BY <1>1 DEF IInv, TypeOK
  <1>3. TypeOK'
    <2>1. Entry' = Entry
      BY <1>1 DEF Entry
    <2> QED BY <1>1, <1>2, <2>1 DEF IInv, TypeOK
  <1> QED BY <1>1, <1>3, QuietKeeps

\* What starts a flush or clears the queue, and leaves the jobs alone.
LEMMA FlushOrClear ==
  ASSUME IInv,
         UNCHANGED <<leader, issued, jobs, clock, horizon, delivered, twice, faults, untold>>,
         edge' \in {"idle", "error", "none"}, flushes' \in 0..MaxFlushes,
         Clear \/ UNCHANGED <<queue, told>>
  PROVE  IInv'
  <1>1. Entry' = Entry
    BY DEF Entry
  <1>2. CASE Clear
    <2>1. queue' \in Seq(Entry) /\ Len(queue') <= MaxPending /\ DOMAIN queue' = {}
      BY <1>2, Bounds DEF Clear
    <2>2. told' \subseteq Worker
      BY <1>2, ExpiredAreWorkers DEF Clear, IInv, TypeOK
    <2>3. TypeOK'
      BY <1>1, <2>1, <2>2 DEF IInv, TypeOK
    <2> QED BY <1>2, <2>3, ClearKeeps
  <1>3. CASE UNCHANGED <<queue, told>>
    <2>1. TypeOK'
      BY <1>1, <1>3 DEF IInv, TypeOK
    <2> QED BY <1>3, <2>1, QuietKeeps
  <1> QED BY <1>2, <1>3

LEMMA SpawnIs ==
  ASSUME TypeOK, SpawnFlush \/ UNCHANGED flushes
  PROVE  flushes' \in 0..MaxFlushes
  BY Bounds DEF TypeOK, SpawnFlush

LEMMA ListenerKeeps ==
  ASSUME IInv, Listener
  PROVE  IInv'
  <1>1. /\ UNCHANGED <<leader, issued, jobs, clock, horizon, delivered, twice, faults, untold>>
        /\ edge' = "none"
        /\ SpawnFlush \/ UNCHANGED flushes
        /\ Clear \/ UNCHANGED <<queue, told>>
    BY DEF Listener, time, typed
  <1> QED BY <1>1, SpawnIs, FlushOrClear DEF IInv

LEMMA ScanKeeps ==
  ASSUME IInv, LevelScan
  PROVE  IInv'
  <1>1. /\ UNCHANGED <<leader, edge, issued, jobs, clock, horizon, delivered, twice, faults,
                       untold>>
        /\ SpawnFlush \/ UNCHANGED flushes
        /\ Clear \/ UNCHANGED <<queue, told>>
    BY DEF LevelScan, time, typed
  <1>2. edge' \in {"idle", "error", "none"}
    BY <1>1 DEF IInv, TypeOK
  <1> QED BY <1>1, <1>2, SpawnIs, FlushOrClear DEF IInv

LEMMA ReadKeeps ==
  ASSUME IInv, NEW j \in jobs, ReadStatus(j)
  PROVE  IInv'
  <1>1. /\ j.pc = "read"
        /\ UNCHANGED <<leader, edge, issued, queue, flushes, time, typed, faults, untold>>
    BY DEF ReadStatus
  <1>2. ASSUME NEW pc \in {"submit", "enqueue", "clear"}, Goto(j, pc), UNCHANGED told
        PROVE  IInv'
    <2>1. pc \in Pc /\ pc # "recheck" /\ j.pc # "recheck"
      BY <1>1 DEF Pc
    <2> QED BY <1>1, <1>2, <2>1, GotoKeeps
  <1>3. CASE Done(j) /\ told' = told \cup {Head(j.todo).w}
    <2>1. Head(j.todo).w \in Worker
      <3>1. Head(j.todo) \in Entry
        BY JobIs DEF IInv
      <3> QED BY <3>1 DEF Entry
    <2>2. told \subseteq told' /\ told' \subseteq Worker /\ Head(j.todo).w \in told'
      BY <1>3, <2>1 DEF IInv, TypeOK
    <2>3. flushes' \in 0..MaxFlushes /\ faults' \in 0..MaxFaults
      BY <1>1 DEF IInv, TypeOK
    <2>4. /\ UNCHANGED <<leader, edge, issued, clock, horizon, delivered, twice, untold>>
          /\ queue' = queue
      BY <1>1 DEF time, typed
    <2> QED BY <1>3, <2>2, <2>3, <2>4, DropKeeps
  <1> QED BY <1>2, <1>3 DEF ReadStatus

LEMMA FailKeeps ==
  ASSUME IInv, NEW j \in jobs, SendFails(j)
  PROVE  IInv'
  <1>1. /\ Done(j) /\ told' = told \cup {Head(j.todo).w} /\ queue' = queue
        /\ UNCHANGED <<leader, edge, issued, clock, horizon, delivered, twice, untold>>
    BY DEF SendFails, time, typed
  <1>2. Head(j.todo).w \in Worker
    <2>1. Head(j.todo) \in Entry
      BY JobIs DEF IInv
    <2> QED BY <2>1 DEF Entry
  <1>3. told \subseteq told' /\ told' \subseteq Worker /\ Head(j.todo).w \in told'
    BY <1>1, <1>2 DEF IInv, TypeOK
  <1>4. flushes' \in 0..MaxFlushes /\ faults' \in 0..MaxFaults
    BY Bounds DEF SendFails, Fault, IInv, TypeOK
  <1> QED BY <1>1, <1>3, <1>4, DropKeeps

LEMMA SkipKeeps ==
  ASSUME IInv, NEW j \in jobs, SkipAndClear(j)
  PROVE  IInv'
  <1>1. /\ Done(j) /\ queue' = <<>>
        /\ told' = told \cup WorkersOf(queue) \cup {Head(j.todo).w}
        /\ UNCHANGED <<leader, edge, issued, flushes, clock, horizon, delivered, twice, faults,
                       untold>>
    BY DEF SkipAndClear, time, typed
  <1>2. Head(j.todo).w \in Worker
    <2>1. Head(j.todo) \in Entry
      BY JobIs DEF IInv
    <2> QED BY <2>1 DEF Entry
  <1>3. /\ told \subseteq told' /\ told' \subseteq Worker /\ Head(j.todo).w \in told'
        /\ WorkersOf(queue) \subseteq told'
    BY <1>1, <1>2, ExpiredAreWorkers DEF IInv, TypeOK
  <1>4. flushes' \in 0..MaxFlushes /\ faults' \in 0..MaxFaults
    BY <1>1 DEF IInv, TypeOK
  <1> QED BY <1>1, <1>3, <1>4, DropKeeps

LEMMA RecheckKeeps ==
  ASSUME IInv, NEW j \in jobs, Recheck(j)
  PROVE  IInv'
  <1>1. /\ Done(j) /\ j.pc = "recheck" /\ queue' = queue
        /\ UNCHANGED <<leader, edge, issued, clock, horizon, delivered, twice, told, untold>>
        /\ SpawnFlush \/ UNCHANGED flushes
        /\ Fault \/ UNCHANGED faults
    BY DEF Recheck, time, typed
  <1>2. flushes' \in 0..MaxFlushes
    BY <1>1, SpawnIs DEF IInv
  <1>3. faults' \in 0..MaxFaults
    BY <1>1, Bounds DEF Fault, IInv, TypeOK
  <1>4. told \subseteq told' /\ told' \subseteq Worker
    BY <1>1 DEF IInv, TypeOK
  <1> QED BY <1>1, <1>2, <1>3, <1>4, DropKeeps

LEMMA NextIInv == IInv /\ [Next]_vars => IInv'
  <1> SUFFICES ASSUME IInv, [Next]_vars
               PROVE  IInv'
    OBVIOUS
  <1>1. ASSUME NEW s \in Status, LeaderMoves(s)
        PROVE  IInv'
    BY <1>1, LeaderKeeps
  <1>2. CASE Listener
    BY <1>2, ListenerKeeps
  <1>3. CASE TimePasses
    BY <1>3, TimeKeeps
  <1>4. ASSUME NEW w \in Worker, SendReport(w)
        PROVE  IInv'
    BY <1>4, SendReportKeeps
  <1>5. ASSUME NEW j \in jobs, SendStep(j)
        PROVE  IInv'
    <2>1. CASE ReadStatus(j)
      BY <2>1, ReadKeeps
    <2>2. CASE Submit(j)
      BY <2>2, SubmitKeeps
    <2>3. CASE SkipAndClear(j)
      BY <2>3, SkipKeeps
    <2>4. CASE Enqueue(j)
      BY <2>4, RefuseKeeps, AcceptKeeps
    <2>5. CASE Recheck(j)
      BY <2>5, RecheckKeeps
    <2> QED BY <1>5, <2>1, <2>2, <2>3, <2>4, <2>5 DEF SendStep
  <1>6. ASSUME NEW j \in jobs, SendFails(j)
        PROVE  IInv'
    BY <1>6, FailKeeps
  <1>7. CASE FlushTakes
    BY <1>7, FlushKeeps
  <1>8. CASE LevelScan
    BY <1>8, ScanKeeps
  <1>9. CASE UNCHANGED vars
    <2>1. UNCHANGED <<leader, edge, issued, queue, jobs, flushes, clock, horizon, delivered,
                      twice, told, untold, faults>>
      BY <1>9 DEF vars
    <2>2. TypeOK'
      <3>1. Entry' = Entry
        BY <2>1 DEF Entry
      <3> QED BY <2>1, <3>1 DEF IInv, TypeOK
    <2> QED BY <2>1, <2>2, QuietKeeps
  <1> QED BY <1>1, <1>2, <1>3, <1>4, <1>5, <1>6, <1>7, <1>8, <1>9 DEF Next, SomeSend

LEMMA Invariance == Spec => []IInv
  BY InitIInv, NextIInv, PTL DEF Spec

----------------------------------------------------------------------------
(* What it is good for.                                                    *)

\* Whatever the workers report and the leader does, the state keeps its types:
\* the queue holds one report of a worker and no more than MaxPending, and the
\* batches on their way are never empty.
THEOREM ReportTypes == Spec => []TypeOK
  <1>1. IInv => TypeOK
    BY DEF IInv
  <1> QED BY <1>1, Invariance, PTL

\* Listener, second look, scan and the tools of the workers flush and queue as
\* they like: a report waits in one place at a time, and none is typed into the
\* terminal of the leader twice.
THEOREM ReportsTypedOnce == Spec => []DeliveredOnce
  <1>1. IInv => DeliveredOnce
    BY DEF IInv
  <1> QED BY <1>1, Invariance, PTL

\* No older report takes the place of a worker's newest, and none is lost between
\* the queue and the batches: it waits, is delivered, or its worker is marked.
THEOREM NewestIsNeverLost == Spec => []NewestIsKept
  <1>1. IInv => NewestIsKept
    <2> SUFFICES ASSUME IInv, NEW w \in Worker, issued[w] > 0
                 PROVE  \/ Pending(Newest(w)) \/ Newest(w) \in delivered
                        \/ w \in told \cup untold
      BY DEF NewestIsKept, Newest
    <2>1. Held(Newest(w)) \/ Newest(w) \in delivered \/ w \in told \cup untold
      BY DEF IInv, NewestIsHeld
    <2>2. Held(Newest(w)) => Pending(Newest(w))
      <3>1. \A j \in jobs : \A l \in Live(j) : l \in DOMAIN j.todo
        BY JobIs DEF IInv
      <3> QED BY <3>1 DEF Held, Pending
    <2> QED BY <2>1, <2>2
  <1> QED BY <1>1, Invariance, PTL

=============================================================================
