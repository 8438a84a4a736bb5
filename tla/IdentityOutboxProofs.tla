------------------------- MODULE IdentityOutboxProofs -------------------------
(***************************************************************************)
(* Theorems about IdentityOutbox, for all sets of sessions and ids and all *)
(* values of the bounds: types first, then that no binding is downgraded,  *)
(* then that an id is kept until its bind has ended.                       *)
(***************************************************************************)
EXTENDS IdentityOutbox, FiniteSetTheorems, TLAPS

----------------------------------------------------------------------------
(* Only(q, I) is q without what is not at I, whatever q and I are.         *)

Rank(I, i) == Cardinality({j \in I : j <= i})

\* Ranks are distinct and between 1 and the number of indices.
LEMMA RankIsInjective ==
  ASSUME NEW n \in Nat, NEW I \in SUBSET (1..n)
  PROVE  /\ IsFiniteSet(I) /\ Cardinality(I) \in Nat /\ Cardinality(I) <= n
         /\ \A i \in I : Rank(I, i) \in 1..Cardinality(I)
         /\ \A i, l \in I : Rank(I, i) = Rank(I, l) => i = l
  <1>1. IsFiniteSet(1..n) /\ Cardinality(1..n) = n
    <2>1. Cardinality(1..n) = IF 1 > n THEN 0 ELSE n - 1 + 1
      BY FS_Interval
    <2> QED BY <2>1, FS_Interval
  <1>2. IsFiniteSet(I) /\ Cardinality(I) <= n
    BY <1>1, FS_Subset
  <1>3. Cardinality(I) \in Nat
    BY <1>2, FS_CardinalityType
  <1>4. ASSUME NEW i \in I
        PROVE  /\ {j \in I : j <= i} \in SUBSET I
               /\ IsFiniteSet({j \in I : j <= i})
               /\ Rank(I, i) \in 1..Cardinality(I)
    <2>1. {j \in I : j <= i} \in SUBSET I
      OBVIOUS
    <2>2. /\ IsFiniteSet({j \in I : j <= i})
          /\ Cardinality({j \in I : j <= i}) <= Cardinality(I)
      BY <1>2, <2>1, FS_Subset
    <2>3. Cardinality({j \in I : j <= i}) \in Nat
      BY <2>2, FS_CardinalityType
    <2>4. {j \in I : j <= i} # {}
      <3>1. i \in {j \in I : j <= i}
        OBVIOUS
      <3> QED BY <3>1
    <2>5. Cardinality({j \in I : j <= i}) # 0
      BY <2>2, <2>4, FS_EmptySet
    <2> QED BY <1>3, <2>1, <2>2, <2>3, <2>5 DEF Rank
  <1>5. ASSUME NEW i \in I, NEW l \in I, i < l
        PROVE  Rank(I, i) # Rank(I, l)
    <2>1. {j \in I : j <= i} \in SUBSET {j \in I : j <= l}
      <3>1. \A j \in I : j <= i => j <= l
        <4>1. i \in Int /\ l \in Int /\ \A j \in I : j \in Int
          OBVIOUS
        <4> QED BY <1>5, <4>1
      <3> QED BY <3>1
    <2>2. l \in {j \in I : j <= l} /\ l \notin {j \in I : j <= i}
      BY <1>5
    <2>3. {j \in I : j <= i} # {j \in I : j <= l}
      BY <2>2
    <2> QED BY <1>4, <2>1, <2>3, FS_Subset DEF Rank
  <1>6. ASSUME NEW i \in I, NEW l \in I, Rank(I, i) = Rank(I, l)
        PROVE  i = l
    <2>1. i \in Int /\ l \in Int
      OBVIOUS
    <2> QED BY <1>5, <1>6, <2>1
  <1> QED BY <1>2, <1>3, <1>4, <1>6

\* Every number up to the number of indices is the rank of one.
LEMMA RankIsOnto ==
  ASSUME NEW n \in Nat, NEW I \in SUBSET (1..n), NEW k \in 1..Cardinality(I)
  PROVE  \E i \in I : Rank(I, i) = k
  <1> DEFINE m == Cardinality(I)
             f == [i \in I |-> Rank(I, i)]
  <1>1. m \in Nat /\ IsFiniteSet(I)
    BY RankIsInjective
  <1>2. f \in [I -> 1..m]
    BY RankIsInjective
  <1>3. \A i, l \in I : f[i] = f[l] => i = l
    BY RankIsInjective
  <1>4. f \in Injection(I, 1..m)
    BY <1>2, <1>3, Zenon DEF Injection, IsInjective
  <1>5. IsFiniteSet(1..m) /\ Cardinality(1..m) = m
    <2>1. Cardinality(1..m) = IF 1 > m THEN 0 ELSE m - 1 + 1
      BY <1>1, FS_Interval
    <2> QED BY <1>1, <2>1, FS_Interval
  <1>6. f \in Surjection(I, 1..m)
    BY <1>4, <1>5, FS_Injection
  <1>7. \E i \in I : f[i] = k
    BY <1>6 DEF Surjection
  <1> QED BY <1>7

LEMMA NthIs ==
  ASSUME NEW n \in Nat, NEW I \in SUBSET (1..n)
  PROVE  /\ \A k \in 1..Cardinality(I) : Nth(I, k) \in I /\ Rank(I, Nth(I, k)) = k
         /\ \A i \in I : Nth(I, Rank(I, i)) = i
  <1>1. ASSUME NEW k \in 1..Cardinality(I)
        PROVE  Nth(I, k) \in I /\ Rank(I, Nth(I, k)) = k
    <2>1. \E i \in I : Rank(I, i) = k
      BY RankIsOnto
    <2> QED BY <2>1 DEF Nth, Rank
  <1>2. ASSUME NEW i \in I
        PROVE  Nth(I, Rank(I, i)) = i
    <2>1. Rank(I, i) \in 1..Cardinality(I)
      BY RankIsInjective
    <2>2. /\ Nth(I, Rank(I, i)) \in I
          /\ Rank(I, Nth(I, Rank(I, i))) = Rank(I, i)
      BY <1>1, <2>1
    <2> QED BY <2>2, RankIsInjective
  <1> QED BY <1>1, <1>2

\* Only(q, I) is a sequence with each element of q at an index of I once, and
\* no other.
LEMMA OnlyIs ==
  ASSUME NEW T, NEW q \in Seq(T), NEW I \in SUBSET (DOMAIN q)
  PROVE  /\ Only(q, I) \in Seq(T)
         /\ Len(Only(q, I)) <= Len(q)
         /\ \A k \in DOMAIN Only(q, I) : Nth(I, k) \in I /\ Only(q, I)[k] = q[Nth(I, k)]
         /\ \A k, l \in DOMAIN Only(q, I) : Nth(I, k) = Nth(I, l) => k = l
         /\ \A i \in I : \E k \in DOMAIN Only(q, I) : Only(q, I)[k] = q[i]
  <1> DEFINE m == Cardinality(I)
  <1>1. Len(q) \in Nat /\ I \in SUBSET (1..Len(q))
    OBVIOUS
  <1>2. m \in Nat /\ m <= Len(q)
    BY <1>1, RankIsInjective
  <1>3. /\ \A k \in 1..m : Nth(I, k) \in I /\ Rank(I, Nth(I, k)) = k
        /\ \A i \in I : Nth(I, Rank(I, i)) = i /\ Rank(I, i) \in 1..m
    BY <1>1, NthIs, RankIsInjective
  <1>4. DOMAIN Only(q, I) = 1..m /\ \A k \in 1..m : Only(q, I)[k] = q[Nth(I, k)]
    BY DEF Only
  <1>5. \A k \in 1..m : q[Nth(I, k)] \in T
    BY <1>1, <1>3
  <1>6. Only(q, I) \in Seq(T) /\ Len(Only(q, I)) = m
    <2>1. Only(q, I) = [k \in 1..m |-> q[Nth(I, k)]]
      BY DEF Only
    <2> HIDE DEF m
    <2> QED BY <1>2, <1>5, <2>1
  <1>7. \A i \in I : \E k \in 1..m : Only(q, I)[k] = q[i]
    BY <1>3, <1>4
  <1> QED BY <1>2, <1>3, <1>4, <1>6, <1>7

----------------------------------------------------------------------------
(* The invariant.                                                          *)

\* A session is identified by each source once.
OneOfASource == \A e, f \in emitted : e.s = f.s /\ e.source = f.source => e = f

\* What a row holds was detected of its session.
DbIsDetected ==
    \A s \in Session :
        db[s] = NoId \/ \E e \in Detected(s) : db[s] = [id |-> e.id, source |-> e.source]

\* One of the tasks js still has an event with key k to bind.
Binds(js, k) == \E j \in DOMAIN js : \E i \in DOMAIN js[j].todo : KeyOf(js[j].todo[i]) = k

\* What is being bound was entered in applied_identity before.
BindsAreApplied == \A k : Binds(jobs, k) => k \in applied

TInv == TypeOK /\ OneOfASource /\ DbIsDetected /\ BindsAreApplied

Job(S) == [todo : Seq(S) \ {<<>>}, window : 1..2]

LEMMA InitTInv == Init => TInv
  <1> SUFFICES ASSUME Init
               PROVE  TInv
    OBVIOUS
  <1>1. TypeOK
    <2>1. NoId \in Binding
      BY DEF Binding
    <2>2. Retained \in Nat /\ Channel \in Nat /\ MaxFaults \in Nat
      BY CapacityAssumption, BoundsAssumption
    <2>3. /\ retained \in Seq(emitted) /\ Len(retained) = 0
          /\ wire \in Seq(emitted) /\ Len(wire) = 0
          /\ jobs \in Seq([todo : Seq(emitted) \ {<<>>}, window : 1..2])
          /\ DOMAIN retained = 1..0
      BY DEF Init
    <2>4. /\ emitted \subseteq Event /\ evicted \subseteq Session
          /\ link \in {"down", "up"} /\ subscribed \in BOOLEAN /\ pulled \in BOOLEAN
          /\ missed \subseteq Session
          /\ applied \subseteq Key /\ acks \subseteq applied /\ acking \subseteq applied
          /\ ended \subseteq Key
      BY DEF Init
    <2>5. row \in [Session -> {"none", "occupied", "mine"}]
      BY DEF Init
    <2>6. db \in [Session -> Binding] /\ faults \in 0..MaxFaults
      BY <2>1, <2>2 DEF Init
    <2>7. \A i, j \in DOMAIN retained : retained[i].s = retained[j].s => i = j
      BY <2>3
    <2>8. Len(retained) <= Retained /\ Len(wire) <= Channel
      BY <2>2, <2>3
    <2> QED BY <2>3, <2>4, <2>5, <2>6, <2>7, <2>8 DEF TypeOK
  <1>2. OneOfASource /\ DbIsDetected
    BY DEF Init, OneOfASource, DbIsDetected
  <1>3. BindsAreApplied
    BY DEF Init, BindsAreApplied, Binds
  <1> QED BY <1>1, <1>2, <1>3 DEF TInv

----------------------------------------------------------------------------
(* Lemmas about the operators of the model.                                *)

\* The event replaces the one of its session, or stays out, or comes last; every
\* other one keeps its place.
LEMMA KeptIs ==
  ASSUME TypeOK, NEW e \in Event
  PROVE  /\ Kept(e) \in Seq(emitted \cup {e})
         /\ Len(Kept(e)) <= Len(retained) + 1
         /\ \A i, j \in DOMAIN Kept(e) : Kept(e)[i].s = Kept(e)[j].s => i = j
         /\ \A i \in DOMAIN retained :
               /\ i \in DOMAIN Kept(e)
               /\ \/ Kept(e)[i] = retained[i]
                  \/ Kept(e)[i] = e /\ retained[i].s = e.s /\ ShouldRetain(retained[i], e)
         /\ \E i \in DOMAIN Kept(e) :
               \/ Kept(e)[i] = e
               \/ /\ i \in DOMAIN retained /\ Kept(e)[i] = retained[i]
                  /\ retained[i].s = e.s /\ ~ShouldRetain(retained[i], e)
  <1> DEFINE at == {i \in DOMAIN retained : retained[i].s = e.s}
  <1>1. /\ retained \in Seq(emitted) /\ Len(retained) \in Nat
        /\ DOMAIN retained = 1..Len(retained)
        /\ \A i, j \in DOMAIN retained : retained[i].s = retained[j].s => i = j
    BY DEF TypeOK
  <1>2. CASE at = {}
    <2>1. Kept(e) = Append(retained, e)
      BY <1>2 DEF Kept
    <2>2. Append(retained, e) \in Seq(emitted \cup {e})
      BY <1>1
    <2>3. /\ Len(Append(retained, e)) = Len(retained) + 1
          /\ DOMAIN Append(retained, e) = 1..Len(retained) + 1
          /\ \A i \in 1..Len(retained) : Append(retained, e)[i] = retained[i]
          /\ Append(retained, e)[Len(retained) + 1] = e
      BY <1>1
    <2>4. \A i \in DOMAIN retained : retained[i].s # e.s
      BY <1>2
    <2>5. ASSUME NEW i \in 1..Len(retained) + 1, NEW j \in 1..Len(retained) + 1,
                 Append(retained, e)[i].s = Append(retained, e)[j].s
          PROVE  i = j
      <3>1. CASE i = Len(retained) + 1 /\ j \in 1..Len(retained)
        BY <3>1, <2>3, <2>4, <2>5, <1>1
      <3>2. CASE j = Len(retained) + 1 /\ i \in 1..Len(retained)
        BY <3>2, <2>3, <2>4, <2>5, <1>1
      <3>3. CASE i \in 1..Len(retained) /\ j \in 1..Len(retained)
        BY <3>3, <2>3, <2>5, <1>1
      <3> QED BY <3>1, <3>2, <3>3, <1>1
    <2> QED BY <1>1, <2>1, <2>2, <2>3, <2>5
  <1>3. CASE at # {}
    <2> DEFINE a == CHOOSE i \in at : TRUE
    <2>1. a \in at
      BY <1>3
    <2>2. Kept(e) = IF ShouldRetain(retained[a], e) THEN [retained EXCEPT ![a] = e]
                    ELSE retained
      BY <1>3 DEF Kept
    <2> HIDE DEF a
    <2>3. a \in DOMAIN retained /\ retained[a].s = e.s
      BY <2>1
    <2>4. CASE ShouldRetain(retained[a], e)
      <3>1. Kept(e) = [retained EXCEPT ![a] = e]
        BY <2>2, <2>4
      <3>2. [retained EXCEPT ![a] = e] \in Seq(emitted \cup {e})
        BY <1>1, <2>3
      <3>3. /\ DOMAIN [retained EXCEPT ![a] = e] = DOMAIN retained
            /\ Len([retained EXCEPT ![a] = e]) = Len(retained)
            /\ \A i \in DOMAIN retained :
                  [retained EXCEPT ![a] = e][i] = IF i = a THEN e ELSE retained[i]
        BY <1>1, <2>3
      <3> QED BY <1>1, <2>3, <2>4, <3>1, <3>2, <3>3
    <2>5. CASE ~ShouldRetain(retained[a], e)
      <3>1. Kept(e) = retained
        BY <2>2, <2>5
      <3>2. retained \in Seq(emitted \cup {e})
        BY <1>1
      <3> QED BY <1>1, <2>3, <2>5, <3>1, <3>2
    <2> QED BY <2>4, <2>5
  <1> QED BY <1>2, <1>3

\* What the store holds after a Detect: what was kept, without the oldest if the
\* store overflows, whose session is then in evicted.
LEMMA DetectRetains ==
  ASSUME TypeOK, NEW e \in Event, Detect(e)
  PROVE  /\ retained' \in Seq(emitted') /\ Len(retained') <= Retained
         /\ \A i, j \in DOMAIN retained' : retained'[i].s = retained'[j].s => i = j
         /\ evicted' \in SUBSET Session /\ evicted \subseteq evicted'
         /\ \A i \in DOMAIN Kept(e) :
               \/ Kept(e)[i].s \in evicted'
               \/ \E k \in DOMAIN retained' : retained'[k] = Kept(e)[i]
  <1> DEFINE kept == Kept(e)
             o == Overflow(kept)
  <1>1. /\ kept \in Seq(emitted') /\ Len(kept) <= Len(retained) + 1
        /\ \A i, j \in DOMAIN kept : kept[i].s = kept[j].s => i = j
    BY KeptIs DEF Detect
  <1>2. /\ retained' = SubSeq(kept, o + 1, Len(kept))
        /\ evicted' = evicted \cup {kept[i].s : i \in 1..o}
    BY DEF Detect
  <1>3. Len(retained) <= Retained /\ Retained \in Nat /\ Len(retained) \in Nat
    BY CapacityAssumption DEF TypeOK
  <1> HIDE DEF kept
  <1>4. Len(kept) \in Nat /\ DOMAIN kept = 1..Len(kept)
    BY <1>1
  <1>5. o \in 0..1 /\ o <= Len(kept) /\ Len(kept) - o <= Retained
    <2>1. Len(kept) \in Nat /\ Len(kept) <= Retained + 1
      BY <1>1, <1>3
    <2>2. CASE Len(kept) > Retained
      BY <1>3, <2>1, <2>2 DEF Overflow
    <2>3. CASE ~(Len(kept) > Retained)
      BY <1>3, <2>1, <2>3 DEF Overflow
    <2> QED BY <2>2, <2>3
  <1> HIDE DEF o
  <1>6. /\ retained' \in Seq(emitted') /\ Len(retained') = Len(kept) - o
        /\ DOMAIN retained' = 1..Len(kept) - o
        /\ \A k \in 1..Len(kept) - o : retained'[k] = kept[k + o]
    <2>1. o + 1 \in Nat /\ Len(kept) - o \in Nat /\ o \in 0..1
      BY <1>3, <1>4, <1>5
    <2>2. \A k \in 1..Len(kept) - o : kept[k + o] \in emitted'
      BY <1>1, <1>4, <2>1
    <2> DEFINE n == Len(kept) - o
               f == [k \in 1..n |-> kept[k + o]]
    <2>3. SubSeq(kept, o + 1, Len(kept)) = f
      BY <1>1, <1>4, <1>5, <2>1
    <2>4. n \in Nat /\ \A k \in 1..n : kept[k + o] \in emitted'
      BY <2>1, <2>2
    <2>5. DOMAIN f = 1..n /\ \A k \in 1..n : f[k] = kept[k + o]
      OBVIOUS
    <2>6. f \in Seq(emitted') /\ Len(f) = n
      <3> HIDE DEF n
      <3> QED BY <2>4
    <2>7. retained' = f
      BY <1>2, <2>3
    <2> HIDE DEF f
    <2> QED BY <2>5, <2>6, <2>7
  <1>7. Len(retained') <= Retained
    BY <1>3, <1>4, <1>5, <1>6
  <1>8. ASSUME NEW i \in DOMAIN retained', NEW j \in DOMAIN retained',
               retained'[i].s = retained'[j].s
        PROVE  i = j
    <2>1. i + o \in DOMAIN kept /\ j + o \in DOMAIN kept
      BY <1>4, <1>5, <1>6
    <2>2. kept[i + o].s = kept[j + o].s
      BY <1>6, <1>8
    <2>3. i + o = j + o
      BY <1>1, <2>1, <2>2
    <2> QED BY <1>4, <1>5, <1>6, <2>3
  <1>9. evicted' \in SUBSET Session /\ evicted \subseteq evicted'
    <2>1. \A i \in 1..o : kept[i] \in Event
      <3>1. emitted' \subseteq Event
        BY DEF Detect, TypeOK
      <3>2. \A i \in 1..o : i \in DOMAIN kept
        BY <1>3, <1>4, <1>5
      <3> QED BY <1>1, <3>1, <3>2
    <2> QED BY <1>2, <2>1 DEF Event, TypeOK
  <1>10. ASSUME NEW i \in DOMAIN kept
         PROVE  \/ kept[i].s \in evicted'
                \/ \E k \in DOMAIN retained' : retained'[k] = kept[i]
    <2>1. CASE i <= o
      BY <1>2, <1>4, <2>1
    <2>2. CASE i > o
      <3>1. i - o \in 1..Len(kept) - o /\ i - o + o = i
        BY <1>4, <1>5, <2>2
      <3> QED BY <1>6, <3>1
    <2> QED BY <1>4, <1>5, <2>1, <2>2
  <1> QED BY <1>6, <1>7, <1>8, <1>9, <1>10 DEF kept

LEMMA RemoveAtIs ==
  ASSUME NEW T, NEW q \in Seq(T), NEW j \in DOMAIN q
  PROVE  /\ RemoveAt(q, j) \in Seq(T) /\ Len(RemoveAt(q, j)) = Len(q) - 1
         /\ \A i \in 1..Len(q) - 1 : RemoveAt(q, j)[i] = IF i < j THEN q[i] ELSE q[i + 1]
  <1> DEFINE a == SubSeq(q, 1, j - 1)
             b == SubSeq(q, j + 1, Len(q))
  <1>1. Len(q) \in Nat /\ j \in 1..Len(q)
    OBVIOUS
  <1>2. a \in Seq(T) /\ Len(a) = j - 1 /\ \A i \in 1..j - 1 : a[i] = q[i]
    BY <1>1
  <1>3. /\ b \in Seq(T) /\ Len(b) = Len(q) - j
        /\ \A i \in 1..Len(q) - j : b[i] = q[i + j]
    BY <1>1
  <1>4. RemoveAt(q, j) = a \o b
    BY DEF RemoveAt
  <1> HIDE DEF a, b
  <1>5. /\ a \o b \in Seq(T) /\ Len(a \o b) = Len(q) - 1
        /\ \A i \in 1..Len(q) - 1 : (a \o b)[i] = IF i <= j - 1 THEN a[i] ELSE b[i - (j - 1)]
    <2>1. a \o b \in Seq(T) /\ Len(a \o b) = Len(a) + Len(b)
      <3>1. a \in Seq(T) /\ b \in Seq(T)
        BY <1>2, <1>3
      <3> QED BY <3>1
    <2>2. Len(a) + Len(b) = Len(q) - 1
      BY <1>1, <1>2, <1>3
    <2>3. \A i \in 1..Len(a) + Len(b) : (a \o b)[i] = IF i <= Len(a) THEN a[i] ELSE b[i - Len(a)]
      BY <1>2, <1>3
    <2>4. Len(a) = j - 1
      BY <1>2
    <2> HIDE DEF a, b
    <2> QED BY <2>1, <2>2, <2>3, <2>4
  <1>6. ASSUME NEW i \in 1..Len(q) - 1
        PROVE  (a \o b)[i] = IF i < j THEN q[i] ELSE q[i + 1]
    <2>1. CASE i < j
      BY <1>1, <1>2, <1>5, <2>1
    <2>2. CASE ~(i < j)
      <3>1. i - (j - 1) \in 1..Len(q) - j /\ i - (j - 1) + j = i + 1
        BY <1>1, <2>2
      <3>2. (a \o b)[i] = b[i - (j - 1)]
        BY <1>1, <1>5, <2>2
      <3>3. b[i - (j - 1)] = q[i - (j - 1) + j]
        BY <1>3, <3>1
      <3> QED BY <2>2, <3>1, <3>2, <3>3
    <2> QED BY <2>1, <2>2
  <1> QED BY <1>4, <1>5, <1>6

LEMMA JobsGrow ==
  ASSUME NEW S, NEW T, S \subseteq T, NEW js \in Seq(Job(S))
  PROVE  js \in Seq(Job(T))
  <1>1. Job(S) \subseteq Job(T)
    <2>1. Seq(S) \subseteq Seq(T)
      OBVIOUS
    <2> QED BY <2>1 DEF Job
  <1> QED BY <1>1

\* A task more binds what it has in hand as well.
LEMMA JobAdded ==
  ASSUME NEW S, NEW js \in Seq(Job(S)), NEW t \in Seq(S), t # <<>>
  PROVE  LET more == Append(js, [todo |-> t, window |-> 1]) IN
         /\ more \in Seq(Job(S)) /\ more # <<>>
         /\ \A k : Binds(more, k) <=> Binds(js, k) \/ \E i \in DOMAIN t : KeyOf(t[i]) = k
  <1> DEFINE job == [todo |-> t, window |-> 1]
             more == Append(js, job)
  <1>1. job \in Job(S) /\ job.todo = t
    BY DEF Job
  <1> HIDE DEF job
  <1>2. /\ more \in Seq(Job(S)) /\ Len(js) \in Nat /\ DOMAIN js = 1..Len(js)
        /\ DOMAIN more = 1..Len(js) + 1 /\ more # <<>>
        /\ \A j \in 1..Len(js) : more[j] = js[j]
        /\ more[Len(js) + 1] = job
    BY <1>1
  <1> HIDE DEF more
  <1>3. ASSUME NEW k
        PROVE  Binds(more, k) <=> Binds(js, k) \/ \E i \in DOMAIN t : KeyOf(t[i]) = k
    <2>1. ASSUME Binds(more, k)
          PROVE  Binds(js, k) \/ \E i \in DOMAIN t : KeyOf(t[i]) = k
      <3>1. PICK j \in DOMAIN more : \E i \in DOMAIN more[j].todo : KeyOf(more[j].todo[i]) = k
        BY <2>1 DEF Binds
      <3>2. CASE j = Len(js) + 1
        BY <1>1, <1>2, <3>1, <3>2
      <3>3. CASE j \in 1..Len(js)
        BY <1>2, <3>1, <3>3 DEF Binds
      <3> QED BY <1>2, <3>1, <3>2, <3>3
    <2>2. ASSUME Binds(js, k)
          PROVE  Binds(more, k)
      <3>1. PICK j \in DOMAIN js : \E i \in DOMAIN js[j].todo : KeyOf(js[j].todo[i]) = k
        BY <2>2 DEF Binds
      <3>2. j \in DOMAIN more /\ more[j] = js[j]
        BY <1>2
      <3> QED BY <3>1, <3>2 DEF Binds
    <2>3. ASSUME \E i \in DOMAIN t : KeyOf(t[i]) = k
          PROVE  Binds(more, k)
      <3>1. Len(js) + 1 \in DOMAIN more /\ more[Len(js) + 1].todo = t
        BY <1>1, <1>2
      <3> QED BY <2>3, <3>1 DEF Binds
    <2> QED BY <2>1, <2>2, <2>3
  <1> QED BY <1>2, <1>3 DEF more, job

\* When the bind of an event has ended, its task binds the rest; every other
\* event is in hand as before.
LEMMA EndsIs ==
  ASSUME TypeOK, NEW j \in DOMAIN jobs, Ends(j)
  PROVE  LET e == Head(jobs[j].todo) IN
         /\ e \in emitted /\ Binds(jobs, KeyOf(e))
         /\ jobs' \in Seq(Job(emitted))
         /\ \A k : Binds(jobs', k) => Binds(jobs, k)
         /\ \A k : Binds(jobs, k) => k = KeyOf(e) \/ Binds(jobs', k)
         /\ jobs = <<>> => jobs' = <<>>
  <1> DEFINE t == jobs[j].todo
             e == Head(t)
  <1>1. jobs \in Seq(Job(emitted)) /\ Len(jobs) \in Nat /\ DOMAIN jobs = 1..Len(jobs)
    BY DEF TypeOK, Job
  <1>2. t \in Seq(emitted) /\ t # <<>>
    <2>1. jobs[j] \in Job(emitted)
      BY <1>1
    <2> QED BY <2>1 DEF Job
  <1> HIDE DEF t
  <1>3. /\ Len(t) \in Nat /\ Len(t) >= 1 /\ DOMAIN t = 1..Len(t) /\ e = t[1] /\ 1 \in DOMAIN t
        /\ e \in emitted
    BY <1>2
  <1> HIDE DEF e
  <1>4. Binds(jobs, KeyOf(e))
    BY <1>3 DEF Binds, t
  <1>5. jobs # <<>>
    BY <1>1
  <1>6. CASE Len(t) = 1
    <2>1. jobs' = RemoveAt(jobs, j)
      BY <1>6 DEF Ends, t
    <2>2. /\ jobs' \in Seq(Job(emitted)) /\ DOMAIN jobs' = 1..Len(jobs) - 1
          /\ \A i \in 1..Len(jobs) - 1 : jobs'[i] = IF i < j THEN jobs[i] ELSE jobs[i + 1]
      <3>1. /\ RemoveAt(jobs, j) \in Seq(Job(emitted))
            /\ Len(RemoveAt(jobs, j)) = Len(jobs) - 1
            /\ \A i \in 1..Len(jobs) - 1 :
                  RemoveAt(jobs, j)[i] = IF i < j THEN jobs[i] ELSE jobs[i + 1]
        BY <1>1, RemoveAtIs
      <3> QED BY <2>1, <3>1
    <2>3. ASSUME NEW k, Binds(jobs', k)
          PROVE  Binds(jobs, k)
      <3>1. PICK l \in DOMAIN jobs' : \E i \in DOMAIN jobs'[l].todo : KeyOf(jobs'[l].todo[i]) = k
        BY <2>3 DEF Binds
      <3>2. \E m \in DOMAIN jobs : jobs[m] = jobs'[l]
        <4>1. CASE l < j
          BY <1>1, <2>2, <4>1
        <4>2. CASE ~(l < j)
          <5>1. l + 1 \in DOMAIN jobs /\ jobs[l + 1] = jobs'[l]
            BY <1>1, <2>2, <4>2
          <5> QED BY <5>1
        <4> QED BY <4>1, <4>2
      <3> QED BY <3>1, <3>2 DEF Binds
    <2>4. ASSUME NEW k, Binds(jobs, k), k # KeyOf(e)
          PROVE  Binds(jobs', k)
      <3>1. PICK l \in DOMAIN jobs : \E i \in DOMAIN jobs[l].todo : KeyOf(jobs[l].todo[i]) = k
        BY <2>4 DEF Binds
      <3>2. l # j
        BY <1>3, <1>6, <2>4, <3>1 DEF t
      <3>3. \E m \in DOMAIN jobs' : jobs'[m] = jobs[l]
        <4>1. CASE l < j
          BY <1>1, <2>2, <4>1
        <4>2. CASE ~(l < j)
          <5>1. l - 1 \in 1..Len(jobs) - 1 /\ ~(l - 1 < j) /\ l - 1 + 1 = l
            BY <1>1, <3>2, <4>2
          <5> QED BY <2>2, <5>1
        <4> QED BY <4>1, <4>2
      <3> QED BY <3>1, <3>3 DEF Binds
    <2> QED BY <1>3, <1>4, <1>5, <2>2, <2>3, <2>4 DEF e, t
  <1>7. CASE Len(t) # 1
    <2> DEFINE rest == [todo |-> Tail(t), window |-> 1]
    <2>1. /\ Tail(t) \in Seq(emitted) /\ DOMAIN Tail(t) = 1..Len(t) - 1 /\ Tail(t) # <<>>
          /\ \A i \in 1..Len(t) - 1 : Tail(t)[i] = t[i + 1]
      <3>1. Tail(t) \in Seq(emitted) /\ Len(Tail(t)) = Len(t) - 1
        BY <1>2
      <3>2. \A i \in 1..Len(t) - 1 : Tail(t)[i] = t[i + 1]
        BY <1>2, <1>3
      <3>3. DOMAIN Tail(t) = 1..Len(t) - 1
        BY <3>1
      <3>4. Len(Tail(t)) # 0
        BY <1>3, <1>7, <3>1
      <3>5. ASSUME Tail(t) = <<>>
            PROVE  FALSE
        <4>1. Len(<<>>) = 0
          OBVIOUS
        <4> QED BY <3>4, <3>5, <4>1
      <3> QED BY <3>1, <3>2, <3>3, <3>5
    <2>2. rest \in Job(emitted) /\ rest.todo = Tail(t)
      BY <2>1 DEF Job
    <2>3. jobs' = [jobs EXCEPT ![j] = rest]
      BY <1>7 DEF Ends, t
    <2> HIDE DEF rest
    <2>4. /\ jobs' \in Seq(Job(emitted)) /\ DOMAIN jobs' = DOMAIN jobs
          /\ \A l \in DOMAIN jobs : jobs'[l] = IF l = j THEN rest ELSE jobs[l]
      BY <1>1, <2>2, <2>3
    <2>5. ASSUME NEW k, Binds(jobs', k)
          PROVE  Binds(jobs, k)
      <3>1. PICK l \in DOMAIN jobs' : \E i \in DOMAIN jobs'[l].todo : KeyOf(jobs'[l].todo[i]) = k
        BY <2>5 DEF Binds
      <3>2. CASE l = j
        <4>1. PICK i \in 1..Len(t) - 1 : KeyOf(Tail(t)[i]) = k
          BY <2>1, <2>2, <2>4, <3>1, <3>2
        <4>2. i + 1 \in DOMAIN t /\ KeyOf(t[i + 1]) = k
          BY <1>3, <2>1, <4>1
        <4> QED BY <4>2 DEF Binds, t
      <3>3. CASE l # j
        BY <2>4, <3>1, <3>3 DEF Binds
      <3> QED BY <3>2, <3>3
    <2>6. ASSUME NEW k, Binds(jobs, k), k # KeyOf(e)
          PROVE  Binds(jobs', k)
      <3>1. PICK l \in DOMAIN jobs : \E i \in DOMAIN jobs[l].todo : KeyOf(jobs[l].todo[i]) = k
        BY <2>6 DEF Binds
      <3>2. CASE l = j
        <4>1. PICK i \in DOMAIN t : KeyOf(t[i]) = k
          BY <3>1, <3>2 DEF t
        <4>2. i # 1
          BY <1>3, <2>6, <4>1
        <4>3. i - 1 \in 1..Len(t) - 1 /\ Tail(t)[i - 1] = t[i]
          <5>1. i - 1 \in 1..Len(t) - 1 /\ i - 1 + 1 = i
            BY <1>3, <4>2
          <5> QED BY <2>1, <5>1
        <4>4. jobs'[j].todo = Tail(t)
          BY <2>2, <2>4
        <4> QED BY <2>1, <2>4, <4>1, <4>3, <4>4 DEF Binds
      <3>3. CASE l # j
        BY <2>4, <3>1, <3>3 DEF Binds
      <3> QED BY <3>2, <3>3
    <2> QED BY <1>3, <1>4, <1>5, <2>4, <2>5, <2>6 DEF e, t
  <1> QED BY <1>6, <1>7

----------------------------------------------------------------------------
(* TInv: each action keeps the types and what the tasks and the rows hold. *)

LEMMA DetectKeepsTInv ==
  ASSUME TInv, NEW e \in Event, Detect(e)
  PROVE  TInv'
  <1> USE DEF TInv
  <1>1. emitted' = emitted \cup {e} /\ emitted \subseteq emitted' /\ emitted' \subseteq Event
    BY DEF Detect, TypeOK
  <1>2. UNCHANGED <<link, subscribed, pulled, acking, applied, jobs, acks, ended, row, db, faults>>
    BY DEF Detect, desktop, store
  <1>3. wire' \in Seq(emitted') /\ Len(wire') <= Channel
    <2>1. wire \in Seq(emitted') /\ Len(wire) \in Nat /\ Len(wire) <= Channel
      BY <1>1 DEF TypeOK
    <2>2. CASE subscribed /\ Len(wire) < Channel
      <3>1. wire' = Append(wire, e) /\ e \in emitted'
        BY <1>1, <2>2 DEF Detect
      <3> QED BY <2>1, <2>2, <3>1, CapacityAssumption
    <2>3. CASE ~(subscribed /\ Len(wire) < Channel)
      BY <2>1, <2>3 DEF Detect
    <2> QED BY <2>2, <2>3
  <1>4. missed' \subseteq Session
    BY DEF Detect, TypeOK, Event
  <1>5. jobs' \in Seq([todo : Seq(emitted') \ {<<>>}, window : 1..2])
    <2>1. jobs \in Seq(Job(emitted'))
      BY <1>1, JobsGrow DEF TypeOK, Job
    <2> QED BY <1>2, <2>1 DEF Job
  <1>6. TypeOK'
    <2>1. /\ retained' \in Seq(emitted') /\ Len(retained') <= Retained
          /\ \A i, j \in DOMAIN retained' : retained'[i].s = retained'[j].s => i = j
          /\ evicted' \subseteq Session
      BY DetectRetains
    <2> QED BY <1>1, <1>2, <1>3, <1>4, <1>5, <2>1, Zenon DEF TypeOK
  <1>7. OneOfASource'
    <2>1. \A f \in emitted : ~(f.s = e.s /\ f.source = e.source)
      BY DEF Detect, Detected
    <2> QED BY <1>1, <2>1 DEF OneOfASource
  <1>8. DbIsDetected'
    <2>1. \A s \in Session : Detected(s) \subseteq Detected(s)'
      BY <1>1 DEF Detected
    <2> QED BY <1>2, <2>1 DEF DbIsDetected
  <1>9. BindsAreApplied'
    BY <1>2 DEF BindsAreApplied, Binds
  <1> QED BY <1>6, <1>7, <1>8, <1>9

\* What leaves the tasks, the rows and the events alone keeps what is said of them.
LEMMA FrameKeepsTInv ==
  ASSUME TInv, UNCHANGED <<emitted, jobs, db>>, applied \subseteq applied', TypeOK'
  PROVE  TInv'
  <1>1. OneOfASource'
    BY DEF TInv, OneOfASource
  <1>2. DbIsDetected'
    BY DEF TInv, DbIsDetected, Detected
  <1>3. BindsAreApplied'
    BY DEF TInv, BindsAreApplied, Binds
  <1> QED BY <1>1, <1>2, <1>3 DEF TInv

LEMMA AckArrivesKeepsTInv ==
  ASSUME TInv, AckArrives
  PROVE  TInv'
  <1>1. /\ retained' = Only(retained, {i \in DOMAIN retained : KeyOf(retained[i]) \notin acking})
        /\ acking' = {}
        /\ UNCHANGED <<emitted, evicted, link, subscribed, pulled, missed, wire, applied, jobs,
                       acks, ended, row, db, faults>>
    BY DEF AckArrives, desktop, store
  <1>2. /\ retained' \in Seq(emitted) /\ Len(retained') <= Retained
        /\ \A i, j \in DOMAIN retained' : retained'[i].s = retained'[j].s => i = j
    <2> DEFINE I == {i \in DOMAIN retained : KeyOf(retained[i]) \notin acking}
    <2>1. I \in SUBSET (DOMAIN retained) /\ retained \in Seq(emitted)
      BY DEF TInv, TypeOK
    <2>2. retained' = Only(retained, I)
      BY <1>1
    <2> HIDE DEF I
    <2>3. /\ retained' \in Seq(emitted) /\ Len(retained') <= Len(retained)
          /\ \A k \in DOMAIN retained' : Nth(I, k) \in I /\ retained'[k] = retained[Nth(I, k)]
          /\ \A k, l \in DOMAIN retained' : Nth(I, k) = Nth(I, l) => k = l
      BY <2>1, <2>2, OnlyIs
    <2>4. Len(retained') <= Retained
      <3>1. /\ Len(retained) <= Retained /\ Len(retained) \in Nat /\ Len(retained') \in Nat
            /\ Retained \in Nat
        BY <2>1, <2>3, CapacityAssumption DEF TInv, TypeOK
      <3> QED BY <2>3, <3>1
    <2>5. ASSUME NEW k \in DOMAIN retained', NEW l \in DOMAIN retained',
                 retained'[k].s = retained'[l].s
          PROVE  k = l
      <3>1. /\ Nth(I, k) \in DOMAIN retained /\ Nth(I, l) \in DOMAIN retained
            /\ retained[Nth(I, k)].s = retained[Nth(I, l)].s
        BY <2>1, <2>3, <2>5
      <3>2. Nth(I, k) = Nth(I, l)
        BY <3>1 DEF TInv, TypeOK
      <3> QED BY <2>3, <3>2
    <2> QED BY <2>3, <2>4, <2>5
  <1>3. TypeOK'
    BY <1>1, <1>2, Zenon DEF TInv, TypeOK
  <1> QED BY <1>1, <1>3, FrameKeepsTInv

\* What a pull hands to its task.
LEMMA PullIs ==
  ASSUME TypeOK, Pull
  PROVE  \E fresh \in Seq(emitted) :
            /\ applied' = applied \cup {KeyOf(fresh[i]) : i \in DOMAIN fresh}
            /\ jobs' = IF fresh = <<>> THEN jobs
                       ELSE Append(jobs, [todo |-> fresh, window |-> 1])
  <1> DEFINE I == {i \in DOMAIN retained : KeyOf(retained[i]) \notin applied}
  <1>1. I \in SUBSET (DOMAIN retained) /\ retained \in Seq(emitted)
    BY DEF TypeOK
  <1> HIDE DEF I
  <1>2. Only(retained, I) \in Seq(emitted)
    BY <1>1, OnlyIs
  <1> QED BY <1>2 DEF Pull, I

\* A Pull or a Receive: what a task takes in hand enters applied_identity first.
LEMMA TaskKeepsTInv ==
  ASSUME TInv, NEW t \in Seq(emitted), TypeOK',
         applied' = applied \cup {KeyOf(t[i]) : i \in DOMAIN t},
         jobs' = IF t = <<>> THEN jobs ELSE Append(jobs, [todo |-> t, window |-> 1]),
         UNCHANGED <<emitted, db>>
  PROVE  TInv'
  <1>1. \A k : Binds(jobs', k) => Binds(jobs, k) \/ \E i \in DOMAIN t : KeyOf(t[i]) = k
    <2>1. jobs \in Seq(Job(emitted))
      BY DEF TInv, TypeOK, Job
    <2>2. CASE t = <<>>
      BY <2>2
    <2>3. CASE t # <<>>
      BY <2>1, <2>3, JobAdded
    <2> QED BY <2>2, <2>3
  <1>2. BindsAreApplied'
    BY <1>1 DEF TInv, BindsAreApplied
  <1>3. OneOfASource' /\ DbIsDetected'
    BY DEF TInv, OneOfASource, DbIsDetected, Detected
  <1> QED BY <1>2, <1>3 DEF TInv

LEMMA TaskTypes ==
  ASSUME TypeOK, NEW t \in Seq(emitted),
         applied' = applied \cup {KeyOf(t[i]) : i \in DOMAIN t},
         jobs' = IF t = <<>> THEN jobs ELSE Append(jobs, [todo |-> t, window |-> 1])
  PROVE  /\ applied' \subseteq Key /\ applied \subseteq applied'
         /\ jobs' \in Seq([todo : Seq(emitted) \ {<<>>}, window : 1..2])
  <1>1. \A i \in DOMAIN t : KeyOf(t[i]) \in Key
    <2>1. \A i \in DOMAIN t : t[i] \in Event
      BY DEF TypeOK
    <2> QED BY <2>1 DEF Event, KeyOf, Key
  <1>2. applied' \subseteq Key
    BY <1>1 DEF TypeOK
  <1>3. jobs' \in Seq(Job(emitted))
    <2>1. jobs \in Seq(Job(emitted))
      BY DEF TypeOK, Job
    <2>2. CASE t # <<>>
      BY <2>1, <2>2, JobAdded
    <2> QED BY <2>1, <2>2
  <1> QED BY <1>2, <1>3 DEF Job

LEMMA PullKeepsTInv ==
  ASSUME TInv, Pull
  PROVE  TInv'
  <1>1. PICK t \in Seq(emitted) :
           /\ applied' = applied \cup {KeyOf(t[i]) : i \in DOMAIN t}
           /\ jobs' = IF t = <<>> THEN jobs ELSE Append(jobs, [todo |-> t, window |-> 1])
    BY PullIs DEF TInv
  <1>2. /\ applied' \subseteq Key /\ applied \subseteq applied'
        /\ jobs' \in Seq([todo : Seq(emitted) \ {<<>>}, window : 1..2])
    BY <1>1, TaskTypes DEF TInv
  <1>3. /\ pulled' = TRUE /\ acks' \subseteq acks \cup applied
        /\ UNCHANGED <<emitted, retained, evicted, link, subscribed, missed, wire, acking,
                       ended, row, db, faults>>
    BY DEF Pull, daemon, store
  <1>4. acks' \subseteq applied' /\ acking' \subseteq applied'
    BY <1>2, <1>3 DEF TInv, TypeOK
  <1>5. TypeOK'
    BY <1>2, <1>3, <1>4 DEF TInv, TypeOK
  <1> QED BY <1>1, <1>3, <1>5, TaskKeepsTInv

LEMMA ReceiveKeepsTInv ==
  ASSUME TInv, Receive
  PROVE  TInv'
  <1> DEFINE t == <<Head(wire)>>
  <1>1. /\ wire \in Seq(emitted) /\ wire # <<>> /\ wire' = Tail(wire)
        /\ UNCHANGED <<emitted, retained, evicted, link, subscribed, pulled, missed, acking,
                       acks, ended, row, db, faults>>
    BY DEF Receive, TInv, TypeOK, daemon, store
  <1>2. t \in Seq(emitted) /\ t # <<>> /\ DOMAIN t = {1} /\ t[1] = Head(wire)
    BY <1>1
  <1>3. /\ applied' = applied \cup {KeyOf(t[i]) : i \in DOMAIN t}
        /\ jobs' = IF t = <<>> THEN jobs ELSE Append(jobs, [todo |-> t, window |-> 1])
    BY <1>2 DEF Receive
  <1> HIDE DEF t
  <1>4. /\ applied' \subseteq Key /\ applied \subseteq applied'
        /\ jobs' \in Seq([todo : Seq(emitted) \ {<<>>}, window : 1..2])
    BY <1>2, <1>3, TaskTypes DEF TInv
  <1>5. wire' \in Seq(emitted) /\ Len(wire') <= Channel
    <2>1. Tail(wire) \in Seq(emitted) /\ Len(Tail(wire)) = Len(wire) - 1
      BY <1>1
    <2>2. Len(wire) \in Nat /\ Len(wire) <= Channel /\ Channel \in Nat
      BY <1>1, CapacityAssumption DEF TInv, TypeOK
    <2> QED BY <1>1, <2>1, <2>2
  <1>6. acks' \subseteq applied' /\ acking' \subseteq applied'
    BY <1>1, <1>4 DEF TInv, TypeOK
  <1>7. TypeOK'
    BY <1>1, <1>4, <1>5, <1>6 DEF TInv, TypeOK
  <1> QED BY <1>1, <1>2, <1>3, <1>7, TaskKeepsTInv

LEMMA LinkKeepsTInv ==
  ASSUME TInv, Subscribe \/ Connect \/ PullFails \/ SendAcks \/ Break
  PROVE  TInv'
  <1>1. CASE Subscribe
    <2>1. TypeOK'
      BY <1>1 DEF Subscribe, daemon, desktop, store, TInv, TypeOK
    <2> QED BY <1>1, <2>1, FrameKeepsTInv DEF Subscribe, daemon, desktop, store
  <1>2. CASE Connect
    <2>1. TypeOK'
      BY <1>2 DEF Connect, daemon, desktop, store, TInv, TypeOK
    <2> QED BY <1>2, <2>1, FrameKeepsTInv DEF Connect, daemon, desktop, store
  <1>3. CASE PullFails
    <2>1. faults' \in 0..MaxFaults
      BY <1>3, BoundsAssumption DEF PullFails, Fault, TInv, TypeOK
    <2>2. TypeOK'
      BY <1>3, <2>1 DEF PullFails, daemon, desktop, store, TInv, TypeOK
    <2> QED BY <1>3, <2>2, FrameKeepsTInv DEF PullFails, daemon, desktop, store
  <1>4. CASE SendAcks
    <2>1. TypeOK'
      BY <1>4 DEF SendAcks, daemon, store, TInv, TypeOK
    <2> QED BY <1>4, <2>1, FrameKeepsTInv DEF SendAcks, daemon, store
  <1>5. CASE Break
    <2>1. faults' \in 0..MaxFaults
      BY <1>5, BoundsAssumption DEF Break, Fault, TInv, TypeOK
    <2>2. wire' \in Seq(emitted) /\ Len(wire') <= Channel
      BY <1>5, CapacityAssumption DEF Break, Down
    <2>3. TypeOK'
      BY <1>5, <2>1, <2>2 DEF Break, Down, daemon, desktop, store, TInv, TypeOK
    <2> QED BY <1>5, <2>3, FrameKeepsTInv DEF Break, daemon, desktop, store
  <1> QED BY <1>1, <1>2, <1>3, <1>4, <1>5

LEMMA RestartKeepsTInv ==
  ASSUME TInv, Restart
  PROVE  TInv'
  <1>1. /\ faults' \in 0..MaxFaults
        /\ wire' \in Seq(emitted) /\ Len(wire') <= Channel
        /\ jobs' \in Seq([todo : Seq(emitted) \ {<<>>}, window : 1..2])
    BY BoundsAssumption, CapacityAssumption DEF Restart, Down, Fault, TInv, TypeOK
  <1>2. TypeOK'
    BY <1>1 DEF Restart, Down, daemon, store, TInv, TypeOK
  <1>3. OneOfASource' /\ DbIsDetected'
    BY DEF Restart, daemon, store, TInv, OneOfASource, DbIsDetected, Detected
  <1>4. BindsAreApplied'
    BY DEF Restart, BindsAreApplied, Binds
  <1> QED BY <1>2, <1>3, <1>4 DEF TInv

LEMMA RowAddedKeepsTInv ==
  ASSUME TInv, NEW s \in Session, RowAdded(s)
  PROVE  TInv'
  <1>1. row' \in [Session -> {"none", "occupied", "mine"}]
    BY DEF RowAdded, TInv, TypeOK
  <1>2. TypeOK'
    BY <1>1 DEF RowAdded, daemon, connection, desktop, TInv, TypeOK
  <1> QED BY <1>2, FrameKeepsTInv DEF RowAdded, daemon, desktop

\* The end of a bind: what stays in hand is typed, and the acknowledged key was applied.
LEMMA EndsTypes ==
  ASSUME TInv, NEW j \in DOMAIN jobs, Ends(j), UNCHANGED applied
  PROVE  LET e == Head(jobs[j].todo) IN
         /\ e \in Detected(e.s) /\ e.s \in Session
         /\ [id |-> e.id, source |-> e.source] \in Binding
         /\ jobs' \in Seq([todo : Seq(emitted) \ {<<>>}, window : 1..2])
         /\ acks' \subseteq applied /\ ended' \subseteq Key
         /\ BindsAreApplied'
  <1> DEFINE e == Head(jobs[j].todo)
  <1>1. /\ e \in emitted /\ Binds(jobs, KeyOf(e)) /\ jobs' \in Seq(Job(emitted))
        /\ \A k : Binds(jobs', k) => Binds(jobs, k)
    BY EndsIs DEF TInv
  <1>2. acks' = acks \cup {KeyOf(e)} /\ ended' = ended \cup {KeyOf(e)}
    BY DEF Ends
  <1> HIDE DEF e
  <1>3. e \in Event
    BY <1>1 DEF TInv, TypeOK
  <1>4. /\ e \in Detected(e.s) /\ e.s \in Session /\ KeyOf(e) \in Key
        /\ [id |-> e.id, source |-> e.source] \in Binding
    BY <1>1, <1>3 DEF Detected, Event, KeyOf, Key, Binding
  <1>5. KeyOf(e) \in applied
    BY <1>1 DEF TInv, BindsAreApplied
  <1>6. acks' \subseteq applied /\ ended' \subseteq Key
    BY <1>2, <1>4, <1>5 DEF TInv, TypeOK
  <1>7. BindsAreApplied'
    BY <1>1 DEF TInv, BindsAreApplied
  <1> QED BY <1>1, <1>4, <1>6, <1>7 DEF e, Job

\* What the transaction selects is what the row held or the event it binds.
LEMMA SelectedIs ==
  ASSUME NEW s, NEW e
  PROVE  Selected(s, e) \in {db[s], [id |-> e.id, source |-> e.source]}
  BY DEF Selected

\* A bind that writes the row of its session.
LEMMA WriteKeepsTInv ==
  ASSUME TInv, NEW j \in DOMAIN jobs, Ends(j),
         db' = [db EXCEPT ![Head(jobs[j].todo).s] = Selected(Head(jobs[j].todo).s, Head(jobs[j].todo))],
         row' \in [Session -> {"none", "occupied", "mine"}],
         UNCHANGED <<daemon, connection, applied, faults>>
  PROVE  TInv'
  <1> DEFINE e == Head(jobs[j].todo)
             b == [id |-> e.id, source |-> e.source]
  <1>1. /\ e \in Detected(e.s) /\ e.s \in Session /\ b \in Binding
        /\ jobs' \in Seq([todo : Seq(emitted) \ {<<>>}, window : 1..2])
        /\ acks' \subseteq applied /\ ended' \subseteq Key /\ BindsAreApplied'
    BY EndsTypes
  <1>2. Selected(e.s, e) \in {db[e.s], b}
    BY SelectedIs
  <1>3. db' = [db EXCEPT ![e.s] = Selected(e.s, e)] /\ db \in [Session -> Binding]
    BY DEF TInv, TypeOK
  <1> HIDE DEF e, b
  <1>4. \A s \in Session : db'[s] = db[s] \/ (s = e.s /\ db'[s] = b)
    <2>1. \A s \in Session : db'[s] = IF s = e.s THEN Selected(e.s, e) ELSE db[s]
      BY <1>3
    <2> QED BY <1>2, <2>1
  <1>5. db' \in [Session -> Binding]
    <2>1. db[e.s] \in Binding
      BY <1>1, <1>3
    <2>2. Selected(e.s, e) \in Binding
      BY <1>1, <1>2, <2>1
    <2> QED BY <1>3, <2>2
  <1>6. TypeOK'
    BY <1>1, <1>5 DEF daemon, connection, TInv, TypeOK
  <1>7. DbIsDetected'
    <2>1. ASSUME NEW s \in Session
          PROVE  \/ db'[s] = NoId
                 \/ \E f \in Detected(s)' : db'[s] = [id |-> f.id, source |-> f.source]
      <3>1. Detected(s)' = Detected(s)
        BY DEF daemon, Detected
      <3>2. CASE db'[s] = db[s]
        BY <3>1, <3>2 DEF TInv, DbIsDetected
      <3>3. CASE s = e.s /\ db'[s] = b
        BY <1>1, <3>1, <3>3 DEF b
      <3> QED BY <1>4, <3>2, <3>3
    <2> QED BY <2>1 DEF DbIsDetected
  <1>8. OneOfASource'
    BY DEF daemon, TInv, OneOfASource
  <1> QED BY <1>1, <1>6, <1>7, <1>8 DEF TInv

LEMMA BindKeepsTInv ==
  ASSUME TInv, NEW j \in DOMAIN jobs, Bind(j)
  PROVE  TInv'
  <1> DEFINE e == Head(jobs[j].todo)
  <1>1. CASE BindByPty(j)
    BY <1>1, WriteKeepsTInv DEF BindByPty, TInv, TypeOK
  <1>2. CASE UpsertMissing(j)
    <2>1. row' \in [Session -> {"none", "occupied", "mine"}]
      BY <1>2 DEF UpsertMissing, TInv, TypeOK
    <2> QED BY <1>2, <2>1, WriteKeepsTInv DEF UpsertMissing
  <1>3. CASE SecondWindow(j)
    <2>1. /\ jobs' = [jobs EXCEPT ![j].window = 2]
          /\ UNCHANGED <<daemon, connection, applied, acks, store, faults>>
      BY <1>3 DEF SecondWindow
    <2>2. jobs \in Seq(Job(emitted)) /\ jobs[j] \in Job(emitted)
      <3>1. jobs \in Seq(Job(emitted))
        BY DEF TInv, TypeOK, Job
      <3> QED BY <3>1
    <2>3. [jobs[j] EXCEPT !.window = 2] \in Job(emitted)
      <3>1. /\ jobs[j].todo \in Seq(emitted) \ {<<>>}
            /\ [jobs[j] EXCEPT !.window = 2] = [todo |-> jobs[j].todo, window |-> 2]
        BY <2>2 DEF Job
      <3> QED BY <3>1 DEF Job
    <2>4. /\ jobs' \in Seq(Job(emitted)) /\ DOMAIN jobs' = DOMAIN jobs
          /\ \A l \in DOMAIN jobs : jobs'[l].todo = jobs[l].todo
      <3>1. jobs' = [jobs EXCEPT ![j] = [jobs[j] EXCEPT !.window = 2]]
        BY <2>1
      <3>2. [jobs[j] EXCEPT !.window = 2].todo = jobs[j].todo
        BY <2>2 DEF Job
      <3> QED BY <2>2, <2>3, <3>1, <3>2
    <2>5. TypeOK'
      BY <2>1, <2>4 DEF daemon, connection, store, TInv, TypeOK, Job
    <2>6. BindsAreApplied'
      BY <2>1, <2>4 DEF TInv, BindsAreApplied, Binds
    <2>7. OneOfASource' /\ DbIsDetected'
      BY <2>1 DEF daemon, store, TInv, OneOfASource, DbIsDetected, Detected
    <2> QED BY <2>5, <2>6, <2>7 DEF TInv
  <1>4. CASE GiveUp(j)
    <2>1. Ends(j) /\ UNCHANGED <<daemon, connection, applied, row, db, faults>>
      BY <1>4 DEF GiveUp
    <2>2. /\ jobs' \in Seq([todo : Seq(emitted) \ {<<>>}, window : 1..2])
          /\ acks' \subseteq applied /\ ended' \subseteq Key /\ BindsAreApplied'
      BY <2>1, EndsTypes
    <2>3. TypeOK'
      BY <2>1, <2>2 DEF daemon, connection, TInv, TypeOK
    <2>4. OneOfASource' /\ DbIsDetected'
      BY <2>1 DEF daemon, TInv, OneOfASource, DbIsDetected, Detected
    <2> QED BY <2>2, <2>3, <2>4 DEF TInv
  <1> QED BY <1>1, <1>2, <1>3, <1>4 DEF Bind

LEMMA NextTInv == TInv /\ [Next]_vars => TInv'
  <1> SUFFICES ASSUME TInv, [Next]_vars
               PROVE  TInv'
    OBVIOUS
  <1>1. CASE \E e \in Event : Detect(e)
    BY <1>1, DetectKeepsTInv
  <1>2. CASE Subscribe \/ Connect \/ PullFails \/ SendAcks \/ Break
    BY <1>2, LinkKeepsTInv
  <1>3. CASE AckArrives
    BY <1>3, AckArrivesKeepsTInv
  <1>4. CASE Pull
    BY <1>4, PullKeepsTInv
  <1>5. CASE Receive
    BY <1>5, ReceiveKeepsTInv
  <1>6. CASE Restart
    BY <1>6, RestartKeepsTInv
  <1>7. CASE \E s \in Session : RowAdded(s)
    BY <1>7, RowAddedKeepsTInv
  <1>8. CASE SomeBind
    BY <1>8, BindKeepsTInv DEF SomeBind
  <1>9. CASE UNCHANGED vars
    <2>1. TypeOK'
      BY <1>9, Zenon DEF vars, TInv, TypeOK
    <2> QED BY <1>9, <2>1, FrameKeepsTInv DEF vars
  <1> QED BY <1>1, <1>2, <1>3, <1>4, <1>5, <1>6, <1>7, <1>8, <1>9 DEF Next

\* Spec keeps TInv.
LEMMA TInvariance == Spec => []TInv
  BY InitTInv, NextTInv, PTL DEF Spec

\* The types of the identities; the store holds one event of a session, and no
\* more than it may; what is acknowledged was applied.
THEOREM IdentityTypes == Spec => []TypeOK
  <1>1. TInv => TypeOK
    BY DEF TInv
  <1> QED BY <1>1, TInvariance, PTL

----------------------------------------------------------------------------
(* Which binding a row keeps.                                              *)

LEMMA PriorityIs ==
  Priority("title") = 30 /\ Priority("scan") = 10 /\ Priority("none") = 0
  BY DEF Priority

\* A step leaves a row alone or writes an event that the selection prefers.
LEMMA DbStep ==
  ASSUME TInv, [Next]_vars, NEW s \in Session
  PROVE  \/ db'[s] = db[s]
         \/ \E e \in Detected(s) :
               db'[s] = [id |-> e.id, source |-> e.source] /\ ShouldRetain(db[s], e)
  <1>1. ASSUME NEW j \in DOMAIN jobs, Ends(j), UNCHANGED applied,
               db' = [db EXCEPT ![Head(jobs[j].todo).s] =
                        Selected(Head(jobs[j].todo).s, Head(jobs[j].todo))]
        PROVE  \/ db'[s] = db[s]
               \/ \E e \in Detected(s) :
                     db'[s] = [id |-> e.id, source |-> e.source] /\ ShouldRetain(db[s], e)
    <2> DEFINE e == Head(jobs[j].todo)
    <2>1. e \in Detected(e.s) /\ e.s \in Session
      BY <1>1, EndsTypes
    <2>2. db' = [db EXCEPT ![e.s] = Selected(e.s, e)] /\ db \in [Session -> Binding]
      BY <1>1 DEF TInv, TypeOK
    <2> HIDE DEF e
    <2>3. CASE s # e.s
      BY <2>1, <2>2, <2>3
    <2>4. CASE s = e.s
      <3>1. db'[s] = Selected(s, e)
        BY <2>1, <2>2, <2>4
      <3> QED BY <2>1, <2>4, <3>1 DEF Selected
    <2> QED BY <2>3, <2>4
  <1>2. ASSUME NEW j \in DOMAIN jobs, Bind(j)
        PROVE  \/ db' = db
               \/ /\ Ends(j) /\ UNCHANGED applied
                  /\ db' = [db EXCEPT ![Head(jobs[j].todo).s] =
                              Selected(Head(jobs[j].todo).s, Head(jobs[j].todo))]
    BY <1>2 DEF Bind, BindByPty, UpsertMissing, SecondWindow, GiveUp, store
  <1>3. CASE SomeBind
    BY <1>1, <1>2, <1>3 DEF SomeBind
  <1>4. CASE UNCHANGED vars
    BY <1>4 DEF vars
  <1>5. CASE ~SomeBind /\ Next
    <2>1. db' = db
      BY <1>5
         DEF Next, Detect, Subscribe, AckArrives, Connect, Pull, PullFails, Receive, SendAcks,
             Break, Restart, RowAdded, store
    <2> QED BY <2>1
  <1> QED BY <1>3, <1>4, <1>5

LEMMA RowNeverDowngraded ==
  ASSUME TInv, [Next]_vars, NEW s \in Session
  PROVE  Priority(db'[s].source) >= Priority(db[s].source)
  <1>1. db[s] = NoId \/ \E f \in Detected(s) : db[s] = [id |-> f.id, source |-> f.source]
    BY DEF TInv, DbIsDetected
  <1>2. \A f \in Detected(s) : f.source \in {"scan", "title"}
    BY DEF Detected, TInv, TypeOK, Event, Source
  <1>3. db[s].source \in {"scan", "title", "none"}
    <2>1. CASE db[s] = NoId
      BY <2>1 DEF NoId
    <2>2. ASSUME NEW f \in Detected(s), db[s] = [id |-> f.id, source |-> f.source]
          PROVE  db[s].source \in {"scan", "title", "none"}
      <3>1. db[s].source = f.source
        BY <2>2
      <3> QED BY <1>2, <3>1
    <2> QED BY <1>1, <2>1, <2>2
  <1>4. CASE db'[s] = db[s]
    BY <1>3, <1>4, PriorityIs
  <1>5. ASSUME NEW e \in Detected(s), db'[s] = [id |-> e.id, source |-> e.source],
               ShouldRetain(db[s], e)
        PROVE  Priority(db'[s].source) >= Priority(db[s].source)
    <2>1. db'[s].source = e.source /\ e.source \in {"scan", "title"}
      BY <1>2, <1>5
    <2>2. CASE db[s] = NoId
      BY <2>1, <2>2, PriorityIs DEF NoId
    <2>3. CASE db[s] # NoId
      BY <1>3, <1>5, <2>1, <2>3, PriorityIs DEF ShouldRetain
    <2> QED BY <2>2, <2>3
  <1> QED BY <1>4, <1>5, DbStep

\* Whatever the order in which tasks reach a row, over every reconnection and
\* restart, what it holds gives way only to what is at least as trusted.
THEOREM TrustNeverFalls == Spec => NeverDowngraded
  <1>1. TInv /\ [Next]_vars =>
          [\A s \in Session : Priority(db'[s].source) >= Priority(db[s].source)]_vars
    BY RowNeverDowngraded
  <1> QED BY <1>1, TInvariance, PTL DEF Spec, NeverDowngraded

----------------------------------------------------------------------------
(* An acknowledgement says that a bind has run to its end, if the link does *)
(* not break while one runs.                                               *)

AcksAreEnded == acks \cup acking \subseteq ended

\* What was applied has been bound or is being bound.
AppliedIsBound == \A k \in applied : k \in ended \/ Binds(jobs, k)

\* A connection that has not pulled yet finds no task of the one before.
PullComesFirst == ~pulled => jobs = <<>>

AckInv == AcksAreEnded /\ AppliedIsBound /\ PullComesFirst

LEMMA InitAckInv == Init => AckInv
  BY DEF Init, AckInv, AcksAreEnded, AppliedIsBound, PullComesFirst

LEMMA PullKeepsAckInv ==
  ASSUME TInv, AckInv, Pull
  PROVE  AckInv'
  <1>1. PICK t \in Seq(emitted) :
           /\ applied' = applied \cup {KeyOf(t[i]) : i \in DOMAIN t}
           /\ jobs' = IF t = <<>> THEN jobs ELSE Append(jobs, [todo |-> t, window |-> 1])
    BY PullIs DEF TInv
  <1>2. /\ ~pulled /\ pulled' = TRUE /\ acks' \subseteq acks \cup applied
        /\ UNCHANGED <<acking, ended>>
    BY DEF Pull, store
  <1>3. jobs = <<>>
    BY <1>2 DEF AckInv, PullComesFirst
  <1>4. applied \subseteq ended
    BY <1>3 DEF AckInv, AppliedIsBound, Binds
  <1>5. AcksAreEnded'
    BY <1>2, <1>4 DEF AckInv, AcksAreEnded
  <1>6. \A i \in DOMAIN t : Binds(jobs', KeyOf(t[i]))
    <2>1. jobs \in Seq(Job(emitted))
      BY DEF TInv, TypeOK, Job
    <2>2. CASE t = <<>>
      BY <2>2
    <2>3. CASE t # <<>>
      BY <1>1, <2>1, <2>3, JobAdded
    <2> QED BY <2>2, <2>3
  <1>7. AppliedIsBound'
    BY <1>1, <1>2, <1>4, <1>6 DEF AppliedIsBound
  <1>8. PullComesFirst'
    BY <1>2 DEF PullComesFirst
  <1> QED BY <1>5, <1>7, <1>8 DEF AckInv

LEMMA ReceiveKeepsAckInv ==
  ASSUME TInv, AckInv, Receive
  PROVE  AckInv'
  <1> DEFINE t == <<Head(wire)>>
  <1>1. /\ wire \in Seq(emitted) /\ wire # <<>> /\ pulled
        /\ UNCHANGED <<pulled, acking, acks, ended>>
    BY DEF Receive, TInv, TypeOK, store
  <1>2. t \in Seq(emitted) /\ t # <<>> /\ DOMAIN t = {1} /\ t[1] = Head(wire)
    BY <1>1
  <1>3. /\ applied' = applied \cup {KeyOf(t[1])}
        /\ jobs' = Append(jobs, [todo |-> t, window |-> 1])
    BY <1>2 DEF Receive
  <1> HIDE DEF t
  <1>4. jobs \in Seq(Job(emitted))
    BY DEF TInv, TypeOK, Job
  <1>5. \A k : Binds(jobs', k) <=> (Binds(jobs, k) \/ \E i \in DOMAIN t : KeyOf(t[i]) = k)
    BY <1>2, <1>3, <1>4, JobAdded
  <1>6. AppliedIsBound'
    BY <1>1, <1>2, <1>3, <1>5 DEF AckInv, AppliedIsBound
  <1>7. AcksAreEnded' /\ PullComesFirst'
    BY <1>1 DEF AckInv, AcksAreEnded, PullComesFirst
  <1> QED BY <1>6, <1>7 DEF AckInv

LEMMA BindKeepsAckInv ==
  ASSUME TInv, AckInv, NEW j \in DOMAIN jobs, Bind(j)
  PROVE  AckInv'
  <1>1. CASE BindByPty(j) \/ UpsertMissing(j) \/ GiveUp(j)
    <2> DEFINE e == Head(jobs[j].todo)
    <2>1. Ends(j) /\ UNCHANGED <<pulled, acking, applied>>
      BY <1>1 DEF BindByPty, UpsertMissing, GiveUp, connection
    <2>2. /\ \A k : Binds(jobs, k) => k = KeyOf(e) \/ Binds(jobs', k)
          /\ jobs = <<>> => jobs' = <<>>
      BY <2>1, EndsIs DEF TInv
    <2>3. acks' = acks \cup {KeyOf(e)} /\ ended' = ended \cup {KeyOf(e)}
      BY <2>1 DEF Ends
    <2> HIDE DEF e
    <2>4. AcksAreEnded'
      BY <2>1, <2>3 DEF AckInv, AcksAreEnded
    <2>5. AppliedIsBound'
      BY <2>1, <2>2, <2>3 DEF AckInv, AppliedIsBound
    <2>6. PullComesFirst'
      BY <2>1, <2>2 DEF AckInv, PullComesFirst
    <2> QED BY <2>4, <2>5, <2>6 DEF AckInv
  <1>2. CASE SecondWindow(j)
    <2>1. /\ jobs' = [jobs EXCEPT ![j].window = 2]
          /\ UNCHANGED <<pulled, acking, applied, acks, ended>>
      BY <1>2 DEF SecondWindow, connection, store
    <2>2. /\ jobs \in Seq(Job(emitted)) /\ jobs[j].todo = [jobs[j] EXCEPT !.window = 2].todo
      <3>1. jobs \in Seq(Job(emitted))
        BY DEF TInv, TypeOK, Job
      <3>2. jobs[j] \in Job(emitted)
        BY <3>1
      <3> QED BY <3>1, <3>2 DEF Job
    <2>3. DOMAIN jobs' = DOMAIN jobs /\ \A l \in DOMAIN jobs : jobs'[l].todo = jobs[l].todo
      BY <2>1, <2>2
    <2>4. AppliedIsBound'
      BY <2>1, <2>3 DEF AckInv, AppliedIsBound, Binds
    <2>5. AcksAreEnded'
      BY <2>1 DEF AckInv, AcksAreEnded
    <2>6. PullComesFirst'
      BY <2>1 DEF AckInv, PullComesFirst
    <2> QED BY <2>4, <2>5, <2>6 DEF AckInv
  <1> QED BY <1>1, <1>2 DEF Bind

LEMMA NextAckInv ==
  ASSUME BreakInBind = FALSE, TInv, AckInv, [Next]_vars
  PROVE  AckInv'
  <1>1. CASE Pull
    BY <1>1, PullKeepsAckInv
  <1>2. CASE Receive
    BY <1>2, ReceiveKeepsAckInv
  <1>3. CASE SomeBind
    BY <1>3, BindKeepsAckInv DEF SomeBind
  <1>4. CASE AckArrives \/ SendAcks
    BY <1>4
       DEF AckArrives, SendAcks, desktop, store, AckInv, AcksAreEnded, AppliedIsBound,
           PullComesFirst, Binds
  <1>5. CASE Break
    BY <1>5
       DEF Break, Down, desktop, store, AckInv, AcksAreEnded, AppliedIsBound,
           PullComesFirst, Binds
  <1>6. CASE Restart
    BY <1>6
       DEF Restart, Down, store, AckInv, AcksAreEnded, AppliedIsBound, PullComesFirst
  <1>7. CASE \/ \E e \in Event : Detect(e)
             \/ Subscribe \/ Connect \/ PullFails
             \/ \E s \in Session : RowAdded(s)
             \/ UNCHANGED vars
    <2>1. UNCHANGED <<applied, jobs, acks, acking, ended>> /\ pulled' \in {pulled, TRUE}
      BY <1>7
         DEF Detect, Subscribe, Connect, PullFails, RowAdded, desktop, store, connection, vars
    <2> QED BY <2>1 DEF AckInv, AcksAreEnded, AppliedIsBound, PullComesFirst, Binds
  <1> QED BY <1>1, <1>2, <1>3, <1>4, <1>5, <1>6, <1>7 DEF Next

----------------------------------------------------------------------------
(* The most trusted event.                                                 *)

\* There is one, and no other is as trusted.
LEMMA BestIs ==
  ASSUME TInv, NEW s \in Session, Detected(s) # {}
  PROVE  /\ Best(s) \in Detected(s)
         /\ \A e \in Detected(s) : e # Best(s) =>
               Priority(e.source) < Priority(Best(s).source)
  <1>1. \A e \in Detected(s) : e \in emitted /\ e.s = s /\ e.source \in {"scan", "title"}
    BY DEF TInv, TypeOK, Detected, Event, Source
  <1>2. \A e, f \in Detected(s) : e.source = f.source => e = f
    BY <1>1 DEF TInv, OneOfASource
  <1>3. \E e \in Detected(s) :
           \A f \in Detected(s) : Priority(e.source) >= Priority(f.source)
    <2>1. CASE \E e \in Detected(s) : e.source = "title"
      BY <1>1, <2>1, PriorityIs
    <2>2. CASE ~\E e \in Detected(s) : e.source = "title"
      BY <1>1, <2>2, PriorityIs
    <2> QED BY <2>1, <2>2
  <1>4. /\ Best(s) \in Detected(s)
        /\ \A f \in Detected(s) : Priority(Best(s).source) >= Priority(f.source)
    BY <1>3 DEF Best
  <1>5. ASSUME NEW e \in Detected(s), e # Best(s)
        PROVE  Priority(e.source) < Priority(Best(s).source)
    <2>1. e.source # Best(s).source
      BY <1>2, <1>4, <1>5
    <2> QED BY <1>1, <1>4, <2>1, PriorityIs
  <1> QED BY <1>4, <1>5

BestLeads ==
    \A s \in Session : Detected(s) # {} =>
        /\ Best(s) \in Detected(s)
        /\ \A e \in Detected(s) : e # Best(s) => Priority(e.source) < Priority(Best(s).source)

LEMMA BestLeadsNext == TInv' => BestLeads'
  <1>1. TInv => BestLeads
    BY BestIs DEF BestLeads
  <1> QED BY <1>1, PTL

\* A row that holds the most trusted id goes on holding it.
LEMMA HandledStays ==
  ASSUME TInv, [Next]_vars, NEW s \in Session, Handled(s), emitted' = emitted,
         ended \subseteq ended'
  PROVE  Handled(s)'
  <1>1. Detected(s)' = Detected(s) /\ Best(s)' = Best(s) /\ Detected(s) # {}
    BY DEF Detected, Best, Handled
  <1>2. CASE KeyOf(Best(s)) \in ended
    BY <1>1, <1>2 DEF Handled
  <1>3. CASE db[s].id = Best(s).id
    <2>1. CASE db'[s] = db[s]
      BY <1>1, <1>3, <2>1 DEF Handled
    <2>2. ASSUME NEW e \in Detected(s), db'[s] = [id |-> e.id, source |-> e.source],
                 ShouldRetain(db[s], e), e # Best(s)
          PROVE  FALSE
      <3>1. Best(s) \in Detected(s) /\ Priority(e.source) < Priority(Best(s).source)
        BY <1>1, <2>2, BestIs
      <3>2. \A f \in Detected(s) : f \in emitted /\ f.s = s /\ f.id \in Id
                                   /\ f.source \in {"scan", "title"}
        BY DEF TInv, TypeOK, Detected, Event, Source
      <3>3. e.source = "scan" /\ Best(s).source = "title"
        BY <3>1, <3>2, PriorityIs
      <3>4. db[s] # NoId
        <4>1. db[s].id \in Id
          BY <1>3, <3>1, <3>2
        <4> QED BY <4>1 DEF Id, NoId
      <3>5. PICK f \in Detected(s) : db[s] = [id |-> f.id, source |-> f.source]
        BY <3>4 DEF TInv, DbIsDetected
      <3>6. db[s].id = f.id /\ db[s].source = f.source
        BY <3>5
      <3>7. \/ Priority(e.source) > Priority(f.source)
            \/ Priority(e.source) = Priority(f.source) /\ e.id # f.id
        BY <2>2, <3>4, <3>6, Zenon DEF ShouldRetain
      <3>8. f.source = "scan" /\ e.id # f.id
        BY <3>2, <3>3, <3>7, PriorityIs
      <3>9. e = f
        BY <3>2, <3>3, <3>8 DEF TInv, OneOfASource
      <3> QED BY <3>8, <3>9
    <2>3. ASSUME NEW e \in Detected(s), db'[s] = [id |-> e.id, source |-> e.source],
                 e = Best(s)
          PROVE  Handled(s)'
      <3>1. db'[s].id = Best(s).id
        BY <2>3
      <3> QED BY <1>1, <3>1 DEF Handled
    <2> QED BY <2>1, <2>2, <2>3, DbStep
  <1> QED BY <1>2, <1>3 DEF Handled

----------------------------------------------------------------------------
(* KeptUntilHandled.                                                       *)

KeptFor(s) ==
    \/ s \in evicted
    \/ Handled(s)
    \/ \E i \in DOMAIN retained : KeyOf(retained[i]) = KeyOf(Best(s))

\* The most trusted event changes only for the one that is just retained.
LEMMA DetectKeeps ==
  ASSUME TInv, KeptUntilHandled, NEW e \in Event, Detect(e), TInv',
         NEW s \in Session, Detected(s)' # {}
  PROVE  KeptFor(s)'
  <1>1. /\ emitted' = emitted \cup {e} /\ db' = db /\ ended' = ended
        /\ \A f \in Detected(e.s) : f.source # e.source
    BY DEF Detect, store
  <1>2. /\ evicted \subseteq evicted'
        /\ \A i \in DOMAIN Kept(e) :
              \/ Kept(e)[i].s \in evicted'
              \/ \E k \in DOMAIN retained' : retained'[k] = Kept(e)[i]
    BY DetectRetains DEF TInv
  <1>3. /\ \A i \in DOMAIN retained :
              /\ i \in DOMAIN Kept(e)
              /\ \/ Kept(e)[i] = retained[i]
                 \/ /\ Kept(e)[i] = e /\ retained[i].s = e.s
                    /\ ShouldRetain(retained[i], e)
        /\ \E i \in DOMAIN Kept(e) :
              \/ Kept(e)[i] = e
              \/ /\ i \in DOMAIN retained /\ Kept(e)[i] = retained[i]
                 /\ retained[i].s = e.s /\ ~ShouldRetain(retained[i], e)
    BY KeptIs DEF TInv
  <1>4. \A i \in DOMAIN retained : retained[i] \in emitted /\ retained[i] \in Event
    BY DEF TInv, TypeOK
  <1>5. e.source \in {"scan", "title"} /\ \A f \in emitted : f.source \in {"scan", "title"}
    BY DEF TInv, TypeOK, Event, Source
  <1>6. /\ Best(s)' \in Detected(s)'
        /\ \A f \in Detected(s)' : f # Best(s)' => Priority(f.source) < Priority(Best(s)'.source)
    BY BestLeadsNext DEF BestLeads
  <1>7. CASE Best(s)' = e
    <2>1. e.s = s
      BY <1>6, <1>7 DEF Detected
    <2>2. PICK i \in DOMAIN Kept(e) :
              \/ Kept(e)[i] = e
              \/ /\ i \in DOMAIN retained /\ Kept(e)[i] = retained[i]
                 /\ retained[i].s = e.s /\ ~ShouldRetain(retained[i], e)
      BY <1>3
    <2>3. Kept(e)[i] = e
      <3>1. ASSUME i \in DOMAIN retained, retained[i].s = e.s, ~ShouldRetain(retained[i], e)
            PROVE  FALSE
        <4>1. retained[i] \in Detected(s) /\ retained[i] \in Detected(s)'
          BY <1>1, <1>4, <2>1, <3>1 DEF Detected
        <4>2. retained[i].source # e.source
          BY <1>1, <2>1, <4>1
        <4>3. Priority(retained[i].source) < Priority(e.source)
          BY <1>6, <1>7, <4>1, <4>2
        <4>4. Priority(e.source) > Priority(retained[i].source)
          BY <1>4, <1>5, <3>1, <4>3, PriorityIs
        <4> QED BY <3>1, <4>4 DEF ShouldRetain
      <3> QED BY <2>2, <3>1
    <2>4. CASE e.s \in evicted'
      BY <2>1, <2>4 DEF KeptFor
    <2>5. CASE \E k \in DOMAIN retained' : retained'[k] = e
      BY <1>7, <2>5 DEF KeptFor
    <2> QED BY <1>2, <2>3, <2>4, <2>5
  <1>8. CASE Best(s)' # e
    <2>1. Best(s)' \in Detected(s) /\ Detected(s) # {} /\ Detected(s) \subseteq Detected(s)'
      BY <1>1, <1>6, <1>8 DEF Detected
    <2>2. Best(s)' = Best(s)
      <3>1. /\ Best(s) \in Detected(s)
            /\ \A f \in Detected(s) : f # Best(s) =>
                  Priority(f.source) < Priority(Best(s).source)
        BY <2>1, BestIs
      <3>2. Best(s).source \in {"scan", "title"} /\ Best(s)'.source \in {"scan", "title"}
        BY <1>5, <2>1, <3>1 DEF Detected
      <3> QED BY <1>6, <2>1, <3>1, <3>2, PriorityIs
    <2>3. CASE s \in evicted
      BY <1>2, <2>3 DEF KeptFor
    <2>4. CASE Handled(s)
      <3>1. Handled(s)'
        BY <1>1, <2>1, <2>2, <2>4 DEF Handled
      <3> QED BY <3>1 DEF KeptFor
    <2>5. ASSUME NEW i \in DOMAIN retained, KeyOf(retained[i]) = KeyOf(Best(s))
          PROVE  KeptFor(s)'
      <3>1. retained[i].s = s
        BY <2>1, <2>2, <2>5 DEF KeyOf, Detected
      <3>2. i \in DOMAIN Kept(e) /\ Kept(e)[i] = retained[i]
        <4>1. ASSUME retained[i].s = e.s, ShouldRetain(retained[i], e)
              PROVE  FALSE
          <5>1. retained[i] \in Detected(s) /\ e \in Detected(s)' /\ e.s = s
            BY <1>1, <1>4, <3>1, <4>1 DEF Detected
          <5>2. Priority(e.source) < Priority(Best(s).source)
            BY <1>6, <1>8, <2>2, <5>1
          <5>3. Best(s).source \in {"scan", "title"}
            BY <1>5, <2>1, <2>2 DEF Detected
          <5>4. e.source = "scan"
            BY <1>5, <5>2, <5>3, PriorityIs
          <5>5. retained[i].source = "title"
            BY <1>1, <1>4, <1>5, <5>1, <5>4
          <5>6. retained[i] # NoId
            <6>1. retained[i].source # "none"
              BY <5>5
            <6> QED BY <6>1 DEF NoId
          <5> QED BY <4>1, <5>4, <5>5, <5>6, PriorityIs DEF ShouldRetain
        <4> QED BY <1>3, <4>1
      <3>3. CASE retained[i].s \in evicted'
        BY <3>1, <3>3 DEF KeptFor
      <3>4. CASE \E k \in DOMAIN retained' : retained'[k] = retained[i]
        BY <2>2, <2>5, <3>4 DEF KeptFor
      <3> QED BY <1>2, <3>2, <3>3, <3>4
    <2>6. KeptFor(s)
      BY <2>1 DEF KeptUntilHandled, KeptFor
    <2> QED BY <2>3, <2>4, <2>5, <2>6 DEF KeptFor
  <1> QED BY <1>7, <1>8

\* What an acknowledgement takes from the store has been bound.
LEMMA AckArrivesKeeps ==
  ASSUME TInv, AckInv, KeptUntilHandled, AckArrives,
         NEW s \in Session, Detected(s)' # {}
  PROVE  KeptFor(s)'
  <1>1. UNCHANGED <<emitted, evicted, ended, db>>
    BY DEF AckArrives, store
  <1>2. Detected(s)' = Detected(s) /\ Best(s)' = Best(s) /\ Detected(s) # {}
    BY <1>1 DEF Detected, Best
  <1>3. CASE s \in evicted
    BY <1>1, <1>3 DEF KeptFor
  <1>4. CASE Handled(s)
    BY <1>1, <1>2, <1>4 DEF Handled, KeptFor
  <1>5. ASSUME NEW i \in DOMAIN retained, KeyOf(retained[i]) = KeyOf(Best(s))
        PROVE  KeptFor(s)'
    <2>1. CASE KeyOf(retained[i]) \in acking
      <3>1. KeyOf(Best(s)) \in ended
        BY <1>5, <2>1 DEF AckInv, AcksAreEnded
      <3> QED BY <1>1, <1>2, <3>1 DEF Handled, KeptFor
    <2>2. CASE KeyOf(retained[i]) \notin acking
      <3> DEFINE I == {l \in DOMAIN retained : KeyOf(retained[l]) \notin acking}
      <3>1. i \in I /\ I \in SUBSET (DOMAIN retained) /\ retained \in Seq(emitted)
        BY <2>2 DEF TInv, TypeOK
      <3>2. retained' = Only(retained, I)
        BY DEF AckArrives
      <3> HIDE DEF I
      <3>3. \E k \in DOMAIN retained' : retained'[k] = retained[i]
        BY <3>1, <3>2, OnlyIs
      <3> QED BY <1>2, <1>5, <3>3 DEF KeptFor
    <2> QED BY <2>1, <2>2
  <1>6. KeptFor(s)
    BY <1>2 DEF KeptUntilHandled, KeptFor
  <1> QED BY <1>3, <1>4, <1>5, <1>6 DEF KeptFor

LEMMA NextKept ==
  ASSUME TInv, AckInv, KeptUntilHandled, [Next]_vars, TInv'
  PROVE  KeptUntilHandled'
  <1> SUFFICES ASSUME NEW s \in Session, Detected(s)' # {}
               PROVE  KeptFor(s)'
    BY DEF KeptUntilHandled, KeptFor
  <1>1. CASE \E e \in Event : Detect(e)
    BY <1>1, DetectKeeps
  <1>2. CASE AckArrives
    BY <1>2, AckArrivesKeeps
  <1>3. CASE \/ Subscribe \/ Connect \/ Pull \/ PullFails \/ Receive \/ SendAcks \/ Break
             \/ Restart
             \/ \E t \in Session : RowAdded(t)
             \/ SomeBind
             \/ UNCHANGED vars
    <2>1. UNCHANGED <<emitted, retained, evicted>>
      BY <1>3
         DEF Subscribe, Connect, Pull, PullFails, Receive, SendAcks, Break, Restart, RowAdded,
             SomeBind, Bind, BindByPty, UpsertMissing, SecondWindow, GiveUp, daemon, vars
    <2>2. ended \subseteq ended'
      BY <1>3
         DEF Subscribe, Connect, Pull, PullFails, Receive, SendAcks, Break, Restart, RowAdded,
             SomeBind, Bind, BindByPty, UpsertMissing, SecondWindow, GiveUp, Ends, store, vars
    <2>3. Detected(s)' = Detected(s) /\ Best(s)' = Best(s) /\ Detected(s) # {}
      BY <2>1 DEF Detected, Best
    <2>4. KeptFor(s)
      BY <2>3 DEF KeptUntilHandled, KeptFor
    <2>5. Handled(s) => Handled(s)'
      BY <2>1, <2>2, HandledStays
    <2> QED BY <2>1, <2>3, <2>4, <2>5 DEF KeptFor
  <1> QED BY <1>1, <1>2, <1>3 DEF Next

\* If no connection breaks while an id is being bound: through restarts, lost
\* broadcasts and lost or late acknowledgements, the most trusted id of a session
\* stays retained until its bind has run to the end, unless the store overflowed.
THEOREM IdentityIsKept ==
  ASSUME BreakInBind = FALSE
  PROVE  Spec => []KeptUntilHandled
  <1> DEFINE KInv == TInv /\ AckInv /\ KeptUntilHandled
  <1>1. Init => KInv
    <2>1. Init => KeptUntilHandled
      BY DEF Init, KeptUntilHandled, Detected
    <2> QED BY <2>1, InitTInv, InitAckInv
  <1>2. KInv /\ [Next]_vars => KInv'
    BY NextTInv, NextAckInv, NextKept
  <1>3. KInv => KeptUntilHandled
    OBVIOUS
  <1> HIDE DEF KInv
  <1> QED BY <1>1, <1>2, <1>3, PTL DEF Spec

=============================================================================
