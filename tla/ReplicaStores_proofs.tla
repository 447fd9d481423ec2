------------------------- MODULE ReplicaStores_proofs -------------------------
(* Proofs about ReplicaStores, for any kinds of gifts, lifetimes and limits:  *)
(* a store answers what it was given under the names asked for, and the file  *)
(* holds what the store does.                                                 *)
(*                                                                            *)
(* An entry keeps (Keeps) the gifts under its name, or what may go of them:   *)
(* what has expired or been replaced, or does not fit in a full list.  Giving *)
(* more, pruning, the time that passes, and merging with what was kept        *)
(* elsewhere preserve this; a read of two names answers what both entries     *)
(* keep.  The file, and each write under way, keeps what was given until it   *)
(* was made (FileKeeps), and what is given before the file is read comes on   *)
(* top of it (Added).                                                         *)
EXTENDS ReplicaStores, Subsequences_proofs

(* normalizePeerList: a list without doubles that lacks a peer only if it is  *)
(* full.                                                                      *)
LEMMA ListedFacts ==
  ASSUME StoreConstants, NEW s \in Seq(Values)
  PROVE  /\ Listed(s) \in Lists
         /\ ToSet(Listed(s)) \subseteq ToSet(s)
         /\ ToSet(s) \subseteq ToSet(Listed(s)) \/ Len(Listed(s)) = MaxPeers
         /\ \A k \in 1..Len(Distinct(s)) : k <= MaxPeers => Listed(s)[k] = Distinct(s)[k] /\ k <= Len(Listed(s))
  <1> DEFINE d == Distinct(s)
             m == IF Len(d) < MaxPeers THEN Len(d) ELSE MaxPeers
             l == SubSeq(d, 1, m)
  <1>1. MaxPeers \in Nat \ {0}  BY DEF StoreConstants
  <1>2. d \in Seq(Values) /\ IsInjective(d) /\ ToSet(d) = ToSet(s)  BY DistinctFacts
  <1>3. Listed(s) = l  BY DEF Listed
  <1> HIDE DEF d
  <1>4. Len(d) \in Nat /\ DOMAIN d = 1..Len(d)  BY <1>2
  <1>5. m \in Nat /\ m <= Len(d) /\ m <= MaxPeers  BY <1>1, <1>4
  <1> HIDE DEF m
  <1>6. l \in Seq(Values) /\ Len(l) = m /\ DOMAIN l = 1..m /\ \A k \in 1..m : l[k] = d[k]
    BY <1>2, <1>4, <1>5
  <1> HIDE DEF l
  <1>7. IsInjective(l)
    <2> SUFFICES ASSUME NEW j \in 1..m, NEW k \in 1..m, l[j] = l[k]  PROVE j = k
      BY <1>6 DEF IsInjective
    <2>1. j \in DOMAIN d /\ k \in DOMAIN d /\ d[j] = d[k]  BY <1>4, <1>5, <1>6
    <2> QED  BY <1>2, <2>1 DEF IsInjective
  <1>8. l \in Lists  BY <1>5, <1>6, <1>7 DEF Lists
  <1>9. ToSet(l) \subseteq ToSet(s)
    <2> SUFFICES ASSUME NEW k \in 1..m  PROVE l[k] \in ToSet(s)
      BY <1>6 DEF ToSet
    <2>1. k \in DOMAIN d /\ l[k] = d[k]  BY <1>4, <1>5, <1>6
    <2>2. l[k] \in ToSet(d)  BY <2>1 DEF ToSet
    <2> QED  BY <1>2, <2>2
  <1>10. CASE Len(d) < MaxPeers
    <2>1. m = Len(d)  BY <1>10 DEF m
    <2>2. l = d  BY <1>2, <1>4, <1>6, <2>1
    <2> QED  BY <1>2, <1>3, <1>4, <1>6, <1>8, <1>9, <2>1, <2>2 DEF d
  <1>11. CASE ~(Len(d) < MaxPeers)
    <2>1. m = MaxPeers  BY <1>11 DEF m
    <2> QED  BY <1>1, <1>3, <1>6, <1>8, <1>9, <2>1 DEF d
  <1> QED  BY <1>10, <1>11

LEMMA ListFacts ==
  ASSUME StoreConstants, NEW a \in Lists
  PROVE  a \in Seq(Values) /\ IsInjective(a) /\ Len(a) \in Nat /\ Len(a) <= MaxPeers /\ DOMAIN a = 1..Len(a)
         /\ MaxPeers \in Nat \ {0}
  BY DEF Lists, StoreConstants

(* Lists merged: the peers of the first stay, those of the second find a      *)
(* place or the list is full; a full list stays full.                         *)
LEMMA ListedMerge ==
  ASSUME StoreConstants, NEW a \in Lists, NEW b \in Seq(Values)
  PROVE  /\ Listed(a \o b) \in Lists
         /\ ToSet(a) \subseteq ToSet(Listed(a \o b))
         /\ Len(a) = MaxPeers => Len(Listed(a \o b)) = MaxPeers
         /\ ToSet(b) \subseteq ToSet(Listed(a \o b)) \/ Len(Listed(a \o b)) = MaxPeers
         /\ b \in Lists /\ Len(b) = MaxPeers => Len(Listed(a \o b)) = MaxPeers
  <1> DEFINE s == a \o b
             l == Listed(s)
  <1>1. a \in Seq(Values) /\ IsInjective(a) /\ Len(a) \in Nat /\ Len(a) <= MaxPeers /\ DOMAIN a = 1..Len(a)
        /\ MaxPeers \in Nat \ {0}
    BY ListFacts
  <1>2. s \in Seq(Values) /\ ToSet(s) = ToSet(a) \cup ToSet(b)  BY <1>1, ConcatElements
  <1>3. /\ l \in Lists /\ ToSet(l) \subseteq ToSet(s) /\ (ToSet(s) \subseteq ToSet(l) \/ Len(l) = MaxPeers)
        /\ \A k \in 1..Len(Distinct(s)) : k <= MaxPeers => l[k] = Distinct(s)[k] /\ k <= Len(l)
    <2> HIDE DEF s
    <2> QED  BY <1>2, ListedFacts
  <1>4. Len(a) <= Len(Distinct(s)) /\ \A k \in 1..Len(a) : Distinct(s)[k] = a[k]
    BY <1>1, DistinctPrefix
  <1>5. Distinct(s) \in Seq(Values)
    <2> HIDE DEF s
    <2> QED  BY <1>2, DistinctFacts
  <1> HIDE DEF s, l
  <1>6. l \in Seq(Values) /\ IsInjective(l) /\ Len(l) \in Nat /\ Len(l) <= MaxPeers /\ DOMAIN l = 1..Len(l)
    BY <1>3, ListFacts
  <1>7. \A k \in 1..Len(a) : k \in 1..Len(l) /\ l[k] = a[k]
    <2> SUFFICES ASSUME NEW k \in 1..Len(a)  PROVE k \in 1..Len(l) /\ l[k] = a[k]
      OBVIOUS
    <2>1. Len(Distinct(s)) \in Nat  BY <1>5
    <2>2. k \in 1..Len(Distinct(s)) /\ k <= MaxPeers /\ Distinct(s)[k] = a[k]  BY <1>1, <1>4, <2>1
    <2>3. l[k] = a[k] /\ k <= Len(l)  BY <1>3, <2>2
    <2> QED  BY <1>1, <1>6, <2>3
  <1>8. ToSet(a) \subseteq ToSet(l)  BY <1>1, <1>6, <1>7 DEF ToSet
  <1>9. Len(a) = MaxPeers => Len(l) = MaxPeers
    <2> SUFFICES ASSUME Len(a) = MaxPeers  PROVE Len(l) = MaxPeers
      OBVIOUS
    <2>1. MaxPeers \in 1..Len(a)  BY <1>1
    <2>2. MaxPeers \in 1..Len(l)  BY <1>7, <2>1
    <2>3. Len(l) \in Nat /\ Len(l) <= MaxPeers /\ MaxPeers \in Nat  BY <1>1, <1>6
    <2>4. MaxPeers <= Len(l)  BY <2>2
    <2> QED  BY <2>3, <2>4
  <1>10. ASSUME b \in Lists, Len(b) = MaxPeers  PROVE Len(l) = MaxPeers
    <2>1. CASE Len(l) = MaxPeers  BY <2>1
    <2>2. CASE ToSet(s) \subseteq ToSet(l)
      <3>1. ToSet(b) \subseteq ToSet(l)  BY <1>2, <2>2
      <3>2. IsInjective(b)  BY <1>10, ListFacts
      <3>3. Len(b) <= Len(l)  BY <1>6, <3>1, <3>2, InjectiveLength
      <3>4. MaxPeers <= Len(l)  BY <1>10, <3>3
      <3>5. Len(l) \in Nat /\ Len(l) <= MaxPeers /\ MaxPeers \in Nat  BY <1>1, <1>6
      <3> QED  BY <3>4, <3>5
    <2> QED  BY <1>3, <2>1, <2>2
  <1> QED  BY <1>2, <1>3, <1>8, <1>9, <1>10 DEF l, s

-----------------------------------------------------------------------------
(* The leases that live longest.                                              *)

Outlive == {p \in Leases \X Leases : Outlives(p[1], p[2])}
Outliving(S, l) == {m \in S : Outlives(m, l)}

LEMMA LeaseOrder ==
  ASSUME NEW S \in SUBSET Leases
  PROVE  /\ StrictOrder(S, Outlive)
         /\ \A l \in S : Before(S, Outlive, l) = Outliving(S, l)
  <1>1. ASSUME NEW l \in Leases, NEW m \in Leases  PROVE <<l, m>> \in Outlive <=> Outlives(l, m)
    BY DEF Outlive
  <1>2. \A l \in Leases : /\ l.id \in Nat /\ l.issued \in Nat /\ l.expires \in Nat
                          /\ l = [id |-> l.id, issued |-> l.issued, expires |-> l.expires]
    BY DEF Leases
  <1>3. \A l \in S : ~Outlives(l, l)  BY <1>2 DEF Outlives
  <1>4. \A k, l, m \in S : Outlives(k, l) /\ Outlives(l, m) => Outlives(k, m)  BY <1>2 DEF Outlives
  <1>5. ASSUME NEW l \in S, NEW m \in S  PROVE l = m \/ Outlives(l, m) \/ Outlives(m, l)
    <2> SUFFICES ASSUME ~Outlives(l, m), ~Outlives(m, l)  PROVE l = m
      OBVIOUS
    <2>1. l.id = m.id /\ l.issued = m.issued /\ l.expires = m.expires  BY <1>2 DEF Outlives
    <2> QED  BY <1>2, <2>1
  <1>6. StrictOrder(S, Outlive)
    <2> SUFFICES /\ \A x \in S : ~(<<x, x>> \in Outlive)
                 /\ \A x, y, z \in S : <<x, y>> \in Outlive /\ <<y, z>> \in Outlive => <<x, z>> \in Outlive
                 /\ \A x, y \in S : x = y \/ <<x, y>> \in Outlive \/ <<y, x>> \in Outlive
      BY DEF StrictOrder
    <2>1. \A x, y \in S : <<x, y>> \in Outlive <=> Outlives(x, y)  BY <1>1
    <2> QED  BY <1>3, <1>4, <1>5, <2>1
  <1>7. \A l \in S : Before(S, Outlive, l) = Outliving(S, l)  BY <1>1 DEF Before, Outliving
  <1> QED  BY <1>6, <1>7

(* Of a set with all that outlive its members, those that live longest are    *)
(* the same.                                                                  *)
LEMMA LongestWithin ==
  ASSUME NEW S \in SUBSET Leases, NEW U \in SUBSET S,
         \A l \in U : \A m \in S : Outlives(m, l) => m \in U
  PROVE  Longest(U) = U \cap Longest(S)
  <1>1. \A l \in U : {m \in U : Outlives(m, l)} = {m \in S : Outlives(m, l)}  OBVIOUS
  <1> QED  BY <1>1 DEF Longest

LEMMA LongestCount ==
  ASSUME StoreConstants, NEW S \in SUBSET Leases, IsFiniteSet(S)
  PROVE  /\ Longest(S) \in SUBSET S /\ IsFiniteSet(Longest(S)) /\ Cardinality(Longest(S)) <= MaxLeases
         /\ Cardinality(S) >= MaxLeases => Cardinality(Longest(S)) >= MaxLeases
         /\ \A l \in Longest(S) : \A m \in S : Outlives(m, l) => m \in Longest(S)
  <1> DEFINE L == Longest(S)
             T == 0..(MaxLeases - 1)
             rank == [l \in L |-> Cardinality(Outliving(S, l))]
  <1>1. MaxLeases \in Nat \ {0}  BY DEF StoreConstants
  <1>2. StrictOrder(S, Outlive) /\ \A l \in S : Before(S, Outlive, l) = Outliving(S, l)  BY LeaseOrder
  <1>3. Ranked(S, Outlive)  BY <1>2, Ranks
  <1>4. Cardinality(S) \in Nat  BY FS_CardinalityType
  <1>5. /\ \A l \in S : Cardinality(Outliving(S, l)) \in 0..(Cardinality(S) - 1)
        /\ \A l, m \in S : Cardinality(Outliving(S, l)) = Cardinality(Outliving(S, m)) => l = m
        /\ \A k \in 0..(Cardinality(S) - 1) : \E l \in S : Cardinality(Outliving(S, l)) = k
    BY <1>2, <1>3 DEF Ranked
  <1>6. L = {l \in S : Cardinality(Outliving(S, l)) < MaxLeases}  BY DEF Longest, Outliving
  <1>7. L \in SUBSET S /\ IsFiniteSet(L)
    <2>1. L \in SUBSET S  BY <1>6
    <2> HIDE DEF L
    <2> QED  BY <2>1, FS_Subset
  <1> HIDE DEF L
  <1>8. IsFiniteSet(T) /\ Cardinality(T) = MaxLeases  BY <1>1, FS_Interval
  <1>9. \A l \in L : Cardinality(Outliving(S, l)) \in T
    <2> SUFFICES ASSUME NEW l \in L  PROVE Cardinality(Outliving(S, l)) \in T
      OBVIOUS
    <2>1. l \in S /\ Cardinality(Outliving(S, l)) < MaxLeases  BY <1>6
    <2>2. Cardinality(Outliving(S, l)) \in Nat  BY <1>4, <1>5, <2>1
    <2> QED  BY <1>1, <2>1, <2>2
  <1>10. Cardinality(L) <= MaxLeases
    <2>1. rank \in Injection(L, T)
      <3> HIDE DEF T
      <3> QED  BY <1>5, <1>7, <1>9 DEF Injection, IsInjective
    <2> HIDE DEF rank, T
    <2> QED  BY <1>8, <2>1, FS_Injection
  <1>11. ASSUME Cardinality(S) >= MaxLeases  PROVE Cardinality(L) >= MaxLeases
    <2>1. \A k \in T : \E l \in L : Cardinality(Outliving(S, l)) = k
      <3> SUFFICES ASSUME NEW k \in T  PROVE \E l \in L : Cardinality(Outliving(S, l)) = k
        OBVIOUS
      <3>1. k \in 0..(Cardinality(S) - 1) /\ k < MaxLeases  BY <1>1, <1>4, <1>11
      <3>2. PICK l \in S : Cardinality(Outliving(S, l)) = k  BY <1>5, <3>1
      <3>3. l \in L  BY <1>6, <3>1, <3>2
      <3> QED  BY <3>2, <3>3
    <2>2. rank \in Surjection(L, T)
      <3> HIDE DEF T
      <3> QED  BY <1>9, <2>1 DEF Surjection
    <2> HIDE DEF rank, T
    <2>3. Cardinality(T) <= Cardinality(L)  BY <1>7, <2>2, FS_Surjection
    <2>4. Cardinality(L) \in Nat  BY <1>7, FS_CardinalityType
    <2> QED  BY <1>1, <1>8, <2>3, <2>4
  <1>12. ASSUME NEW l \in L, NEW m \in S, Outlives(m, l)  PROVE m \in L
    <2>1. l \in S  BY <1>7
    <2>2. Outliving(S, m) \in SUBSET Outliving(S, l)
      <3> SUFFICES ASSUME NEW k \in S, Outlives(k, m)  PROVE Outlives(k, l)
        BY DEF Outliving
      <3>1. \A x, y \in Leases : Outlives(x, y) <=> <<x, y>> \in Outlive  BY DEF Outlive
      <3>2. <<k, m>> \in Outlive /\ <<m, l>> \in Outlive  BY <1>12, <2>1, <3>1
      <3>3. <<k, l>> \in Outlive  BY <1>2, <2>1, <3>2 DEF StrictOrder
      <3> QED  BY <2>1, <3>1, <3>3
    <2>3. IsFiniteSet(Outliving(S, l))
      <3>1. Outliving(S, l) \in SUBSET S  BY DEF Outliving
      <3> QED  BY <3>1, FS_Subset
    <2>4. Cardinality(Outliving(S, m)) <= Cardinality(Outliving(S, l))  BY <2>2, <2>3, FS_Subset
    <2>5. Cardinality(Outliving(S, m)) \in Nat /\ Cardinality(Outliving(S, l)) \in Nat
      BY <1>4, <1>5, <2>1
    <2>6. Cardinality(Outliving(S, l)) < MaxLeases  BY <1>6
    <2> QED  BY <1>1, <1>6, <2>4, <2>5, <2>6
  <1> QED  BY <1>7, <1>10, <1>11, <1>12 DEF L

(* Whoever is outlived by as many as are kept, is outlived by as many of      *)
(* those that are kept.                                                       *)
LEMMA LongestOutlive ==
  ASSUME StoreConstants, NEW S \in SUBSET Leases, IsFiniteSet(S), NEW l \in Leases
  PROVE  /\ Cardinality(Outliving(S, l)) >= MaxLeases => Cardinality(Outliving(Longest(S), l)) >= MaxLeases
         /\ l \in S => l \in Longest(S) \/ Cardinality(Outliving(Longest(S), l)) >= MaxLeases
  <1> DEFINE A == Outliving(S, l)
  <1>1. MaxLeases \in Nat \ {0}  BY DEF StoreConstants
  <1>2. A \in SUBSET S  BY DEF Outliving
  <1>3. IsFiniteSet(A)
    <2> HIDE DEF A
    <2> QED  BY <1>2, FS_Subset
  <1>4. \A k \in A : \A m \in S : Outlives(m, k) => m \in A
    <2> SUFFICES ASSUME NEW k \in S, NEW m \in S, Outlives(k, l), Outlives(m, k)  PROVE Outlives(m, l)
      BY DEF Outliving
    <2>1. k \in Leases /\ m \in Leases  OBVIOUS
    <2>2. {k, l, m} \in SUBSET Leases  BY <2>1
    <2>3. StrictOrder({k, l, m}, Outlive)  BY <2>2, LeaseOrder
    <2>4. \A x, y \in {k, l, m} : Outlives(x, y) <=> <<x, y>> \in Outlive  BY <2>1 DEF Outlive
    <2> QED  BY <2>3, <2>4 DEF StrictOrder
  <1>5. Longest(A) = A \cap Longest(S)
    <2> HIDE DEF A
    <2> QED  BY <1>2, <1>4, LongestWithin
  <1>6. A \cap Longest(S) = Outliving(Longest(S), l)
    <2>1. Longest(S) \subseteq S  BY LongestCount
    <2> QED  BY <2>1 DEF Outliving
  <1>7. Cardinality(A) >= MaxLeases => Cardinality(Outliving(Longest(S), l)) >= MaxLeases
    <2>1. A \in SUBSET Leases  BY <1>2
    <2> HIDE DEF A
    <2> QED  BY <1>3, <1>5, <1>6, <2>1, LongestCount
  <1>8. ASSUME l \in S, l \notin Longest(S)  PROVE Cardinality(A) >= MaxLeases
    <2>1. ~(Cardinality(A) < MaxLeases)  BY <1>8 DEF Longest, Outliving
    <2> HIDE DEF A
    <2>2. Cardinality(A) \in Nat  BY <1>3, FS_CardinalityType
    <2> QED  BY <1>1, <2>1, <2>2
  <1> QED  BY <1>7, <1>8

(* Leases that have expired do not matter to those that have not.             *)
LEMMA LongestLater ==
  ASSUME StoreConstants, NEW S \in SUBSET Leases, IsFiniteSet(S), NEW t \in Nat, NEW u \in Nat, t <= u
  PROVE  Longest({l \in Longest({l \in S : l.expires > t}) : l.expires > u})
           = Longest({l \in S : l.expires > u})
  <1> DEFINE E(x) == {l \in S : l.expires > x}
             V == {l \in Longest(E(t)) : l.expires > u}
  <1>1. \A l \in S : l.expires \in Nat  BY DEF Leases
  <1>2. \A l, m \in S : Outlives(m, l) => m.expires >= l.expires  BY <1>1 DEF Outlives
  <1>3. E(t) \in SUBSET Leases /\ E(u) \in SUBSET E(t) /\ IsFiniteSet(E(t))
    <2>1. E(t) \in SUBSET S  OBVIOUS
    <2>2. E(u) \in SUBSET E(t)  BY <1>1
    <2> HIDE DEF E
    <2> QED  BY <2>1, <2>2, FS_Subset
  <1>4. \A l \in E(u) : \A m \in E(t) : Outlives(m, l) => m \in E(u)  BY <1>1, <1>2
  <1>5. Longest(E(u)) = E(u) \cap Longest(E(t))
    <2> HIDE DEF E
    <2> QED  BY <1>3, <1>4, LongestWithin
  <1>6. Longest(E(t)) \subseteq E(t) /\ \A l \in Longest(E(t)) : \A m \in E(t) : Outlives(m, l) => m \in Longest(E(t))
    <2> HIDE DEF E
    <2> QED  BY <1>3, LongestCount
  <1>7. V = E(u) \cap Longest(E(t))  BY <1>3, <1>6
  <1>8. \A l \in V : \A m \in E(t) : Outlives(m, l) => m \in V
    <2> HIDE DEF E, V
    <2> QED  BY <1>4, <1>6, <1>7
  <1>9. Longest(V) = V \cap Longest(E(t))
    <2> HIDE DEF E, V
    <2>1. V \in SUBSET E(t)  BY <1>6, <1>7
    <2> QED  BY <1>3, <1>8, <2>1, LongestWithin
  <1> HIDE DEF E, V
  <1>10. Longest(V) = Longest(E(u))  BY <1>5, <1>7, <1>9
  <1> QED  BY <1>10 DEF E, V

-----------------------------------------------------------------------------
(* The types of entries.                                                      *)

Kept(s) == Entries[s] \cup {Absent}
Gift(s) == [value : IF s = "cores" THEN Entries.cores ELSE Given[s], at : Nat]

LEMMA EntriesAre ==
  /\ DOMAIN Entries = {"routes", "access", "hints", "leases", "cores"}
  /\ Entries["routes"] = [origin : Maybe, id : Maybe, direct : BOOLEAN, at : Nat]
  /\ Entries["access"] = [token : Values, expires : Nat, at : Nat]
  /\ Entries["hints"] = [topic : Maybe, topicAt : Nat, hosts : Lists, hintsAt : Nat, probe : Nat]
  /\ Entries["leases"] = [leases : LeaseSets, peers : Lists]
  /\ Entries["cores"] = Seq(Values)
  BY DEF Entries

LEMMA AbsentIsNone ==
  ASSUME StoreConstants, NEW s \in DOMAIN Entries
  PROVE  Absent \notin Entries[s]
  BY DEF StoreConstants

LEMMA NoneListed ==
  ASSUME StoreConstants
  PROVE  <<>> \in Lists /\ <<>> \in Seq(Values)
  <1>1. <<>> \in Seq(Values) /\ Len(<<>>) = 0 /\ DOMAIN <<>> = {}  OBVIOUS
  <1>2. MaxPeers \in Nat  BY DEF StoreConstants
  <1> QED  BY <1>1, <1>2 DEF Lists, IsInjective

LEMMA NoneHeld ==
  ASSUME StoreConstants
  PROVE  NoHints \in Entries["hints"] /\ NoLeases \in Entries["leases"]
  <1>1. {} \in LeaseSets
    <2>1. MaxLeases \in Nat  BY DEF StoreConstants
    <2>2. IsFiniteSet({}) /\ Cardinality({}) = 0  BY FS_EmptySet
    <2> QED  BY <2>1, <2>2 DEF LeaseSets
  <1> QED  BY <1>1, NoneListed, EntriesAre DEF NoHints, NoLeases, Maybe

LEMMA LeaseSetFacts ==
  ASSUME NEW L \in LeaseSets
  PROVE  L \in SUBSET Leases /\ IsFiniteSet(L) /\ Cardinality(L) <= MaxLeases
  BY DEF LeaseSets

LEMMA LongestTyped ==
  ASSUME StoreConstants, NEW S \in SUBSET Leases, IsFiniteSet(S), NEW t
  PROVE  /\ {l \in S : l.expires > t} \in SUBSET Leases /\ IsFiniteSet({l \in S : l.expires > t})
         /\ Longest({l \in S : l.expires > t}) \in LeaseSets
  <1> DEFINE E == {l \in S : l.expires > t}
  <1>1. E \in SUBSET S  OBVIOUS
  <1> HIDE DEF E
  <1>2. E \in SUBSET Leases /\ IsFiniteSet(E)  BY <1>1, FS_Subset
  <1>3. Longest(E) \in LeaseSets
    <2>1. Longest(E) \in SUBSET E /\ IsFiniteSet(Longest(E)) /\ Cardinality(Longest(E)) <= MaxLeases
      BY <1>2, LongestCount
    <2> QED  BY <1>2, <2>1 DEF LeaseSets
  <1> QED  BY <1>2, <1>3 DEF E

LEMMA PruneTyped ==
  ASSUME StoreConstants, NEW s \in DOMAIN Entries, NEW e \in Kept(s), NEW t \in Nat
  PROVE  Prune(s, e, t) \in Kept(s)
  <1>1. CASE e = Absent  BY <1>1 DEF Prune, Kept
  <1>2. CASE e # Absent /\ s \in {"routes", "access", "cores"}
    BY <1>2 DEF Prune, PruneRoute, PruneAccess, Kept
  <1>3. CASE e # Absent /\ s = "hints"
    <2>1. e \in Entries["hints"]  BY <1>3 DEF Kept
    <2>2. PruneHints(e, t) \in Entries["hints"] \cup {Absent}
      BY <2>1, EntriesAre, NoneListed DEF PruneHints, Maybe
    <2> QED  BY <1>3, <2>2 DEF Prune, Kept
  <1>4. CASE e # Absent /\ s = "leases"
    <2>1. e \in Entries["leases"]  BY <1>4 DEF Kept
    <2>2. e.leases \in LeaseSets /\ e.peers \in Lists  BY <2>1, EntriesAre
    <2>3. Longest({l \in e.leases : l.expires > t}) \in LeaseSets  BY <2>2, LeaseSetFacts, LongestTyped
    <2>4. PruneLeases(e, t) \in Entries["leases"] \cup {Absent}
      BY <2>2, <2>3, EntriesAre DEF PruneLeases
    <2> QED  BY <1>4, <2>4 DEF Prune, Kept
  <1> QED  BY <1>1, <1>2, <1>3, <1>4, EntriesAre

LEMMA MergeTyped ==
  ASSUME StoreConstants, NEW s \in DOMAIN Entries, NEW a \in Kept(s), NEW b \in Kept(s), NEW t \in Nat
  PROVE  /\ Merge(s, a, b, t) \in Kept(s)
         /\ a # Absent \/ b # Absent => Merge(s, a, b, t) \in Entries[s]
  <1>1. CASE a = Absent \/ b = Absent  BY <1>1 DEF Merge, Kept
  <1>2. CASE a # Absent /\ b # Absent
    <2>1. a \in Entries[s] /\ b \in Entries[s]  BY <1>2 DEF Kept
    <2>2. CASE s = "routes"
      <3>1. MergeRoute(a, b, t) \in Entries["routes"]
        BY <2>1, <2>2, EntriesAre DEF MergeRoute, Later, Or, Maybe
      <3> QED  BY <1>2, <2>2, <3>1 DEF Merge, Kept
    <2>3. CASE s = "access"
      <3>1. MergeAccess(a, b, t) \in Entries["access"]
        BY <2>1, <2>3, EntriesAre DEF MergeAccess, Later
      <3> QED  BY <1>2, <2>3, <3>1 DEF Merge, Kept
    <2>4. CASE s = "hints"
      <3>1. a.hosts \in Lists /\ b.hosts \in Seq(Values)  BY <2>1, <2>4, EntriesAre DEF Lists
      <3>2. Listed(a.hosts \o b.hosts) \in Lists  BY <3>1, ListedMerge
      <3>3. MergeHints(a, b, t) \in Entries["hints"]
        BY <2>1, <2>4, <3>2, EntriesAre DEF MergeHints, Later
      <3> QED  BY <1>2, <2>4, <3>3 DEF Merge, Kept
    <2>5. CASE s = "leases"
      <3>1. a.peers \in Lists /\ b.peers \in Seq(Values) /\ a.leases \in LeaseSets /\ b.leases \in LeaseSets
        BY <2>1, <2>5, EntriesAre DEF Lists
      <3>2. Listed(a.peers \o b.peers) \in Lists  BY <3>1, ListedMerge
      <3>3. a.leases \cup b.leases \in SUBSET Leases /\ IsFiniteSet(a.leases \cup b.leases)
        BY <3>1, LeaseSetFacts, FS_Union
      <3>4. Longest({l \in a.leases \cup b.leases : l.expires > t}) \in LeaseSets  BY <3>3, LongestTyped
      <3>5. MergeLeases(a, b, t) \in Entries["leases"]
        BY <3>2, <3>4, EntriesAre DEF MergeLeases
      <3> QED  BY <1>2, <2>5, <3>5 DEF Merge, Kept
    <2>6. CASE s = "cores"
      <3>1. a \o b \in Seq(Values)  BY <2>1, <2>6, EntriesAre
      <3>2. Distinct(a \o b) \in Entries["cores"]  BY <3>1, DistinctFacts, EntriesAre
      <3> QED  BY <1>2, <2>6, <3>2 DEF Merge, Kept
    <2> QED  BY <2>2, <2>3, <2>4, <2>5, <2>6, EntriesAre
  <1> QED  BY <1>1, <1>2

\* A call that gives a value.
Giving(s, c) == c.value \in Given[s] /\ c.at \in Nat \ {0}

LEMMA GivingFacts ==
  ASSUME StoreConstants, NEW c
  PROVE  /\ Giving("routes", c) => /\ c.value.origin \in Maybe /\ c.value.id \in Maybe
                                   /\ c.value.direct \in BOOLEAN /\ c.at \in Nat \ {0}
         /\ Giving("access", c) => c.value.token \in Values /\ c.value.expires \in Nat /\ c.at \in Nat \ {0}
         /\ Giving("hints", c) => /\ c.value.topic \in Maybe /\ c.value.hosts \in Seq(Values)
                                  /\ c.value.probe \in BOOLEAN /\ c.at \in Nat \ {0}
                                  /\ c.value.probe => c.value.topic = Absent /\ c.value.hosts = <<>>
         /\ Giving("leases", c) => /\ c.value.lease \in Leases \cup {Absent} /\ c.value.peer \in Values
                                   /\ c.at \in Nat \ {0}
  BY DEF Giving, StoreConstants

\* What is merged into an entry.
RouteOf(c) == [origin |-> c.value.origin, id |-> c.value.id, direct |-> c.value.direct, at |-> c.at]
AccessOf(c, t) == [token |-> c.value.token, expires |-> c.value.expires, at |-> t]
HintsOf(c) ==
  [topic |-> c.value.topic, topicAt |-> IF c.value.topic # Absent THEN c.at ELSE 0,
   hosts |-> Listed(c.value.hosts), hintsAt |-> IF c.value.hosts # <<>> THEN c.at ELSE 0, probe |-> 0]
LeaseOf(c) == [leases |-> {c.value.lease}, peers |-> <<c.value.peer>>]
ProbedOf(e, c) == [Or(e, NoHints) EXCEPT !.probe = c.at]

LEMMA OfTyped ==
  ASSUME StoreConstants, NEW c, NEW t \in Nat
  PROVE  /\ Giving("routes", c) => RouteOf(c) \in Entries["routes"]
         /\ Giving("access", c) => AccessOf(c, t) \in Entries["access"]
         /\ Giving("hints", c) => HintsOf(c) \in Entries["hints"]
         /\ \A e \in Kept("hints") : Giving("hints", c) => ProbedOf(e, c) \in Entries["hints"]
         /\ Giving("leases", c) => <<c.value.peer>> \in Seq(Values)
         /\ \A e \in Kept("leases") : Or(e, NoLeases) \in Entries["leases"]
  <1>1. Giving("hints", c) => HintsOf(c) \in Entries["hints"]
    <2>1. Giving("hints", c) => Listed(c.value.hosts) \in Lists  BY GivingFacts, ListedFacts
    <2> QED  BY <2>1, GivingFacts, EntriesAre DEF HintsOf
  <1>2. \A e \in Kept("hints") : Giving("hints", c) => ProbedOf(e, c) \in Entries["hints"]
    BY GivingFacts, EntriesAre, NoneHeld DEF ProbedOf, Or, Kept
  <1>3. \A e \in Kept("leases") : Or(e, NoLeases) \in Entries["leases"]
    BY NoneHeld DEF Or, Kept
  <1> QED  BY <1>1, <1>2, <1>3, GivingFacts, EntriesAre DEF RouteOf, AccessOf

LEMMA GiveIs ==
  ASSUME NEW e, NEW c, NEW t
  PROVE  /\ Give("routes", e, c, t) = Merge("routes", e, RouteOf(c), c.at)
         /\ Give("access", e, c, t) = Merge("access", e, AccessOf(c, t), t)
         /\ Give("hints", e, c, t) =
              IF c.value.probe THEN Or(PruneHints(ProbedOf(e, c), c.at), ProbedOf(e, c))
              ELSE Merge("hints", e, HintsOf(c), c.at)
         /\ Give("leases", e, c, t) =
              IF c.value.lease = Absent
                THEN [Or(e, NoLeases) EXCEPT !.peers = Listed(Append(@, c.value.peer))]
                ELSE MergeLeases(Or(e, NoLeases), LeaseOf(c), c.at)
  BY DEF Give, GiveRoute, GiveAccess, GiveHints, GiveProbe, GiveLease, GivePeer, RouteOf, AccessOf, HintsOf,
         ProbedOf, LeaseOf

\* A lease put into an entry.
LEMMA LeaseGiven ==
  ASSUME StoreConstants, NEW e \in Entries["leases"], NEW c, Giving("leases", c), c.value.lease # Absent
  PROVE  /\ e.leases \cup {c.value.lease} \in SUBSET Leases
         /\ IsFiniteSet(e.leases \cup {c.value.lease})
         /\ MergeLeases(e, LeaseOf(c), c.at) =
              [leases |-> Longest({l \in e.leases \cup {c.value.lease} : l.expires > c.at}),
               peers |-> Listed(e.peers \o <<c.value.peer>>)]
         /\ MergeLeases(e, LeaseOf(c), c.at) \in Entries["leases"]
  <1>1. c.value.lease \in Leases /\ c.value.peer \in Values  BY GivingFacts
  <1>2. e.leases \in LeaseSets /\ e.peers \in Lists  BY EntriesAre
  <1> DEFINE S == e.leases \cup {c.value.lease}
  <1>3. S \in SUBSET Leases /\ IsFiniteSet(S)  BY <1>1, <1>2, LeaseSetFacts, FS_AddElement
  <1>4. MergeLeases(e, LeaseOf(c), c.at) =
          [leases |-> Longest({l \in S : l.expires > c.at}), peers |-> Listed(e.peers \o <<c.value.peer>>)]
    BY DEF MergeLeases, LeaseOf
  <1> HIDE DEF S
  <1>5. Longest({l \in S : l.expires > c.at}) \in LeaseSets  BY <1>3, LongestTyped
  <1>6. Listed(e.peers \o <<c.value.peer>>) \in Lists
    <2>1. <<c.value.peer>> \in Seq(Values)  BY <1>1
    <2> QED  BY <1>2, <2>1, ListedMerge
  <1>7. MergeLeases(e, LeaseOf(c), c.at) \in Entries["leases"]  BY <1>4, <1>5, <1>6, EntriesAre
  <1> QED  BY <1>3, <1>4, <1>7 DEF S

\* A peer put into an entry.
LEMMA PeerGiven ==
  ASSUME StoreConstants, NEW e \in Entries["leases"], NEW p \in Values
  PROVE  /\ Listed(e.peers \o <<p>>) \in Lists
         /\ [e EXCEPT !.peers = Listed(Append(@, p))] =
              [leases |-> e.leases, peers |-> Listed(e.peers \o <<p>>)]
         /\ [e EXCEPT !.peers = Listed(Append(@, p))] \in Entries["leases"]
  <1>1. e.peers \in Lists /\ e.peers \in Seq(Values) /\ e.leases \in LeaseSets
        /\ e = [leases |-> e.leases, peers |-> e.peers]
    BY EntriesAre DEF Lists
  <1>2. <<p>> \in Seq(Values) /\ Append(e.peers, p) = e.peers \o <<p>>  BY <1>1
  <1>3. Listed(e.peers \o <<p>>) \in Lists  BY <1>1, <1>2, ListedMerge
  <1> QED  BY <1>1, <1>2, <1>3, EntriesAre

LEMMA GiveTyped ==
  ASSUME StoreConstants, NEW s \in {"routes", "access", "hints", "leases"}, NEW e \in Kept(s), NEW c,
         Giving(s, c), NEW t \in Nat
  PROVE  Give(s, e, c, t) \in Entries[s]
  <1>0. c.at \in Nat  BY DEF Giving
  <1>1. CASE s = "routes"
    <2>1. RouteOf(c) \in Entries["routes"]  BY <1>1, OfTyped
    <2>2. RouteOf(c) # Absent /\ RouteOf(c) \in Kept("routes") /\ e \in Kept("routes")
      BY <1>1, <2>1, AbsentIsNone, EntriesAre DEF Kept
    <2>3. Merge("routes", e, RouteOf(c), c.at) \in Entries["routes"]
      BY <1>0, <2>2, MergeTyped, EntriesAre
    <2> QED  BY <1>1, <2>3, GiveIs
  <1>4. CASE s = "access"
    <2>1. AccessOf(c, t) \in Entries["access"]  BY <1>4, OfTyped
    <2>2. AccessOf(c, t) # Absent /\ AccessOf(c, t) \in Kept("access") /\ e \in Kept("access")
      BY <1>4, <2>1, AbsentIsNone, EntriesAre DEF Kept
    <2>3. Merge("access", e, AccessOf(c, t), t) \in Entries["access"]
      BY <2>2, MergeTyped, EntriesAre
    <2> QED  BY <1>4, <2>3, GiveIs
  <1>2. CASE s = "hints"
    <2>1. HintsOf(c) \in Entries["hints"] /\ ProbedOf(e, c) \in Entries["hints"]  BY <1>2, OfTyped
    <2>2. Absent \notin Entries["hints"]  BY AbsentIsNone, EntriesAre
    <2>3. Merge("hints", e, HintsOf(c), c.at) \in Entries["hints"]
      BY <1>0, <1>2, <2>1, <2>2, MergeTyped, EntriesAre DEF Kept
    <2>4. Prune("hints", ProbedOf(e, c), c.at) \in Kept("hints")
      BY <1>0, <2>1, PruneTyped, EntriesAre DEF Kept
    <2>5. Or(PruneHints(ProbedOf(e, c), c.at), ProbedOf(e, c)) \in Entries["hints"]
      BY <2>1, <2>2, <2>4 DEF Prune, Or, Kept
    <2> QED  BY <1>2, <2>3, <2>5, GiveIs
  <1>3. CASE s = "leases"
    <2>1. Or(e, NoLeases) \in Entries["leases"] /\ Giving("leases", c)  BY <1>3, OfTyped
    <2>2. c.value.peer \in Values  BY <2>1, GivingFacts
    <2> DEFINE f == Or(e, NoLeases)
    <2>3. Give("leases", e, c, t) = IF c.value.lease = Absent THEN [f EXCEPT !.peers = Listed(Append(@, c.value.peer))]
                                     ELSE MergeLeases(f, LeaseOf(c), c.at)
      BY GiveIs
    <2> HIDE DEF f
    <2>4. f \in Entries["leases"]  BY <2>1 DEF f
    <2>5. c.value.lease # Absent => MergeLeases(f, LeaseOf(c), c.at) \in Entries["leases"]
      BY <2>1, <2>4, LeaseGiven
    <2>6. [f EXCEPT !.peers = Listed(Append(@, c.value.peer))] \in Entries["leases"]
      BY <2>2, <2>4, PeerGiven
    <2> QED  BY <1>3, <2>3, <2>5, <2>6
  <1> QED  BY <1>1, <1>2, <1>3, <1>4

-----------------------------------------------------------------------------
(* What an entry keeps of what it was given: g are the gifts of a name, in    *)
(* their order, and t is the time.                                            *)

FreshAt(p, t) == p.at + Ttl >= t
SaidTopic(P) == {p \in P : p.value.topic # Absent}

RouteHas(e, v) ==
  /\ e.direct = v.direct
  /\ v.origin # Absent => e.origin = v.origin
  /\ v.id # Absent => e.id = v.id

RouteKeeps(e, P, t) ==
  /\ \A p \in NewestOf(P) : FreshAt(p, t) => e # Absent /\ e.at = p.at /\ RouteHas(e, p.value)
  /\ e # Absent => \E q \in P : q.at = e.at

AccessKeeps(e, P, t) ==
  /\ \A p \in NewestOf(P) :
       FreshAt(p, t) /\ p.value.expires > t =>
         e # Absent /\ e.at = p.at /\ e.token = p.value.token /\ e.expires = p.value.expires
  /\ e # Absent =>
       /\ \E q \in P : q.at = e.at
       /\ \E q \in P : q.value.token = e.token /\ (q.value.expires = 0 \/ q.value.expires = e.expires)

TopicKeeps(e, P, t) ==
  /\ \A p \in NewestOf(SaidTopic(P)) :
       FreshAt(p, t) => e # Absent /\ e.topicAt = p.at /\ e.topic = p.value.topic
  /\ e # Absent /\ e.topicAt # 0 => \E q \in SaidTopic(P) : q.at = e.topicAt

\* A list has the peers, or it is full.
ListHas(s, P) == P \subseteq ToSet(s) \/ Len(s) = MaxPeers

HostsKept(e, p, t) ==
  FreshAt(p, t) /\ p.value.hosts # <<>> =>
    e # Absent /\ e.hintsAt >= p.at /\ ListHas(e.hosts, ToSet(p.value.hosts))

ProbeKeeps(e, g, t) ==
  \A k \in DOMAIN g : LastProbe(g, k) /\ g[k].at + ProbeTtl >= t => e # Absent /\ e.probe = g[k].at

\* A lease is in a set, or as many as are kept outlive it.
LeaseKept(S, l) == l \in S \/ Cardinality(Outliving(S, l)) >= MaxLeases

LeaseKeeps(e, p, t) ==
  /\ e # Absent /\ ListHas(e.peers, {p.value.peer})
  /\ p.value.lease # Absent /\ p.value.lease.expires > t => LeaseKept(e.leases, p.value.lease)

CoreKeeps(e, p) == e # Absent /\ ToSet(p.value) \subseteq ToSet(e)

Keeps(s, e, g, t) ==
  CASE s = "routes" -> RouteKeeps(e, ToSet(g), t)
    [] s = "access" -> AccessKeeps(e, ToSet(g), t)
    [] s = "hints" -> /\ TopicKeeps(e, ToSet(g), t) /\ ProbeKeeps(e, g, t)
                      /\ \A p \in ToSet(g) : HostsKept(e, p, t)
    [] s = "leases" -> \A p \in ToSet(g) : LeaseKeeps(e, p, t)
    [] s = "cores" -> \A p \in ToSet(g) : CoreKeeps(e, p)

\* A history of gifts up to t.
Past(g, t) == \A p \in ToSet(g) : p.at \in 1..t

LEMMA GiftFacts ==
  ASSUME StoreConstants, NEW p
  PROVE  /\ p \in Gift("routes") => /\ p.at \in Nat /\ p.value.direct \in BOOLEAN
                                    /\ p.value.origin \in Maybe /\ p.value.id \in Maybe
         /\ p \in Gift("access") => p.at \in Nat /\ p.value.token \in Values /\ p.value.expires \in Nat
         /\ p \in Gift("hints") => /\ p.at \in Nat /\ p.value.topic \in Maybe /\ p.value.hosts \in Seq(Values)
                                   /\ p.value.probe \in BOOLEAN
                                   /\ p.value.probe => p.value.topic = Absent /\ p.value.hosts = <<>>
         /\ p \in Gift("leases") => /\ p.at \in Nat /\ p.value.peer \in Values
                                    /\ p.value.lease \in Leases \cup {Absent}
         /\ p \in Gift("cores") => p.at \in Nat /\ p.value \in Seq(Values)
  <1>1. p \in Gift("cores") => p.at \in Nat /\ p.value \in Seq(Values)  BY EntriesAre DEF Gift
  <1>2. ASSUME NEW s \in {"routes", "access", "hints", "leases"}, p \in Gift(s)
        PROVE  p.at \in Nat /\ p.value \in Given[s]
    BY <1>2 DEF Gift
  <1> QED  BY <1>1, <1>2 DEF StoreConstants

LEMMA TtlFacts ==
  ASSUME StoreConstants
  PROVE  Ttl \in Nat /\ ProbeTtl \in Nat /\ MaxLeases \in Nat \ {0} /\ MaxPeers \in Nat \ {0}
  BY DEF StoreConstants

\* The newest of several are newest among fewer.
LEMMA NewestWithin ==
  ASSUME NEW P, NEW Q, NEW p \in NewestOf(P \cup Q)
  PROVE  /\ p \in P \cup Q
         /\ p \in P => p \in NewestOf(P)
         /\ p \in Q => p \in NewestOf(Q)
         /\ \A q \in P \cup Q : q # p => q.at < p.at
  BY DEF NewestOf

-----------------------------------------------------------------------------
(* Pruning keeps what is fresh.                                               *)

Expired(at, ttl, t) == t > at + ttl
Lapsed(at, t) == at # 0 /\ at <= t

LEMMA NotExpired ==
  ASSUME NEW at \in Nat, NEW ttl \in Nat, NEW t \in Nat, NEW u \in Nat, u <= t, at + ttl >= t
  PROVE  ~Expired(at, ttl, u)
  BY DEF Expired

LEMMA ExpiredStays ==
  ASSUME NEW at \in Nat, NEW ttl \in Nat, NEW t \in Nat, NEW u \in Nat, t <= u
  PROVE  /\ Expired(at, ttl, t) => Expired(at, ttl, u)
         /\ Expired(at, ttl, t) => Expired(0, ttl, u)
  BY DEF Expired

LEMMA RoutePruned ==
  ASSUME StoreConstants, NEW e \in Kept("routes"), NEW P \in SUBSET Gift("routes"), NEW t \in Nat, NEW u \in Nat,
         u <= t, RouteKeeps(e, P, t)
  PROVE  RouteKeeps(Prune("routes", e, u), P, t)
  <1> DEFINE f == Prune("routes", e, u)
  <1>1. f = e \/ (f = Absent /\ Expired(e.at, Ttl, u))
    <2>1. e = Absent => f = e  BY DEF Prune
    <2>2. e # Absent => f = PruneRoute(e, u)  BY DEF Prune
    <2> HIDE DEF f
    <2>3. PruneRoute(e, u) = IF Expired(e.at, Ttl, u) THEN Absent ELSE e
      BY DEF PruneRoute, Expired
    <2> QED  BY <2>1, <2>2, <2>3
  <1>2. f = Absent => \A p \in NewestOf(P) : ~FreshAt(p, t)
    <2> SUFFICES ASSUME f = Absent, NEW p \in NewestOf(P), FreshAt(p, t)  PROVE FALSE
      OBVIOUS
    <2>1. e # Absent /\ e.at = p.at /\ p \in P  BY DEF RouteKeeps, NewestOf
    <2>2. Expired(e.at, Ttl, u)  BY <1>1, <2>1
    <2>3. p.at \in Nat  BY <2>1, GiftFacts
    <2>4. p.at + Ttl >= t  BY DEF FreshAt
    <2> QED  BY <2>1, <2>2, <2>3, <2>4, TtlFacts, NotExpired
  <1> HIDE DEF f
  <1> QED  BY <1>1, <1>2 DEF RouteKeeps, f

LEMMA AccessPruned ==
  ASSUME StoreConstants, NEW e \in Kept("access"), NEW P \in SUBSET Gift("access"), NEW t \in Nat, NEW u \in Nat,
         u <= t, AccessKeeps(e, P, t)
  PROVE  AccessKeeps(Prune("access", e, u), P, t)
  <1> DEFINE f == Prune("access", e, u)
  <1>1. f = e \/ (f = Absent /\ (Lapsed(e.expires, u) \/ Expired(e.at, Ttl, u)))
    <2>1. e = Absent => f = e  BY DEF Prune
    <2>2. e # Absent => f = PruneAccess(e, u)  BY DEF Prune
    <2> HIDE DEF f
    <2>3. PruneAccess(e, u) = IF Lapsed(e.expires, u) \/ Expired(e.at, Ttl, u) THEN Absent ELSE e
      BY DEF PruneAccess, Expired, Lapsed
    <2> QED  BY <2>1, <2>2, <2>3
  <1>2. f = Absent => \A p \in NewestOf(P) : ~(FreshAt(p, t) /\ p.value.expires > t)
    <2> SUFFICES ASSUME f = Absent, NEW p \in NewestOf(P), FreshAt(p, t), p.value.expires > t  PROVE FALSE
      OBVIOUS
    <2>1. e # Absent /\ e.at = p.at /\ e.expires = p.value.expires /\ p \in P  BY DEF AccessKeeps, NewestOf
    <2>2. Lapsed(e.expires, u) \/ Expired(e.at, Ttl, u)  BY <1>1, <2>1
    <2>3. p.at \in Nat /\ p.value.expires \in Nat  BY <2>1, GiftFacts
    <2>4. p.at + Ttl >= t  BY DEF FreshAt
    <2> QED  BY <2>1, <2>2, <2>3, <2>4, TtlFacts, NotExpired DEF Lapsed
  <1> HIDE DEF f
  <1> QED  BY <1>1, <1>2 DEF AccessKeeps, f

\* What pruning makes of hints, part by part.
LEMMA HintsPrunedTo ==
  ASSUME StoreConstants, NEW e \in Entries["hints"], NEW u \in Nat
  PROVE  LET f == Prune("hints", e, u) IN
         /\ f = PruneHints(e, u)
         /\ f # Absent =>
              /\ f.topic = (IF Expired(e.topicAt, Ttl, u) THEN Absent ELSE e.topic)
              /\ f.topicAt = (IF Expired(e.topicAt, Ttl, u) THEN 0 ELSE e.topicAt)
              /\ f.hosts = (IF Expired(e.hintsAt, Ttl, u) THEN <<>> ELSE e.hosts)
              /\ f.hintsAt = (IF Expired(e.hintsAt, Ttl, u) THEN 0 ELSE e.hintsAt)
              /\ f.probe = (IF Expired(e.probe, ProbeTtl, u) THEN 0 ELSE e.probe)
         /\ f = Absent =>
              /\ Expired(e.topicAt, Ttl, u) \/ e.topic = Absent
              /\ Expired(e.hintsAt, Ttl, u) \/ e.hosts = <<>>
              /\ Expired(e.probe, ProbeTtl, u) \/ e.probe = 0
  <1>1. e # Absent  BY AbsentIsNone, EntriesAre
  <1> DEFINE f == [topic |-> IF Expired(e.topicAt, Ttl, u) THEN Absent ELSE e.topic,
                   topicAt |-> IF Expired(e.topicAt, Ttl, u) THEN 0 ELSE e.topicAt,
                   hosts |-> IF Expired(e.hintsAt, Ttl, u) THEN <<>> ELSE e.hosts,
                   hintsAt |-> IF Expired(e.hintsAt, Ttl, u) THEN 0 ELSE e.hintsAt,
                   probe |-> IF Expired(e.probe, ProbeTtl, u) THEN 0 ELSE e.probe]
  <1>2. PruneHints(e, u) = IF f.topic = Absent /\ f.hosts = <<>> /\ f.probe = 0 THEN Absent ELSE f
    BY DEF PruneHints, Expired
  <1>3. Prune("hints", e, u) = PruneHints(e, u)  BY <1>1 DEF Prune
  <1>4. f # Absent
    <2>1. f \in Entries["hints"]  BY EntriesAre, NoneListed DEF Maybe
    <2> QED  BY <2>1, AbsentIsNone, EntriesAre
  <1> QED  BY <1>2, <1>3, <1>4

LEMMA HintsPruned ==
  ASSUME StoreConstants, NEW e \in Kept("hints"), NEW g \in Seq(Gift("hints")), NEW t \in Nat, NEW u \in Nat,
         u <= t, Past(g, t), Keeps("hints", e, g, t)
  PROVE  Keeps("hints", Prune("hints", e, u), g, t)
  <1> DEFINE f == Prune("hints", e, u)
             P == ToSet(g)
  <1>1. CASE e = Absent
    <2>1. f = Absent  BY <1>1 DEF Prune
    <2> QED  BY <1>1, <2>1
  <1>2. CASE e # Absent
    <2>1. e \in Entries["hints"]  BY <1>2 DEF Kept
    <2>2. /\ f # Absent =>
              /\ f.topic = (IF Expired(e.topicAt, Ttl, u) THEN Absent ELSE e.topic)
              /\ f.topicAt = (IF Expired(e.topicAt, Ttl, u) THEN 0 ELSE e.topicAt)
              /\ f.hosts = (IF Expired(e.hintsAt, Ttl, u) THEN <<>> ELSE e.hosts)
              /\ f.hintsAt = (IF Expired(e.hintsAt, Ttl, u) THEN 0 ELSE e.hintsAt)
              /\ f.probe = (IF Expired(e.probe, ProbeTtl, u) THEN 0 ELSE e.probe)
          /\ f = Absent =>
              /\ Expired(e.topicAt, Ttl, u) \/ e.topic = Absent
              /\ Expired(e.hintsAt, Ttl, u) \/ e.hosts = <<>>
              /\ Expired(e.probe, ProbeTtl, u) \/ e.probe = 0
      BY <2>1, HintsPrunedTo
    <2>3. /\ e.topicAt \in Nat /\ e.hintsAt \in Nat /\ e.probe \in Nat /\ e.hosts \in Lists
      BY <2>1, EntriesAre
    <2>4. TopicKeeps(e, P, t) /\ ProbeKeeps(e, g, t) /\ \A p \in P : HostsKept(e, p, t)
      BY DEF Keeps
    <2>5. \A p \in P : p \in Gift("hints") /\ p.at \in 1..t
      BY DEF Past, ToSet
    <2> HIDE DEF f, P
    <2>6. TopicKeeps(f, P, t)
      <3>1. ASSUME NEW p \in NewestOf(SaidTopic(P)), FreshAt(p, t)
            PROVE  f # Absent /\ f.topicAt = p.at /\ f.topic = p.value.topic
        <4>1. e.topicAt = p.at /\ e.topic = p.value.topic /\ p \in P /\ p.value.topic # Absent
          BY <2>4, <3>1 DEF TopicKeeps, NewestOf, SaidTopic
        <4>2. p.at \in Nat /\ p.at + Ttl >= t  BY <2>5, <3>1, <4>1 DEF FreshAt
        <4>3. ~Expired(e.topicAt, Ttl, u)  BY <4>1, <4>2, TtlFacts, NotExpired
        <4> QED  BY <2>2, <4>1, <4>3
      <3>2. f # Absent /\ f.topicAt # 0 => \E q \in SaidTopic(P) : q.at = f.topicAt
        BY <1>2, <2>2, <2>4 DEF TopicKeeps
      <3> QED  BY <3>1, <3>2 DEF TopicKeeps
    <2>7. ProbeKeeps(f, g, t)
      <3> SUFFICES ASSUME NEW k \in DOMAIN g, LastProbe(g, k), g[k].at + ProbeTtl >= t
                   PROVE  f # Absent /\ f.probe = g[k].at
        BY DEF ProbeKeeps
      <3>1. e.probe = g[k].at  BY <2>4 DEF ProbeKeeps
      <3>2. g[k].at \in 1..t
        <4>1. g[k] \in P  BY DEF P, ToSet
        <4> QED  BY <2>5, <4>1
      <3>3. ~Expired(e.probe, ProbeTtl, u) /\ e.probe # 0
        <4>1. g[k].at \in Nat /\ g[k].at # 0  BY <3>2
        <4> QED  BY <3>1, <4>1, TtlFacts, NotExpired
      <3> QED  BY <2>2, <3>1, <3>3
    <2>8. ASSUME NEW p \in P  PROVE HostsKept(f, p, t)
      <3> SUFFICES ASSUME FreshAt(p, t), p.value.hosts # <<>>
                   PROVE  f # Absent /\ f.hintsAt >= p.at /\ ListHas(f.hosts, ToSet(p.value.hosts))
        BY DEF HostsKept
      <3>1. e.hintsAt >= p.at /\ ListHas(e.hosts, ToSet(p.value.hosts))  BY <2>4 DEF HostsKept
      <3>2. p.at \in Nat /\ p.at + Ttl >= t  BY <2>5 DEF FreshAt
      <3>3. ~Expired(e.hintsAt, Ttl, u)
        <4>1. e.hintsAt + Ttl >= t  BY <2>3, <3>1, <3>2, TtlFacts
        <4> QED  BY <2>3, <4>1, TtlFacts, NotExpired
      <3>4. e.hosts # <<>>
        <4> SUFFICES ASSUME e.hosts = <<>>  PROVE FALSE
          OBVIOUS
        <4>1. ToSet(e.hosts) = {} /\ Len(e.hosts) = 0  BY DEF ToSet
        <4>2. p.value.hosts \in Seq(Values)  BY <2>5, GiftFacts
        <4>3. p.value.hosts[1] \in ToSet(p.value.hosts)  BY <4>2 DEF ToSet
        <4> QED  BY <3>1, <4>1, <4>3, TtlFacts DEF ListHas
      <3> QED  BY <2>2, <3>1, <3>3, <3>4
    <2> QED  BY <2>6, <2>7, <2>8 DEF Keeps, P, f
  <1> QED  BY <1>1, <1>2

\* A lease that lives at t stays when others come and those that have expired
\* by then, or before, are left out.
LEMMA LeaseStays ==
  ASSUME StoreConstants, NEW U \in SUBSET Leases, IsFiniteSet(U), NEW S \in SUBSET U, NEW l \in Leases,
         NEW t \in Nat, NEW u \in Nat, u <= t, l.expires > t, LeaseKept(S, l)
  PROVE  LeaseKept(Longest({m \in U : m.expires > u}), l)
  <1> DEFINE V == {m \in U : m.expires > u}
  <1>1. V \in SUBSET U  OBVIOUS
  <1>2. \A m \in U : m.expires \in Nat  BY DEF Leases
  <1>3. l.expires \in Nat  BY DEF Leases
  <1>4. l \in S => l \in V  BY <1>3
  <1>5. Outliving(S, l) \in SUBSET Outliving(V, l)
    <2> SUFFICES ASSUME NEW m \in S, Outlives(m, l)  PROVE m \in V
      BY DEF Outliving
    <2>1. m.expires \in Nat /\ m \in U  BY <1>2
    <2>2. m.expires >= l.expires  BY <1>3, <2>1 DEF Outlives
    <2>3. m.expires > u  BY <1>3, <2>1, <2>2
    <2> QED  BY <2>1, <2>3
  <1> HIDE DEF V
  <1>6. V \in SUBSET Leases /\ IsFiniteSet(V)  BY <1>1, FS_Subset
  <1>7. CASE l \in S
    <2>1. l \in V  BY <1>4, <1>7
    <2> QED  BY <1>6, <2>1, LongestOutlive DEF LeaseKept, V
  <1>8. CASE Cardinality(Outliving(S, l)) >= MaxLeases
    <2>1. Outliving(V, l) \in SUBSET V  BY DEF Outliving
    <2>2. IsFiniteSet(Outliving(V, l))  BY <1>6, <2>1, FS_Subset
    <2>3. Cardinality(Outliving(S, l)) <= Cardinality(Outliving(V, l)) /\ IsFiniteSet(Outliving(S, l))
      BY <1>5, <2>2, FS_Subset
    <2>4. Cardinality(Outliving(S, l)) \in Nat /\ Cardinality(Outliving(V, l)) \in Nat
      BY <2>2, <2>3, FS_CardinalityType
    <2>5. MaxLeases \in Nat  BY TtlFacts
    <2>6. Cardinality(Outliving(V, l)) >= MaxLeases  BY <1>8, <2>3, <2>4, <2>5
    <2> QED  BY <1>6, <2>6, LongestOutlive DEF LeaseKept, V
  <1> QED  BY <1>7, <1>8 DEF LeaseKept

LEMMA LeasePruned ==
  ASSUME StoreConstants, NEW e \in Kept("leases"), NEW p \in Gift("leases"), NEW t \in Nat, NEW u \in Nat,
         u <= t, LeaseKeeps(e, p, t)
  PROVE  LeaseKeeps(Prune("leases", e, u), p, t)
  <1>1. e # Absent /\ ListHas(e.peers, {p.value.peer})  BY DEF LeaseKeeps
  <1>2. e \in Entries["leases"]  BY <1>1 DEF Kept
  <1>3. e.leases \in LeaseSets /\ e.peers \in Lists  BY <1>2, EntriesAre
  <1>4. p.value.lease \in Leases \cup {Absent}  BY GiftFacts
  <1> DEFINE L == Longest({l \in e.leases : l.expires > u})
             f == [leases |-> L, peers |-> e.peers]
  <1>5. Prune("leases", e, u) = IF f = NoLeases THEN Absent ELSE f  BY <1>1 DEF Prune, PruneLeases
  <1>6. f # NoLeases
    <2> SUFFICES ASSUME e.peers = <<>>  PROVE FALSE
      BY DEF NoLeases
    <2>1. ToSet(e.peers) = {} /\ Len(e.peers) = 0  BY DEF ToSet
    <2> QED  BY <1>1, <2>1, TtlFacts DEF ListHas
  <1>7. ASSUME p.value.lease # Absent, p.value.lease.expires > t  PROVE LeaseKept(L, p.value.lease)
    <2> DEFINE S == e.leases
               l == p.value.lease
    <2>1. LeaseKept(S, l)  BY <1>7 DEF LeaseKeeps
    <2>2. S \in SUBSET Leases /\ IsFiniteSet(S)  BY <1>3, LeaseSetFacts
    <2>3. l \in Leases /\ l.expires > t  BY <1>4, <1>7
    <2> HIDE DEF S, l
    <2>4. S \in SUBSET S  OBVIOUS
    <2>5. LeaseKept(Longest({m \in S : m.expires > u}), l)  BY <2>1, <2>2, <2>3, <2>4, LeaseStays
    <2> QED  BY <2>5 DEF S, l
  <1> HIDE DEF L
  <1>8. f # Absent
    <2>1. L \in LeaseSets  BY <1>3, LeaseSetFacts, LongestTyped DEF L
    <2>2. f \in Entries["leases"]  BY <1>3, <2>1, EntriesAre
    <2> QED  BY <2>2, AbsentIsNone, EntriesAre
  <1> QED  BY <1>1, <1>5, <1>6, <1>7, <1>8 DEF LeaseKeeps

\* Pruning at t or earlier leaves what is fresh at t.
LEMMA PruneKeeps ==
  ASSUME StoreConstants, NEW s \in DOMAIN Entries, NEW e \in Kept(s), NEW g \in Seq(Gift(s)), NEW t \in Nat,
         NEW u \in Nat, u <= t, Past(g, t), Keeps(s, e, g, t)
  PROVE  Keeps(s, Prune(s, e, u), g, t)
  <1>1. ToSet(g) \in SUBSET Gift(s)  BY DEF ToSet
  <1>2. CASE s = "routes"
    <2>1. RouteKeeps(Prune("routes", e, u), ToSet(g), t)  BY <1>1, <1>2, RoutePruned DEF Keeps
    <2> QED  BY <1>2, <2>1 DEF Keeps
  <1>3. CASE s = "access"
    <2>1. AccessKeeps(Prune("access", e, u), ToSet(g), t)  BY <1>1, <1>3, AccessPruned DEF Keeps
    <2> QED  BY <1>3, <2>1 DEF Keeps
  <1>4. CASE s = "hints"  BY <1>4, HintsPruned
  <1>5. CASE s = "leases"
    <2>1. \A p \in ToSet(g) : LeaseKeeps(e, p, t)  BY <1>5 DEF Keeps
    <2>2. \A p \in ToSet(g) : LeaseKeeps(Prune("leases", e, u), p, t)  BY <1>1, <1>5, <2>1, LeasePruned
    <2> QED  BY <1>5, <2>2 DEF Keeps
  <1>6. CASE s = "cores"
    <2>1. Prune(s, e, u) = e  BY <1>6 DEF Prune
    <2> QED  BY <1>6, <2>1 DEF Keeps
  <1> QED  BY <1>2, <1>3, <1>4, <1>5, <1>6, EntriesAre

\* What is kept at a time is kept later.
LEMMA KeepsLater ==
  ASSUME StoreConstants, NEW s \in DOMAIN Entries, NEW e, NEW g \in Seq(Gift(s)), NEW t \in Nat, NEW u \in Nat,
         t <= u, Past(g, t), Keeps(s, e, g, t)
  PROVE  Keeps(s, e, g, u) /\ Past(g, u)
  <1> DEFINE P == ToSet(g)
  <1>1. \A p \in P : p \in Gift(s) /\ p.at \in 1..t  BY DEF ToSet, Past
  <1>2. Past(g, u)
    <2>1. 1..t \subseteq 1..u  OBVIOUS
    <2> QED  BY <1>1, <2>1 DEF Past
  <1>3. \A p \in P : FreshAt(p, u) => FreshAt(p, t)
    <2> SUFFICES ASSUME NEW p \in P, FreshAt(p, u)  PROVE FreshAt(p, t)
      OBVIOUS
    <2>1. p.at \in Nat  BY <1>1
    <2> QED  BY <2>1, TtlFacts DEF FreshAt
  <1> HIDE DEF P
  <1>4. NewestOf(P) \subseteq P /\ NewestOf(SaidTopic(P)) \subseteq P  BY DEF NewestOf, SaidTopic
  <1>5. CASE s = "routes"
    <2>1. RouteKeeps(e, P, t)  BY <1>5 DEF Keeps, P
    <2>2. RouteKeeps(e, P, u)  BY <1>3, <1>4, <2>1 DEF RouteKeeps
    <2> QED  BY <1>2, <1>5, <2>2 DEF Keeps, P
  <1>6. CASE s = "access"
    <2>1. AccessKeeps(e, P, t)  BY <1>6 DEF Keeps, P
    <2>2. \A p \in P : p.value.expires > u => p.value.expires > t
      <3> SUFFICES ASSUME NEW p \in P, p.value.expires > u  PROVE p.value.expires > t
        OBVIOUS
      <3>1. p.value.expires \in Nat  BY <1>1, <1>6, GiftFacts
      <3> QED  BY <3>1
    <2>3. AccessKeeps(e, P, u)  BY <1>3, <1>4, <2>1, <2>2 DEF AccessKeeps
    <2> QED  BY <1>2, <1>6, <2>3 DEF Keeps, P
  <1>7. CASE s = "hints"
    <2>1. TopicKeeps(e, P, t) /\ ProbeKeeps(e, g, t) /\ \A p \in P : HostsKept(e, p, t)
      BY <1>7 DEF Keeps, P
    <2>2. TopicKeeps(e, P, u)  BY <1>3, <1>4, <2>1 DEF TopicKeeps
    <2>3. ProbeKeeps(e, g, u)
      <3> SUFFICES ASSUME NEW k \in DOMAIN g, LastProbe(g, k), g[k].at + ProbeTtl >= u
                   PROVE  e # Absent /\ e.probe = g[k].at
        BY DEF ProbeKeeps
      <3>1. g[k] \in P  BY DEF P, ToSet
      <3>2. g[k].at \in Nat  BY <1>1, <3>1
      <3>3. g[k].at + ProbeTtl >= t  BY <3>2, TtlFacts
      <3> QED  BY <2>1, <3>3 DEF ProbeKeeps
    <2>4. \A p \in P : HostsKept(e, p, u)  BY <1>3, <2>1 DEF HostsKept
    <2> QED  BY <1>2, <1>7, <2>2, <2>3, <2>4 DEF Keeps, P
  <1>8. CASE s = "leases"
    <2>1. \A p \in P : LeaseKeeps(e, p, t)  BY <1>8 DEF Keeps, P
    <2>2. ASSUME NEW p \in P  PROVE LeaseKeeps(e, p, u)
      <3>1. p.value.lease \in Leases \cup {Absent}  BY <1>1, <1>8, GiftFacts
      <3>2. p.value.lease # Absent /\ p.value.lease.expires > u => p.value.lease.expires > t
        <4>1. p.value.lease # Absent => p.value.lease.expires \in Nat  BY <3>1 DEF Leases
        <4> QED  BY <4>1
      <3> QED  BY <2>1, <3>2 DEF LeaseKeeps
    <2> QED  BY <1>2, <1>8, <2>2 DEF Keeps, P
  <1>9. CASE s = "cores"
    <2>1. \A p \in P : CoreKeeps(e, p)  BY <1>9 DEF Keeps, P
    <2> QED  BY <1>2, <1>9, <2>1 DEF Keeps, P
  <1> QED  BY <1>5, <1>6, <1>7, <1>8, <1>9, EntriesAre

LEMMA NothingKept ==
  ASSUME NEW s \in DOMAIN Entries, NEW t
  PROVE  Keeps(s, Absent, <<>>, t) /\ Past(<<>>, t)
  <1>1. ToSet(<<>>) = {} /\ DOMAIN <<>> = {}  BY DEF ToSet
  <1>2. NewestOf({}) = {} /\ SaidTopic({}) = {}  BY DEF NewestOf, SaidTopic
  <1>3. RouteKeeps(Absent, {}, t) /\ AccessKeeps(Absent, {}, t) /\ TopicKeeps(Absent, {}, t)
    BY <1>2 DEF RouteKeeps, AccessKeeps, TopicKeeps
  <1>4. ProbeKeeps(Absent, <<>>, t)  BY <1>1 DEF ProbeKeeps
  <1> QED  BY <1>1, <1>3, <1>4, EntriesAre DEF Keeps, Past

-----------------------------------------------------------------------------
(* Merging keeps what either entry does.                                      *)

\* An entry that keeps the gifts Q also keeps those P that leave none.
LEMMA SetsJoined ==
  ASSUME NEW e, NEW P, NEW Q, NEW t
  PROVE  /\ RouteKeeps(Absent, P, t) /\ RouteKeeps(e, Q, t) => RouteKeeps(e, P \cup Q, t)
         /\ AccessKeeps(Absent, P, t) /\ AccessKeeps(e, Q, t) => AccessKeeps(e, P \cup Q, t)
         /\ TopicKeeps(Absent, P, t) /\ TopicKeeps(e, Q, t) => TopicKeeps(e, P \cup Q, t)
  <1>1. \A p \in NewestOf(P \cup Q) : p \in NewestOf(P) \/ p \in NewestOf(Q)
    BY NewestWithin
  <1>2. SaidTopic(P \cup Q) = SaidTopic(P) \cup SaidTopic(Q)  BY DEF SaidTopic
  <1>3. \A p \in NewestOf(SaidTopic(P \cup Q)) : p \in NewestOf(SaidTopic(P)) \/ p \in NewestOf(SaidTopic(Q))
    BY <1>2, NewestWithin
  <1>4. RouteKeeps(Absent, P, t) /\ RouteKeeps(e, Q, t) => RouteKeeps(e, P \cup Q, t)
    BY <1>1 DEF RouteKeeps
  <1>5. AccessKeeps(Absent, P, t) /\ AccessKeeps(e, Q, t) => AccessKeeps(e, P \cup Q, t)
    BY <1>1 DEF AccessKeeps
  <1>6. TopicKeeps(Absent, P, t) /\ TopicKeeps(e, Q, t) => TopicKeeps(e, P \cup Q, t)
    BY <1>2, <1>3 DEF TopicKeeps
  <1> QED  BY <1>4, <1>5, <1>6

\* The newer of two routes or tokens, the first if they are equally old.
Newer(a, b) == IF a.at >= b.at THEN a ELSE b
Older(a, b) == IF a.at >= b.at THEN b ELSE a

\* Of two entries that keep P and Q, the newest gift of all is kept by the
\* newer one.
NewerLaw(a, b, P, Q, p) ==
  /\ {a.at, b.at, p.at} \subseteq Nat
  /\ \E x \in P : x.at = a.at
  /\ \E y \in Q : y.at = b.at
  /\ p \in NewestOf(P) => a.at = p.at
  /\ p \in NewestOf(Q) => b.at = p.at
  => /\ (Newer(a, b) = a /\ p \in NewestOf(P)) \/ (Newer(a, b) = b /\ p \in NewestOf(Q))
     /\ Later(a.at, b.at) = p.at

LEMMA NewerKeeps ==
  ASSUME NEW a, NEW b, NEW P, NEW Q, NEW p \in NewestOf(P \cup Q)
  PROVE  NewerLaw(a, b, P, Q, p)
  <1> SUFFICES ASSUME {a.at, b.at, p.at} \subseteq Nat,
                      p \in NewestOf(P) => a.at = p.at, p \in NewestOf(Q) => b.at = p.at,
                      NEW x \in P, x.at = a.at, NEW y \in Q, y.at = b.at
               PROVE  /\ (Newer(a, b) = a /\ p \in NewestOf(P)) \/ (Newer(a, b) = b /\ p \in NewestOf(Q))
                      /\ Later(a.at, b.at) = p.at
    BY DEF NewerLaw
  <1>1. \A q \in P \cup Q : q # p => q.at < p.at  BY NewestWithin
  <1>2. x = p \/ a.at < p.at  BY <1>1
  <1>3. y = p \/ b.at < p.at  BY <1>1
  <1>4. CASE p \in P
    <2>1. p \in NewestOf(P)  BY <1>4, NewestWithin
    <2>2. a.at >= b.at /\ a.at = p.at  BY <1>3, <2>1
    <2> QED  BY <2>1, <2>2 DEF Newer, Later
  <1>5. CASE p \notin P
    <2>1. p \in NewestOf(Q)  BY <1>5, NewestWithin
    <2>2. a.at < p.at /\ b.at = p.at  BY <1>2, <1>5, <2>1
    <2>3. ~(a.at >= b.at)  BY <2>2
    <2> QED  BY <2>1, <2>2, <2>3 DEF Newer, Later
  <1> QED  BY <1>4, <1>5

\* What f, the merge of a and b, keeps of P and Q.
RouteMergeLaw(f, a, b, P, Q, t, u) ==
  /\ f # Absent /\ f.at = Later(Later(a.at, b.at), u)
  /\ \A p \in NewestOf(P \cup Q) : FreshAt(p, t) => RouteHas(f, p.value) /\ Later(a.at, b.at) = p.at
  /\ \E q \in P \cup Q : q.at = Later(a.at, b.at)

LEMMA RouteMerged ==
  ASSUME StoreConstants, NEW a \in Entries["routes"], NEW b \in Entries["routes"],
         NEW P \in SUBSET Gift("routes"), NEW Q \in SUBSET Gift("routes"), NEW t, NEW u \in Nat,
         RouteKeeps(a, P, t), RouteKeeps(b, Q, t)
  PROVE  RouteMergeLaw(Merge("routes", a, b, u), a, b, P, Q, t, u)
  <1> DEFINE n == Newer(a, b)
             o == Older(a, b)
             f == Merge("routes", a, b, u)
  <1>1. a # Absent /\ b # Absent  BY AbsentIsNone, EntriesAre
  <1>2. f = [origin |-> Or(n.origin, o.origin), id |-> Or(n.id, o.id), direct |-> n.direct,
             at |-> Later(Later(a.at, b.at), u)]
    BY <1>1 DEF Merge, MergeRoute, Newer, Older
  <1>3. a.at \in Nat /\ b.at \in Nat  BY EntriesAre
  <1>4. f # Absent
    <2>1. a \in Kept("routes") /\ b \in Kept("routes")  BY DEF Kept
    <2>2. f \in Entries["routes"]  BY <1>1, <2>1, MergeTyped, EntriesAre
    <2> QED  BY <2>2, AbsentIsNone, EntriesAre
  <1>5. (\E x \in P : x.at = a.at) /\ \E y \in Q : y.at = b.at  BY <1>1 DEF RouteKeeps
  <1> HIDE DEF f
  <1>6. ASSUME NEW p \in NewestOf(P \cup Q), FreshAt(p, t)
        PROVE  RouteHas(f, p.value) /\ Later(a.at, b.at) = p.at
    <2>1. p \in Gift("routes")  BY DEF NewestOf
    <2>2. p.at \in Nat  BY <2>1, GiftFacts
    <2>3. p \in NewestOf(P) => a.at = p.at /\ RouteHas(a, p.value)  BY <1>6 DEF RouteKeeps
    <2>4. p \in NewestOf(Q) => b.at = p.at /\ RouteHas(b, p.value)  BY <1>6 DEF RouteKeeps
    <2>5. /\ (n = a /\ p \in NewestOf(P)) \/ (n = b /\ p \in NewestOf(Q))
          /\ Later(a.at, b.at) = p.at
      <3>1. NewerLaw(a, b, P, Q, p)  BY NewerKeeps
      <3> QED  BY <1>3, <1>5, <2>2, <2>3, <2>4, <3>1 DEF NewerLaw
    <2>6. RouteHas(n, p.value)  BY <2>3, <2>4, <2>5
    <2> HIDE DEF n, o
    <2>7. RouteHas(f, p.value)  BY <1>2, <2>6 DEF RouteHas, Or
    <2> QED  BY <2>5, <2>7
  <1>7. \E q \in P \cup Q : q.at = Later(a.at, b.at)  BY <1>5 DEF Later
  <1>8. f.at = Later(Later(a.at, b.at), u)  BY <1>2
  <1> QED  BY <1>4, <1>6, <1>7, <1>8 DEF f, RouteMergeLaw

AccessMergeLaw(f, a, b, P, Q, t, u) ==
  /\ f # Absent /\ f.at = Later(Later(a.at, b.at), u)
  /\ \A p \in NewestOf(P \cup Q) :
       FreshAt(p, t) /\ p.value.expires > t =>
         f.token = p.value.token /\ f.expires = p.value.expires /\ Later(a.at, b.at) = p.at
  /\ \E q \in P \cup Q : q.at = Later(a.at, b.at)
  /\ \E q \in P \cup Q :
       /\ q.value.token = f.token
       /\ q.value.expires = 0 \/ q.value.expires = f.expires
  /\ f.expires \in {a.expires, b.expires}

LEMMA AccessMerged ==
  ASSUME StoreConstants, NEW a \in Entries["access"], NEW b \in Entries["access"],
         NEW P \in SUBSET Gift("access"), NEW Q \in SUBSET Gift("access"), NEW t \in Nat, NEW u \in Nat,
         AccessKeeps(a, P, t), AccessKeeps(b, Q, t)
  PROVE  AccessMergeLaw(Merge("access", a, b, u), a, b, P, Q, t, u)
  <1> DEFINE n == Newer(a, b)
             o == Older(a, b)
             f == Merge("access", a, b, u)
  <1>1. a # Absent /\ b # Absent  BY AbsentIsNone, EntriesAre
  <1>2. f = [token |-> n.token, expires |-> IF n.expires # 0 THEN n.expires ELSE o.expires,
             at |-> Later(Later(a.at, b.at), u)]
    BY <1>1 DEF Merge, MergeAccess, Newer, Older
  <1>3. a.at \in Nat /\ b.at \in Nat  BY EntriesAre
  <1>4. f # Absent
    <2>1. a \in Kept("access") /\ b \in Kept("access")  BY DEF Kept
    <2>2. f \in Entries["access"]  BY <1>1, <2>1, MergeTyped, EntriesAre
    <2> QED  BY <2>2, AbsentIsNone, EntriesAre
  <1>5. (\E x \in P : x.at = a.at) /\ \E y \in Q : y.at = b.at  BY <1>1 DEF AccessKeeps
  <1> HIDE DEF f
  <1>6. ASSUME NEW p \in NewestOf(P \cup Q), FreshAt(p, t), p.value.expires > t
        PROVE  f.token = p.value.token /\ f.expires = p.value.expires /\ Later(a.at, b.at) = p.at
    <2>1. p \in Gift("access")  BY DEF NewestOf
    <2>2. p.at \in Nat /\ p.value.expires \in Nat  BY <2>1, GiftFacts
    <2>3. p \in NewestOf(P) => a.at = p.at /\ a.token = p.value.token /\ a.expires = p.value.expires
      BY <1>6 DEF AccessKeeps
    <2>4. p \in NewestOf(Q) => b.at = p.at /\ b.token = p.value.token /\ b.expires = p.value.expires
      BY <1>6 DEF AccessKeeps
    <2>5. /\ (n = a /\ p \in NewestOf(P)) \/ (n = b /\ p \in NewestOf(Q))
          /\ Later(a.at, b.at) = p.at
      <3>1. NewerLaw(a, b, P, Q, p)  BY NewerKeeps
      <3> QED  BY <1>3, <1>5, <2>2, <2>3, <2>4, <3>1 DEF NewerLaw
    <2>6. n.token = p.value.token /\ n.expires = p.value.expires  BY <2>3, <2>4, <2>5
    <2>7. p.value.expires # 0  BY <1>6, <2>2
    <2> HIDE DEF n, o
    <2> QED  BY <1>2, <2>5, <2>6, <2>7
  <1>7. \E q \in P \cup Q : q.at = Later(a.at, b.at)  BY <1>5 DEF Later
  <1>8. f.at = Later(Later(a.at, b.at), u)  BY <1>2
  <1>9. n \in {a, b} /\ o \in {a, b}  BY DEF Newer, Older
  <1>10. \E q \in P \cup Q : q.value.token = n.token /\ (q.value.expires = 0 \/ q.value.expires = n.expires)
    BY <1>1, <1>9 DEF AccessKeeps
  <1>11. \E q \in P \cup Q : q.value.token = f.token /\ (q.value.expires = 0 \/ q.value.expires = f.expires)
    <2> HIDE DEF n, o
    <2> QED  BY <1>2, <1>10
  <1>12. f.expires \in {a.expires, b.expires}
    <2> HIDE DEF n, o
    <2> QED  BY <1>2, <1>9
  <1> QED  BY <1>4, <1>6, <1>7, <1>8, <1>11, <1>12 DEF f, AccessMergeLaw

LEMMA HintsMergedTo ==
  ASSUME StoreConstants, NEW a \in Entries["hints"], NEW b \in Entries["hints"], NEW u \in Nat
  PROVE  LET f == Merge("hints", a, b, u) IN
         /\ f # Absent
         /\ f.topic = (IF b.topicAt >= a.topicAt THEN b.topic ELSE a.topic)
         /\ f.topicAt = Later(a.topicAt, b.topicAt)
         /\ f.hosts = Listed(a.hosts \o b.hosts)
         /\ f.hintsAt = Later(a.hintsAt, b.hintsAt)
         /\ f.probe = (IF b.probe # 0 THEN b.probe ELSE a.probe)
  <1>1. a # Absent /\ b # Absent /\ a \in Kept("hints") /\ b \in Kept("hints")
    BY AbsentIsNone, EntriesAre DEF Kept
  <1>2. Merge("hints", a, b, u) = MergeHints(a, b, u)  BY <1>1 DEF Merge
  <1>3. Merge("hints", a, b, u) # Absent
    <2>1. Merge("hints", a, b, u) \in Entries["hints"]  BY <1>1, MergeTyped, EntriesAre
    <2> QED  BY <2>1, AbsentIsNone, EntriesAre
  <1> QED  BY <1>2, <1>3 DEF MergeHints

LEMMA TopicMerged ==
  ASSUME StoreConstants, NEW a \in Entries["hints"], NEW b \in Entries["hints"],
         NEW P \in SUBSET Gift("hints"), NEW Q \in SUBSET Gift("hints"), NEW t, NEW u \in Nat,
         TopicKeeps(a, P, t), TopicKeeps(b, Q, t), \A p \in P \cup Q : p.at \in Nat \ {0}
  PROVE  TopicKeeps(Merge("hints", a, b, u), P \cup Q, t)
  <1> DEFINE f == Merge("hints", a, b, u)
             A == SaidTopic(P)
             B == SaidTopic(Q)
  <1>1. a # Absent /\ b # Absent  BY AbsentIsNone, EntriesAre
  <1>2. /\ f # Absent
        /\ f.topic = (IF b.topicAt >= a.topicAt THEN b.topic ELSE a.topic)
        /\ f.topicAt = Later(a.topicAt, b.topicAt)
    BY HintsMergedTo
  <1>3. a.topicAt \in Nat /\ b.topicAt \in Nat  BY EntriesAre
  <1>4. SaidTopic(P \cup Q) = A \cup B /\ \A p \in A \cup B : p.at \in Nat \ {0}  BY DEF SaidTopic
  <1>5. /\ a.topicAt # 0 => \E q \in A : q.at = a.topicAt
        /\ b.topicAt # 0 => \E q \in B : q.at = b.topicAt
    BY <1>1 DEF TopicKeeps
  <1>6. /\ \A p \in NewestOf(A) : FreshAt(p, t) => a.topicAt = p.at /\ a.topic = p.value.topic
        /\ \A p \in NewestOf(B) : FreshAt(p, t) => b.topicAt = p.at /\ b.topic = p.value.topic
    BY DEF TopicKeeps
  <1> HIDE DEF f, A, B
  <1>7. ASSUME NEW p \in NewestOf(A \cup B), FreshAt(p, t)
        PROVE  f.topicAt = p.at /\ f.topic = p.value.topic
    <2>1. /\ p \in A \cup B /\ (p \in A => p \in NewestOf(A)) /\ (p \in B => p \in NewestOf(B))
          /\ \A q \in A \cup B : q # p => q.at < p.at
      BY NewestWithin
    <2>2. p.at \in Nat /\ p.at # 0  BY <1>4, <2>1
    <2>3. CASE p \in B
      <3>1. b.topicAt = p.at /\ b.topic = p.value.topic  BY <1>6, <1>7, <2>1, <2>3
      <3>2. a.topicAt <= p.at
        <4>1. CASE a.topicAt = 0  BY <2>2, <4>1
        <4>2. CASE a.topicAt # 0
          <5>1. PICK q \in A : q.at = a.topicAt  BY <1>5, <4>2
          <5>2. q = p \/ q.at < p.at  BY <2>1
          <5> QED  BY <1>3, <2>2, <5>1, <5>2
        <4> QED  BY <4>1, <4>2
      <3>3. b.topicAt >= a.topicAt  BY <1>3, <2>2, <3>1, <3>2
      <3>4. Later(a.topicAt, b.topicAt) = p.at  BY <1>3, <3>1, <3>3 DEF Later
      <3> QED  BY <1>2, <3>1, <3>3, <3>4
    <2>4. CASE p \notin B
      <3>1. a.topicAt = p.at /\ a.topic = p.value.topic  BY <1>6, <1>7, <2>1, <2>4
      <3>2. b.topicAt < p.at
        <4>1. CASE b.topicAt = 0  BY <2>2, <4>1
        <4>2. CASE b.topicAt # 0
          <5>1. PICK q \in B : q.at = b.topicAt  BY <1>5, <4>2
          <5>2. q.at < p.at  BY <2>1, <2>4
          <5> QED  BY <5>1, <5>2
        <4> QED  BY <4>1, <4>2
      <3>3. ~(b.topicAt >= a.topicAt)  BY <1>3, <3>1, <3>2
      <3>4. Later(a.topicAt, b.topicAt) = p.at  BY <1>3, <3>1, <3>2 DEF Later
      <3> QED  BY <1>2, <3>1, <3>3, <3>4
    <2> QED  BY <2>3, <2>4
  <1>8. f.topicAt # 0 => \E q \in A \cup B : q.at = f.topicAt  BY <1>2, <1>5 DEF Later
  <1> QED  BY <1>2, <1>4, <1>7, <1>8 DEF TopicKeeps, f

LEMMA ListsMerged ==
  ASSUME StoreConstants, NEW a \in Lists, NEW b \in Lists, NEW S
  PROVE  ListHas(a, S) \/ ListHas(b, S) => ListHas(Listed(a \o b), S)
  <1>1. b \in Seq(Values)  BY ListFacts
  <1> DEFINE l == Listed(a \o b)
  <1>2. /\ ToSet(a) \subseteq ToSet(l) /\ (Len(a) = MaxPeers => Len(l) = MaxPeers)
        /\ ToSet(b) \subseteq ToSet(l) \/ Len(l) = MaxPeers
        /\ Len(b) = MaxPeers => Len(l) = MaxPeers
    BY <1>1, ListedMerge
  <1> HIDE DEF l
  <1>3. ListHas(a, S) \/ ListHas(b, S) => ListHas(l, S)  BY <1>2 DEF ListHas
  <1> QED  BY <1>3 DEF l

LEMMA HostsMerged ==
  ASSUME StoreConstants, NEW a \in Entries["hints"], NEW b \in Entries["hints"], NEW p \in Gift("hints"),
         NEW t, NEW u \in Nat, HostsKept(a, p, t) \/ HostsKept(b, p, t)
  PROVE  HostsKept(Merge("hints", a, b, u), p, t)
  <1> DEFINE f == Merge("hints", a, b, u)
             S == ToSet(p.value.hosts)
  <1>1. f # Absent /\ f.hosts = Listed(a.hosts \o b.hosts) /\ f.hintsAt = Later(a.hintsAt, b.hintsAt)
    BY HintsMergedTo
  <1>2. a.hintsAt \in Nat /\ b.hintsAt \in Nat /\ a.hosts \in Lists /\ b.hosts \in Lists  BY EntriesAre
  <1>3. p.at \in Nat  BY GiftFacts
  <1> HIDE DEF f, S
  <1>4. ListHas(a.hosts, S) \/ ListHas(b.hosts, S) => ListHas(f.hosts, S)  BY <1>1, <1>2, ListsMerged
  <1>5. a.hintsAt >= p.at \/ b.hintsAt >= p.at => f.hintsAt >= p.at  BY <1>1, <1>2, <1>3 DEF Later
  <1> QED  BY <1>1, <1>4, <1>5 DEF HostsKept, S, f

LEMMA LeasesMerged ==
  ASSUME StoreConstants, NEW a \in Entries["leases"], NEW b \in Entries["leases"], NEW p \in Gift("leases"),
         NEW t \in Nat, NEW u \in Nat, u <= t, LeaseKeeps(a, p, t) \/ LeaseKeeps(b, p, t)
  PROVE  LeaseKeeps(MergeLeases(a, b, u), p, t)
  <1> DEFINE U == a.leases \cup b.leases
             f == MergeLeases(a, b, u)
             l == p.value.lease
  <1>1. a.leases \in LeaseSets /\ b.leases \in LeaseSets /\ a.peers \in Lists /\ b.peers \in Lists
    BY EntriesAre
  <1>2. U \in SUBSET Leases /\ IsFiniteSet(U) /\ a.leases \in SUBSET U /\ b.leases \in SUBSET U
    BY <1>1, LeaseSetFacts, FS_Union
  <1>3. f = [leases |-> Longest({m \in U : m.expires > u}), peers |-> Listed(a.peers \o b.peers)]
    BY DEF MergeLeases
  <1>4. ListHas(f.peers, {p.value.peer})
    <2>1. ListHas(a.peers, {p.value.peer}) \/ ListHas(b.peers, {p.value.peer})  BY DEF LeaseKeeps
    <2> QED  BY <1>1, <1>3, <2>1, ListsMerged
  <1>5. l \in Leases \cup {Absent}  BY GiftFacts
  <1> HIDE DEF U, f, l
  <1>6. ASSUME l # Absent, l.expires > t  PROVE LeaseKept(f.leases, l)
    <2>1. l \in Leases  BY <1>5, <1>6
    <2>2. LeaseKept(a.leases, l) \/ LeaseKept(b.leases, l)  BY <1>6 DEF LeaseKeeps, l
    <2>3. PICK S \in SUBSET U : LeaseKept(S, l)  BY <1>2, <2>2
    <2>4. LeaseKept(Longest({m \in U : m.expires > u}), l)  BY <1>2, <1>6, <2>1, <2>3, LeaseStays
    <2> QED  BY <1>3, <2>4
  <1>7. f # Absent
    <2>1. Longest({m \in U : m.expires > u}) \in LeaseSets  BY <1>2, LongestTyped
    <2>2. b.peers \in Seq(Values)  BY <1>1, ListFacts
    <2>3. Listed(a.peers \o b.peers) \in Lists  BY <1>1, <2>2, ListedMerge
    <2>4. f \in Entries["leases"]  BY <1>3, <2>1, <2>3, EntriesAre
    <2> QED  BY <2>4, AbsentIsNone, EntriesAre
  <1> QED  BY <1>4, <1>6, <1>7 DEF LeaseKeeps, f, l

LEMMA CoresMerged ==
  ASSUME StoreConstants, NEW a \in Kept("cores"), NEW b \in Kept("cores"), NEW p, NEW u \in Nat,
         CoreKeeps(a, p) \/ CoreKeeps(b, p)
  PROVE  CoreKeeps(Merge("cores", a, b, u), p)
  <1>1. CASE a = Absent \/ b = Absent  BY <1>1 DEF CoreKeeps, Merge
  <1>2. CASE a # Absent /\ b # Absent
    <2>1. a \in Seq(Values) /\ b \in Seq(Values)  BY <1>2, EntriesAre DEF Kept
    <2>2. Merge("cores", a, b, u) = Distinct(a \o b)  BY <1>2 DEF Merge
    <2>3. a \o b \in Seq(Values) /\ ToSet(a \o b) = ToSet(a) \cup ToSet(b)  BY <2>1, ConcatElements
    <2>4. ToSet(Distinct(a \o b)) = ToSet(a) \cup ToSet(b) /\ Distinct(a \o b) \in Seq(Values)
      BY <2>3, DistinctFacts
    <2>5. Distinct(a \o b) # Absent  BY <2>4, AbsentIsNone, EntriesAre
    <2> QED  BY <2>2, <2>4, <2>5 DEF CoreKeeps
  <1> QED  BY <1>1, <1>2

\* An entry keeps what was given before and after, when it keeps the one and
\* nothing was given of the other.
LEMMA HistoriesJoined ==
  ASSUME StoreConstants, NEW s \in DOMAIN Entries, NEW e, NEW g \in Seq(Gift(s)), NEW h \in Seq(Gift(s)),
         NEW t \in Nat
  PROVE  /\ Keeps(s, e, g, t) /\ Keeps(s, Absent, h, t) => Keeps(s, e, g \o h, t)
         /\ Keeps(s, Absent, g, t) /\ Keeps(s, e, h, t) => Keeps(s, e, g \o h, t)
  <1>1. ToSet(g \o h) = ToSet(g) \cup ToSet(h) /\ ToSet(g) \cup ToSet(h) = ToSet(h) \cup ToSet(g)
    BY ConcatElements
  <1>2. CASE s = "routes"
    <2> DEFINE P == ToSet(g)
               Q == ToSet(h)
    <2> HIDE DEF P, Q
    <2>1. /\ RouteKeeps(Absent, P, t) /\ RouteKeeps(e, Q, t) => RouteKeeps(e, P \cup Q, t)
          /\ RouteKeeps(Absent, Q, t) /\ RouteKeeps(e, P, t) => RouteKeeps(e, Q \cup P, t)
      BY SetsJoined
    <2> QED  BY <1>1, <1>2, <2>1 DEF Keeps, P, Q
  <1>3. CASE s = "access"
    <2> DEFINE P == ToSet(g)
               Q == ToSet(h)
    <2> HIDE DEF P, Q
    <2>1. /\ AccessKeeps(Absent, P, t) /\ AccessKeeps(e, Q, t) => AccessKeeps(e, P \cup Q, t)
          /\ AccessKeeps(Absent, Q, t) /\ AccessKeeps(e, P, t) => AccessKeeps(e, Q \cup P, t)
      BY SetsJoined
    <2> QED  BY <1>1, <1>3, <2>1 DEF Keeps, P, Q
  <1>4. CASE s = "hints"
    <2>1. /\ Len(g) \in Nat /\ Len(h) \in Nat /\ DOMAIN g = 1..Len(g) /\ DOMAIN h = 1..Len(h)
          /\ Len(g \o h) = Len(g) + Len(h) /\ DOMAIN (g \o h) = 1..(Len(g) + Len(h))
          /\ \A k \in 1..Len(g) : (g \o h)[k] = g[k]
          /\ \A k \in 1..Len(h) : (g \o h)[Len(g) + k] = h[k]
      OBVIOUS
    <2>2. ASSUME NEW k \in 1..Len(g), LastProbe(g \o h, k)  PROVE LastProbe(g, k)
      <3>1. g[k].value.probe  BY <2>1, <2>2 DEF LastProbe
      <3>2. ASSUME NEW j \in (k + 1)..Len(g)  PROVE ~g[j].value.probe
        <4>1. j \in (k + 1)..Len(g \o h) /\ j \in 1..Len(g)  BY <2>1
        <4> QED  BY <2>1, <2>2, <4>1 DEF LastProbe
      <3> QED  BY <3>1, <3>2 DEF LastProbe
    <2>3. ASSUME NEW k \in 1..Len(h), LastProbe(g \o h, Len(g) + k)  PROVE LastProbe(h, k)
      <3>1. h[k].value.probe  BY <2>1, <2>3 DEF LastProbe
      <3>2. ASSUME NEW j \in (k + 1)..Len(h)  PROVE ~h[j].value.probe
        <4>1. Len(g) + j \in (Len(g) + k + 1)..Len(g \o h) /\ j \in 1..Len(h)  BY <2>1
        <4>2. ~(g \o h)[Len(g) + j].value.probe  BY <2>3, <4>1 DEF LastProbe
        <4> QED  BY <2>1, <4>1, <4>2
      <3> QED  BY <3>1, <3>2 DEF LastProbe
    <2>4. ASSUME NEW a, NEW b, ProbeKeeps(a, g, t), ProbeKeeps(b, h, t), (a = e /\ b = Absent) \/ (a = Absent /\ b = e)
          PROVE  ProbeKeeps(e, g \o h, t)
      <3> SUFFICES ASSUME NEW k \in DOMAIN (g \o h), LastProbe(g \o h, k), (g \o h)[k].at + ProbeTtl >= t
                   PROVE  e # Absent /\ e.probe = (g \o h)[k].at
        BY DEF ProbeKeeps
      <3>1. CASE k \in 1..Len(g)
        <4>1. LastProbe(g, k) /\ (g \o h)[k] = g[k] /\ k \in DOMAIN g  BY <2>1, <2>2, <3>1
        <4> QED  BY <2>4, <4>1 DEF ProbeKeeps
      <3>2. CASE k \notin 1..Len(g)
        <4>1. k - Len(g) \in 1..Len(h) /\ Len(g) + (k - Len(g)) = k  BY <2>1, <3>2
        <4>2. LastProbe(h, k - Len(g)) /\ (g \o h)[k] = h[k - Len(g)] /\ k - Len(g) \in DOMAIN h
          BY <2>1, <2>3, <4>1
        <4> QED  BY <2>4, <4>2 DEF ProbeKeeps
      <3> QED  BY <3>1, <3>2
    <2>5. /\ ProbeKeeps(e, g, t) /\ ProbeKeeps(Absent, h, t) => ProbeKeeps(e, g \o h, t)
          /\ ProbeKeeps(Absent, g, t) /\ ProbeKeeps(e, h, t) => ProbeKeeps(e, g \o h, t)
      BY <2>4
    <2>6. /\ TopicKeeps(e, ToSet(g), t) /\ TopicKeeps(Absent, ToSet(h), t) => TopicKeeps(e, ToSet(g \o h), t)
          /\ TopicKeeps(Absent, ToSet(g), t) /\ TopicKeeps(e, ToSet(h), t) => TopicKeeps(e, ToSet(g \o h), t)
      BY <1>1, SetsJoined
    <2>7. \A p : HostsKept(Absent, p, t) => HostsKept(e, p, t)  BY DEF HostsKept
    <2> QED  BY <1>1, <1>4, <2>5, <2>6, <2>7 DEF Keeps
  <1>5. CASE s = "leases"
    <2>1. \A p : ~LeaseKeeps(Absent, p, t)  BY DEF LeaseKeeps
    <2> QED  BY <1>1, <1>5, <2>1 DEF Keeps
  <1>6. CASE s = "cores"
    <2>1. \A p : ~CoreKeeps(Absent, p)  BY DEF CoreKeeps
    <2> QED  BY <1>1, <1>6, <2>1 DEF Keeps
  <1> QED  BY <1>2, <1>3, <1>4, <1>5, <1>6, EntriesAre

-----------------------------------------------------------------------------
(* An upsert keeps what it is given.                                          *)

\* The gift of a call.
GiftOf(s, c, t) == [value |-> c.value, at |-> IF s = "access" THEN t ELSE c.at]

LEMMA GiftOfTyped ==
  ASSUME NEW s \in {"routes", "access", "hints", "leases"}, NEW c, Giving(s, c), NEW t \in Nat, c.at <= t
  PROVE  GiftOf(s, c, t) \in Gift(s) /\ GiftOf(s, c, t).at \in 1..t /\ GiftOf(s, c, t).value = c.value
         /\ (s # "access" => GiftOf(s, c, t).at = c.at) /\ (s = "access" => GiftOf(s, c, t).at = t)
         /\ c.at \in 1..t /\ t \in Nat \ {0}
  BY DEF Giving, GiftOf, Gift

LEMMA RouteGiven ==
  ASSUME StoreConstants, NEW e \in Kept("routes"), NEW P \in SUBSET Gift("routes"), NEW c, Giving("routes", c),
         NEW t \in Nat, c.at <= t, RouteKeeps(e, P, t)
  PROVE  RouteKeeps(Give("routes", e, c, t), P \cup {GiftOf("routes", c, t)}, t)
  <1> DEFINE b == RouteOf(c)
             q == GiftOf("routes", c, t)
             f == Give("routes", e, c, t)
  <1>1. q \in Gift("routes") /\ q.at = c.at /\ q.value = c.value /\ c.at \in Nat  BY GiftOfTyped DEF Giving
  <1>2. b \in Entries["routes"] /\ b # Absent  BY OfTyped, AbsentIsNone, EntriesAre
  <1>3. f = Merge("routes", e, b, c.at)  BY GiveIs
  <1>4. b.at = c.at /\ RouteHas(b, c.value)  BY DEF RouteOf, RouteHas
  <1> HIDE DEF b, q, f
  <1>5. RouteKeeps(b, {q}, t)  BY <1>1, <1>2, <1>4 DEF RouteKeeps, NewestOf
  <1>6. CASE e = Absent
    <2>1. f = b  BY <1>3, <1>6 DEF Merge
    <2> QED  BY <1>5, <1>6, <2>1, SetsJoined DEF q, f
  <1>7. CASE e # Absent
    <2> DEFINE Q == {q}
    <2>1. e \in Entries["routes"] /\ Q \in SUBSET Gift("routes") /\ c.at \in Nat  BY <1>1, <1>7 DEF Kept
    <2>0. RouteKeeps(b, Q, t)  BY <1>5
    <2> HIDE DEF Q
    <2>2. /\ f # Absent /\ f.at = Later(Later(e.at, b.at), c.at)
          /\ \A p \in NewestOf(P \cup Q) : FreshAt(p, t) => RouteHas(f, p.value) /\ Later(e.at, b.at) = p.at
          /\ \E x \in P \cup Q : x.at = Later(e.at, b.at)
      <3>1. RouteMergeLaw(Merge("routes", e, b, c.at), e, b, P, Q, t, c.at)
        BY <1>1, <1>2, <2>0, <2>1, RouteMerged
      <3> QED  BY <1>3, <3>1 DEF RouteMergeLaw
    <2>3. e.at \in Nat  BY <2>1, EntriesAre
    <2>4. f.at = Later(e.at, b.at)  BY <1>1, <1>4, <2>2, <2>3 DEF Later
    <2>5. RouteKeeps(f, P \cup Q, t)  BY <2>2, <2>4 DEF RouteKeeps
    <2> QED  BY <2>5 DEF q, f, Q
  <1> QED  BY <1>6, <1>7

LEMMA AccessGiven ==
  ASSUME StoreConstants, NEW e \in Kept("access"), NEW P \in SUBSET Gift("access"), NEW c, Giving("access", c),
         NEW t \in Nat, c.at <= t, \A p \in P : p.at \in 1..t, AccessKeeps(e, P, t)
  PROVE  AccessKeeps(Give("access", e, c, t), P \cup {GiftOf("access", c, t)}, t)
  <1> DEFINE b == AccessOf(c, t)
             q == GiftOf("access", c, t)
             f == Give("access", e, c, t)
  <1>1. q \in Gift("access") /\ q.at = t /\ q.value = c.value  BY GiftOfTyped
  <1>2. b \in Entries["access"] /\ b # Absent  BY OfTyped, AbsentIsNone, EntriesAre
  <1>3. f = Merge("access", e, b, t)  BY GiveIs
  <1>4. b.at = t /\ b.token = c.value.token /\ b.expires = c.value.expires  BY DEF AccessOf
  <1> HIDE DEF b, q, f
  <1>5. AccessKeeps(b, {q}, t)  BY <1>1, <1>2, <1>4 DEF AccessKeeps, NewestOf
  <1>6. CASE e = Absent
    <2>1. f = b  BY <1>3, <1>6 DEF Merge
    <2> QED  BY <1>5, <1>6, <2>1, SetsJoined DEF q, f
  <1>7. CASE e # Absent
    <2> DEFINE Q == {q}
    <2>1. e \in Entries["access"] /\ Q \in SUBSET Gift("access") /\ t \in Nat  BY <1>1, <1>7 DEF Kept
    <2>0. AccessKeeps(b, Q, t)  BY <1>5
    <2> HIDE DEF Q
    <2>2. /\ f # Absent /\ f.at = Later(Later(e.at, b.at), t)
          /\ \A p \in NewestOf(P \cup Q) :
               FreshAt(p, t) /\ p.value.expires > t =>
                 f.token = p.value.token /\ f.expires = p.value.expires /\ Later(e.at, b.at) = p.at
          /\ \E x \in P \cup Q : x.at = Later(e.at, b.at)
          /\ \E x \in P \cup Q :
               /\ x.value.token = f.token
               /\ x.value.expires = 0 \/ x.value.expires = f.expires
      <3>1. AccessMergeLaw(Merge("access", e, b, t), e, b, P, Q, t, t)
        BY <1>1, <1>2, <2>0, <2>1, AccessMerged
      <3> QED  BY <1>3, <3>1 DEF AccessMergeLaw
    <2>3. e.at \in Nat  BY <2>1, EntriesAre
    <2>4. f.at = Later(e.at, b.at)  BY <1>4, <2>2, <2>3 DEF Later
    <2>5. AccessKeeps(f, P \cup Q, t)  BY <2>2, <2>4 DEF AccessKeeps
    <2> QED  BY <2>5 DEF q, f, Q
  <1> QED  BY <1>6, <1>7

\* The last probe before and after a gift.
LEMMA ProbesAppended ==
  ASSUME StoreConstants, NEW g \in Seq(Gift("hints")), NEW q \in Gift("hints"), NEW k \in DOMAIN Append(g, q),
         LastProbe(Append(g, q), k)
  PROVE  /\ q.value.probe => Append(g, q)[k] = q
         /\ ~q.value.probe => k \in DOMAIN g /\ LastProbe(g, k) /\ Append(g, q)[k] = g[k]
  <1>1. /\ Len(g) \in Nat /\ DOMAIN g = 1..Len(g) /\ Len(Append(g, q)) = Len(g) + 1
        /\ DOMAIN Append(g, q) = 1..(Len(g) + 1)
        /\ Append(g, q)[Len(g) + 1] = q /\ \A j \in 1..Len(g) : Append(g, q)[j] = g[j]
    OBVIOUS
  <1>2. Append(g, q)[k].value.probe /\ \A j \in (k + 1)..(Len(g) + 1) : ~Append(g, q)[j].value.probe
    BY <1>1 DEF LastProbe
  <1>3. CASE k = Len(g) + 1  BY <1>1, <1>2, <1>3
  <1>4. CASE k # Len(g) + 1
    <2>1. k \in 1..Len(g) /\ Len(g) + 1 \in (k + 1)..(Len(g) + 1)  BY <1>1, <1>4
    <2>2. ~q.value.probe  BY <1>1, <1>2, <2>1
    <2>3. \A j \in (k + 1)..Len(g) : j \in (k + 1)..(Len(g) + 1) /\ j \in 1..Len(g)  BY <1>1, <2>1
    <2>4. LastProbe(g, k)  BY <1>1, <1>2, <2>1, <2>3 DEF LastProbe
    <2> QED  BY <1>1, <2>1, <2>2, <2>4
  <1> QED  BY <1>3, <1>4

LEMMA HintsGiven ==
  ASSUME StoreConstants, NEW e \in Kept("hints"), NEW g \in Seq(Gift("hints")), NEW c, Giving("hints", c),
         NEW t \in Nat, c.at <= t, Past(g, t), Keeps("hints", e, g, t), ~c.value.probe
  PROVE  Keeps("hints", Give("hints", e, c, t), Append(g, GiftOf("hints", c, t)), t)
  <1> DEFINE b == HintsOf(c)
             q == GiftOf("hints", c, t)
             f == Give("hints", e, c, t)
             P == ToSet(g)
  <1>1. q \in Gift("hints") /\ q.at = c.at /\ q.value = c.value /\ c.at \in Nat \ {0}
    BY GiftOfTyped DEF Giving
  <1>2. b \in Entries["hints"] /\ b # Absent  BY OfTyped, AbsentIsNone, EntriesAre
  <1>3. f = Merge("hints", e, b, c.at)  BY GiveIs
  <1>4. /\ b.topic = c.value.topic /\ b.topicAt = (IF c.value.topic # Absent THEN c.at ELSE 0)
        /\ b.hosts = Listed(c.value.hosts) /\ b.hintsAt = (IF c.value.hosts # <<>> THEN c.at ELSE 0)
        /\ b.probe = 0
    BY DEF HintsOf
  <1>5. ToSet(Append(g, q)) = P \cup {q} /\ P \in SUBSET Gift("hints")
    <2>1. ToSet(Append(g, q)) = P \cup {q}
      <3> HIDE DEF q
      <3>1. /\ Append(g, q) = g \o <<q>> /\ Append(g, q) \in Seq(Gift("hints"))
            /\ ToSet(Append(g, q)) = ToSet(g) \cup {q}
        BY <1>1, AppendElements
      <3> QED  BY <3>1
    <2> QED  BY <2>1 DEF ToSet
  <1>6. TopicKeeps(e, P, t) /\ ProbeKeeps(e, g, t) /\ \A p \in P : HostsKept(e, p, t)  BY DEF Keeps
  <1>7. \A p \in P : p.at \in Nat \ {0}  BY DEF Past
  <1> HIDE DEF b, q, f, P
  <1>8. TopicKeeps(b, {q}, t)
    <2>1. \A p \in NewestOf(SaidTopic({q})) : p = q /\ q.value.topic # Absent  BY DEF NewestOf, SaidTopic
    <2>2. b.topicAt # 0 => q \in SaidTopic({q}) /\ b.topicAt = q.at  BY <1>1, <1>4 DEF SaidTopic
    <2> QED  BY <1>1, <1>2, <1>4, <2>1, <2>2 DEF TopicKeeps
  <1>9. HostsKept(b, q, t)
    <2> SUFFICES ASSUME q.value.hosts # <<>>  PROVE b.hintsAt >= q.at /\ ListHas(b.hosts, ToSet(q.value.hosts))
      BY <1>2 DEF HostsKept
    <2>1. c.value.hosts \in Seq(Values)  BY GivingFacts
    <2>2. b.hintsAt = q.at  BY <1>1, <1>4
    <2>3. ToSet(c.value.hosts) \subseteq ToSet(b.hosts) \/ Len(b.hosts) = MaxPeers
      BY <1>4, <2>1, ListedFacts
    <2> QED  BY <1>1, <2>2, <2>3 DEF ListHas
  <1>10. TopicKeeps(f, P \cup {q}, t) /\ \A p \in P \cup {q} : HostsKept(f, p, t)
    <2>1. CASE e = Absent
      <3>1. f = b  BY <1>3, <2>1 DEF Merge
      <3>2. \A p \in P : HostsKept(b, p, t)  BY <1>6, <2>1 DEF HostsKept
      <3> QED  BY <1>6, <1>8, <1>9, <2>1, <3>1, <3>2, SetsJoined
    <2>2. CASE e # Absent
      <3>1. e \in Entries["hints"] /\ {q} \in SUBSET Gift("hints") /\ c.at \in Nat  BY <1>1, <2>2 DEF Kept
      <3>2. \A p \in P \cup {q} : p.at \in Nat \ {0} /\ p \in Gift("hints")  BY <1>1, <1>5, <1>7
      <3>3. TopicKeeps(f, P \cup {q}, t)  BY <1>2, <1>3, <1>5, <1>6, <1>8, <3>1, <3>2, TopicMerged
      <3>4. \A p \in P \cup {q} : HostsKept(e, p, t) \/ HostsKept(b, p, t)  BY <1>6, <1>9
      <3>5. \A p \in P \cup {q} : HostsKept(f, p, t)  BY <1>2, <1>3, <3>1, <3>2, <3>4, HostsMerged
      <3> QED  BY <3>3, <3>5
    <2> QED  BY <2>1, <2>2
  <1>11. ProbeKeeps(f, Append(g, q), t)
    <2> SUFFICES ASSUME NEW k \in DOMAIN Append(g, q), LastProbe(Append(g, q), k),
                        Append(g, q)[k].at + ProbeTtl >= t
                 PROVE  f # Absent /\ f.probe = Append(g, q)[k].at
      BY DEF ProbeKeeps
    <2>1. k \in DOMAIN g /\ LastProbe(g, k) /\ Append(g, q)[k] = g[k]  BY <1>1, ProbesAppended
    <2>2. e # Absent /\ e.probe = g[k].at  BY <1>6, <2>1 DEF ProbeKeeps
    <2>3. e \in Entries["hints"] /\ c.at \in Nat  BY <1>1, <2>2 DEF Kept
    <2>4. f # Absent /\ f.probe = e.probe  BY <1>2, <1>3, <1>4, <2>3, HintsMergedTo
    <2> QED  BY <2>1, <2>2, <2>4
  <1>12. Keeps("hints", f, Append(g, q), t)  BY <1>5, <1>10, <1>11 DEF Keeps
  <1> QED  BY <1>12 DEF f, q

LEMMA ProbeGiven ==
  ASSUME StoreConstants, NEW e \in Kept("hints"), NEW g \in Seq(Gift("hints")), NEW c, Giving("hints", c),
         NEW t \in Nat, c.at <= t, Past(g, t), Keeps("hints", e, g, t), c.value.probe
  PROVE  Keeps("hints", Give("hints", e, c, t), Append(g, GiftOf("hints", c, t)), t)
  <1> DEFINE b == ProbedOf(e, c)
             q == GiftOf("hints", c, t)
             h == Append(g, q)
             f == Give("hints", e, c, t)
             P == ToSet(g)
  <1>1. q \in Gift("hints") /\ q.at = c.at /\ q.value = c.value /\ c.at \in Nat \ {0} /\ q.at \in 1..t
    BY GiftOfTyped DEF Giving
  <1>2. b \in Entries["hints"] /\ b # Absent  BY OfTyped, AbsentIsNone, EntriesAre
  <1>3. f = Or(PruneHints(b, c.at), b)  BY GiveIs
  <1>4. b.probe = c.at /\ (e # Absent => b.topic = e.topic /\ b.topicAt = e.topicAt /\ b.hosts = e.hosts /\ b.hintsAt = e.hintsAt)
        /\ (e = Absent => b.topicAt = 0)
    <2>1. Or(e, NoHints) \in Entries["hints"]  BY NoneHeld DEF Or, Kept
    <2> QED  BY <2>1, EntriesAre DEF ProbedOf, Or, NoHints
  <1>5. h \in Seq(Gift("hints")) /\ ToSet(h) = P \cup {q} /\ P \in SUBSET Gift("hints")
    <2>1. h \in Seq(Gift("hints")) /\ ToSet(h) = P \cup {q}
      <3> HIDE DEF q
      <3>1. /\ Append(g, q) = g \o <<q>> /\ Append(g, q) \in Seq(Gift("hints"))
            /\ ToSet(Append(g, q)) = ToSet(g) \cup {q}
        BY <1>1, AppendElements
      <3> QED  BY <3>1
    <2>2. P \in SUBSET Gift("hints")  BY DEF ToSet
    <2> QED  BY <2>1, <2>2
  <1>6. TopicKeeps(e, P, t) /\ ProbeKeeps(e, g, t) /\ \A p \in P : HostsKept(e, p, t)  BY DEF Keeps
  <1>7. q.value.topic = Absent /\ q.value.hosts = <<>>  BY <1>1, GivingFacts
  <1>8. Past(h, t)
    <2>1. \A p \in P : p.at \in 1..t  BY DEF Past
    <2> QED  BY <1>1, <1>5, <2>1 DEF Past
  <1>9. ProbeKeeps(b, h, t)
    <2> SUFFICES ASSUME NEW k \in DOMAIN h, LastProbe(h, k)  PROVE b.probe = h[k].at
      BY <1>2 DEF ProbeKeeps
    <2>1. h[k] = q
      <3> HIDE DEF q
      <3> QED  BY <1>1, ProbesAppended
    <2> QED  BY <1>1, <1>4, <2>1
  <1> HIDE DEF b, q, f, P, h
  <1>10. TopicKeeps(b, P \cup {q}, t)
    <2>1. SaidTopic(P \cup {q}) = SaidTopic(P)  BY <1>7 DEF SaidTopic
    <2> QED  BY <1>2, <1>4, <1>6, <2>1 DEF TopicKeeps
  <1>11. \A p \in P \cup {q} : HostsKept(b, p, t)  BY <1>2, <1>4, <1>6, <1>7 DEF HostsKept
  <1>12. Keeps("hints", b, h, t)  BY <1>5, <1>9, <1>10, <1>11 DEF Keeps
  <1>13. Keeps("hints", Prune("hints", b, c.at), h, t)
    <2>1. b \in Kept("hints") /\ c.at \in Nat  BY <1>1, <1>2 DEF Kept
    <2> QED  BY <1>5, <1>8, <1>12, <2>1, HintsPruned
  <1>14. Prune("hints", b, c.at) = PruneHints(b, c.at)  BY <1>2 DEF Prune
  <1>15. Keeps("hints", f, h, t)
    <2>1. f = b \/ f = Prune("hints", b, c.at)  BY <1>3, <1>14 DEF Or
    <2> QED  BY <1>12, <1>13, <2>1
  <1> QED  BY <1>15 DEF f, h, q

LEMMA PeerListed ==
  ASSUME StoreConstants, NEW p \in Values
  PROVE  <<p>> \in Lists /\ ToSet(<<p>>) = {p} /\ ListHas(<<p>>, {p})
  <1>1. <<p>> \in Seq(Values) /\ Len(<<p>>) = 1 /\ DOMAIN <<p>> = {1} /\ <<p>>[1] = p  OBVIOUS
  <1>2. IsInjective(<<p>>)  BY <1>1 DEF IsInjective
  <1>3. ToSet(<<p>>) = {p}  BY <1>1 DEF ToSet
  <1>4. 1 <= MaxPeers  BY TtlFacts
  <1> QED  BY <1>1, <1>2, <1>3, <1>4 DEF Lists, ListHas

LEMMA LeaseOfTyped ==
  ASSUME StoreConstants, NEW c, Giving("leases", c), c.value.lease # Absent
  PROVE  LeaseOf(c) \in Entries["leases"]
  <1>1. c.value.lease \in Leases /\ <<c.value.peer>> \in Lists  BY GivingFacts, PeerListed
  <1>2. {c.value.lease} \in LeaseSets
    <2>1. IsFiniteSet({c.value.lease}) /\ Cardinality({c.value.lease}) = 1  BY FS_Singleton
    <2>2. 1 <= MaxLeases  BY TtlFacts
    <2> QED  BY <1>1, <2>1, <2>2 DEF LeaseSets
  <1> QED  BY <1>1, <1>2, EntriesAre DEF LeaseOf

LEMMA LeasesGiven ==
  ASSUME StoreConstants, NEW e \in Kept("leases"), NEW P \in SUBSET Gift("leases"), NEW c, Giving("leases", c),
         NEW t \in Nat, c.at <= t, \A p \in P : LeaseKeeps(e, p, t)
  PROVE  \A p \in P \cup {GiftOf("leases", c, t)} : LeaseKeeps(Give("leases", e, c, t), p, t)
  <1> DEFINE q == GiftOf("leases", c, t)
             a == Or(e, NoLeases)
             f == Give("leases", e, c, t)
             v == c.value.peer
  <1>1. q \in Gift("leases") /\ q.value = c.value /\ c.at \in Nat  BY GiftOfTyped DEF Giving
  <1>2. a \in Entries["leases"] /\ v \in Values  BY OfTyped, GivingFacts
  <1>3. f = IF c.value.lease = Absent THEN [a EXCEPT !.peers = Listed(Append(@, v))]
            ELSE MergeLeases(a, LeaseOf(c), c.at)
    BY GiveIs
  <1>4. \A p \in P : LeaseKeeps(a, p, t)  BY DEF LeaseKeeps, Or
  <1> HIDE DEF q, a, f, v
  <1>5. CASE c.value.lease = Absent
    <2>1. [a EXCEPT !.peers = Listed(Append(@, v))] = [leases |-> a.leases, peers |-> Listed(a.peers \o <<v>>)]
          /\ [a EXCEPT !.peers = Listed(Append(@, v))] \in Entries["leases"]
      BY <1>2, PeerGiven
    <2>2. f.leases = a.leases /\ f.peers = Listed(a.peers \o <<v>>) /\ f # Absent
      BY <1>3, <1>5, <2>1, AbsentIsNone, EntriesAre
    <2>3. a.peers \in Lists /\ <<v>> \in Lists /\ ListHas(<<v>>, {v})  BY <1>2, EntriesAre, PeerListed
    <2>4. \A S : ListHas(a.peers, S) \/ ListHas(<<v>>, S) => ListHas(f.peers, S)  BY <2>2, <2>3, ListsMerged
    <2>5. \A p \in P : LeaseKeeps(f, p, t)  BY <1>4, <2>2, <2>4 DEF LeaseKeeps
    <2>6. LeaseKeeps(f, q, t)
      <3>1. q.value.lease = Absent /\ q.value.peer = v  BY <1>1, <1>5 DEF v
      <3> QED  BY <2>2, <2>3, <2>4, <3>1 DEF LeaseKeeps
    <2> QED  BY <2>5, <2>6 DEF q, f
  <1>6. CASE c.value.lease # Absent
    <2> DEFINE b == LeaseOf(c)
    <2>1. b \in Entries["leases"] /\ b # Absent  BY <1>6, LeaseOfTyped, AbsentIsNone, EntriesAre
    <2>2. LeaseKeeps(b, q, t)
      <3>1. b.leases = {q.value.lease} /\ b.peers = <<q.value.peer>> /\ q.value.peer = v
        BY <1>1 DEF LeaseOf, v
      <3> QED  BY <1>2, <2>1, <3>1, PeerListed DEF LeaseKeeps, LeaseKept
    <2> HIDE DEF b
    <2>3. \A p \in P \cup {q} : p \in Gift("leases") /\ (LeaseKeeps(a, p, t) \/ LeaseKeeps(b, p, t))
      BY <1>1, <1>4, <2>2
    <2>4. \A p \in P \cup {q} : LeaseKeeps(MergeLeases(a, b, c.at), p, t)
      BY <1>1, <1>2, <2>1, <2>3, LeasesMerged
    <2>5. f = MergeLeases(a, b, c.at)  BY <1>3, <1>6 DEF b
    <2> QED  BY <2>4, <2>5 DEF q, f
  <1> QED  BY <1>5, <1>6

LEMMA GiveKeeps ==
  ASSUME StoreConstants, NEW s \in {"routes", "access", "hints", "leases"}, NEW e \in Kept(s),
         NEW g \in Seq(Gift(s)), NEW c, Giving(s, c), NEW t \in Nat, c.at <= t, Past(g, t), Keeps(s, e, g, t)
  PROVE  /\ Keeps(s, Give(s, e, c, t), Append(g, GiftOf(s, c, t)), t)
         /\ Append(g, GiftOf(s, c, t)) \in Seq(Gift(s))
         /\ Past(Append(g, GiftOf(s, c, t)), t)
  <1> DEFINE q == GiftOf(s, c, t)
             P == ToSet(g)
  <1>1. q \in Gift(s) /\ q.at \in 1..t  BY GiftOfTyped
  <1>2. Append(g, q) \in Seq(Gift(s)) /\ ToSet(Append(g, q)) = P \cup {q} /\ P \in SUBSET Gift(s)
    <2>1. Append(g, q) \in Seq(Gift(s)) /\ ToSet(Append(g, q)) = P \cup {q}
      <3> HIDE DEF q
      <3>1. /\ Append(g, q) = g \o <<q>> /\ Append(g, q) \in Seq(Gift(s))
            /\ ToSet(Append(g, q)) = ToSet(g) \cup {q}
        BY <1>1, AppendElements
      <3> QED  BY <3>1
    <2> QED  BY <2>1, SMTT(30) DEF ToSet
  <1>3. Past(Append(g, q), t) /\ \A p \in P : p.at \in 1..t
    BY <1>1, <1>2 DEF Past
  <1>4. Keeps(s, Give(s, e, c, t), Append(g, q), t)
    <2>1. CASE s = "routes"
      <3>1. RouteKeeps(Give("routes", e, c, t), P \cup {q}, t)  BY <1>2, <2>1, RouteGiven DEF Keeps
      <3> QED  BY <1>2, <2>1, <3>1 DEF Keeps
    <2>2. CASE s = "access"
      <3>1. AccessKeeps(Give("access", e, c, t), P \cup {q}, t)  BY <1>2, <1>3, <2>2, AccessGiven DEF Keeps
      <3> QED  BY <1>2, <2>2, <3>1 DEF Keeps
    <2>3. CASE s = "hints"  BY <2>3, HintsGiven, ProbeGiven
    <2>4. CASE s = "leases"
      <3>1. \A p \in P : LeaseKeeps(e, p, t)  BY <2>4 DEF Keeps
      <3>2. \A p \in P \cup {q} : LeaseKeeps(Give("leases", e, c, t), p, t)  BY <1>2, <2>4, <3>1, LeasesGiven
      <3> QED  BY <1>2, <2>4, <3>2 DEF Keeps
    <2> QED  BY <2>1, <2>2, <2>3, <2>4
  <1> QED  BY <1>2, <1>3, <1>4

-----------------------------------------------------------------------------
(* What a read of both names answers.                                         *)

Alive(e, t) == e # Absent => e.expires = 0 \/ e.expires > t

AnswerHas(s, e, P, t) ==
  CASE s = "routes" -> \A p \in NewestOf(P) : FreshAt(p, t) => e # Absent /\ RouteHas(e, p.value)
    [] s = "access" ->
         /\ \A p \in NewestOf(P) :
              FreshAt(p, t) /\ p.value.expires > t => e # Absent /\ e.token = p.value.token
         /\ e # Absent => \E p \in P : p.value.token = e.token /\ (p.value.expires = 0 \/ p.value.expires > t)
    [] s = "hints" -> TopicKeeps(e, P, t) /\ \A p \in P : HostsKept(e, p, t)
    [] s = "leases" -> \A p \in P : LeaseKeeps(e, p, t)
    [] s = "cores" -> \A p \in P : CoreKeeps(e, p)

LEMMA RoutesRead ==
  ASSUME StoreConstants, NEW a \in Kept("routes"), NEW b \in Kept("routes"), NEW P \in SUBSET Gift("routes"),
         NEW Q \in SUBSET Gift("routes"), NEW t \in Nat, RouteKeeps(a, P, t), RouteKeeps(b, Q, t)
  PROVE  \A p \in NewestOf(P \cup Q) :
           FreshAt(p, t) => Merge("routes", a, b, t) # Absent /\ RouteHas(Merge("routes", a, b, t), p.value)
  <1> DEFINE f == Merge("routes", a, b, t)
  <1>1. CASE a = Absent \/ b = Absent
    <2>1. (f = a /\ b = Absent) \/ (f = b /\ a = Absent)  BY <1>1 DEF Merge
    <2>2. P \cup Q = Q \cup P  OBVIOUS
    <2>3. RouteKeeps(b, P \cup Q, t) \/ a # Absent  BY SetsJoined
    <2>4. RouteKeeps(a, Q \cup P, t) \/ b # Absent  BY SetsJoined
    <2> HIDE DEF f
    <2>5. RouteKeeps(f, P \cup Q, t)  BY <2>1, <2>2, <2>3, <2>4
    <2> QED  BY <2>5 DEF RouteKeeps, f
  <1>2. CASE a # Absent /\ b # Absent
    <2>1. a \in Entries["routes"] /\ b \in Entries["routes"]  BY <1>2 DEF Kept
    <2>2. RouteMergeLaw(f, a, b, P, Q, t, t)  BY <2>1, RouteMerged
    <2> QED  BY <2>2 DEF RouteMergeLaw
  <1> QED  BY <1>1, <1>2

LEMMA AccessRead ==
  ASSUME StoreConstants, NEW a \in Kept("access"), NEW b \in Kept("access"), NEW P \in SUBSET Gift("access"),
         NEW Q \in SUBSET Gift("access"), NEW t \in Nat, AccessKeeps(a, P, t), AccessKeeps(b, Q, t),
         Alive(a, t), Alive(b, t)
  PROVE  AnswerHas("access", Merge("access", a, b, t), P \cup Q, t)
  <1> DEFINE f == Merge("access", a, b, t)
  <1>1. CASE a = Absent \/ b = Absent
    <2>1. (f = a /\ b = Absent) \/ (f = b /\ a = Absent)  BY <1>1 DEF Merge
    <2>2. P \cup Q = Q \cup P  OBVIOUS
    <2>3. AccessKeeps(b, P \cup Q, t) \/ a # Absent  BY SetsJoined
    <2>4. AccessKeeps(a, Q \cup P, t) \/ b # Absent  BY SetsJoined
    <2> HIDE DEF f
    <2>5. AccessKeeps(f, P \cup Q, t) /\ Alive(f, t)  BY <2>1, <2>2, <2>3, <2>4
    <2>6. f # Absent => \E q \in P \cup Q : q.value.token = f.token /\ (q.value.expires = 0 \/ q.value.expires > t)
      BY <2>5 DEF AccessKeeps, Alive
    <2>7. AnswerHas("access", f, P \cup Q, t)  BY <2>5, <2>6 DEF AccessKeeps, AnswerHas
    <2> QED  BY <2>7 DEF f
  <1>2. CASE a # Absent /\ b # Absent
    <2>1. a \in Entries["access"] /\ b \in Entries["access"]  BY <1>2 DEF Kept
    <2>2. AccessMergeLaw(f, a, b, P, Q, t, t)  BY <2>1, AccessMerged
    <2>3. f.expires = 0 \/ f.expires > t  BY <1>2, <2>2 DEF AccessMergeLaw, Alive
    <2> HIDE DEF f
    <2>4. AnswerHas("access", f, P \cup Q, t)
      <3>1. \E q \in P \cup Q : q.value.token = f.token /\ (q.value.expires = 0 \/ q.value.expires > t)
        BY <2>2, <2>3 DEF AccessMergeLaw
      <3>2. f # Absent /\ \A p \in NewestOf(P \cup Q) : FreshAt(p, t) /\ p.value.expires > t => f.token = p.value.token
        BY <2>2 DEF AccessMergeLaw
      <3> QED  BY <3>1, <3>2 DEF AnswerHas
    <2> QED  BY <2>4 DEF f
  <1> QED  BY <1>1, <1>2

LEMMA HintsRead ==
  ASSUME StoreConstants, NEW a \in Kept("hints"), NEW b \in Kept("hints"), NEW P \in SUBSET Gift("hints"),
         NEW Q \in SUBSET Gift("hints"), NEW t \in Nat, TopicKeeps(a, P, t), TopicKeeps(b, Q, t),
         \A p \in P : HostsKept(a, p, t), \A p \in Q : HostsKept(b, p, t), \A p \in P \cup Q : p.at \in 1..t
  PROVE  AnswerHas("hints", Merge("hints", a, b, t), P \cup Q, t)
  <1> DEFINE f == Merge("hints", a, b, t)
  <1>1. CASE a = Absent \/ b = Absent
    <2>1. (f = a /\ b = Absent) \/ (f = b /\ a = Absent)  BY <1>1 DEF Merge
    <2>2. P \cup Q = Q \cup P  OBVIOUS
    <2>3. TopicKeeps(b, P \cup Q, t) \/ a # Absent  BY SetsJoined
    <2>4. TopicKeeps(a, Q \cup P, t) \/ b # Absent  BY SetsJoined
    <2> HIDE DEF f
    <2>5. TopicKeeps(f, P \cup Q, t)  BY <2>1, <2>2, <2>3, <2>4
    <2>6. \A p : HostsKept(Absent, p, t) => HostsKept(f, p, t)  BY DEF HostsKept
    <2>7. \A p \in P \cup Q : HostsKept(f, p, t)  BY <2>1, <2>6
    <2>8. AnswerHas("hints", f, P \cup Q, t)  BY <2>5, <2>7 DEF AnswerHas
    <2> QED  BY <2>8 DEF f
  <1>2. CASE a # Absent /\ b # Absent
    <2>1. a \in Entries["hints"] /\ b \in Entries["hints"]  BY <1>2 DEF Kept
    <2>2. \A p \in P \cup Q : p.at \in Nat \ {0} /\ p \in Gift("hints")  OBVIOUS
    <2>3. TopicKeeps(f, P \cup Q, t)  BY <2>1, <2>2, TopicMerged
    <2>4. \A p \in P \cup Q : HostsKept(f, p, t)  BY <2>1, <2>2, HostsMerged
    <2> HIDE DEF f
    <2>5. AnswerHas("hints", f, P \cup Q, t)  BY <2>3, <2>4 DEF AnswerHas
    <2> QED  BY <2>5 DEF f
  <1> QED  BY <1>1, <1>2

LEMMA LeasesRead ==
  ASSUME StoreConstants, NEW a \in Kept("leases"), NEW b \in Kept("leases"), NEW P \in SUBSET Gift("leases"),
         NEW Q \in SUBSET Gift("leases"), NEW t \in Nat,
         \A p \in P : LeaseKeeps(a, p, t), \A p \in Q : LeaseKeeps(b, p, t)
  PROVE  \A p \in P \cup Q : LeaseKeeps(Merge("leases", a, b, t), p, t)
  <1>1. \A p \in P \cup Q : p \in Gift("leases") /\ (LeaseKeeps(a, p, t) \/ LeaseKeeps(b, p, t))  OBVIOUS
  <1>2. CASE a = Absent \/ b = Absent
    <2>1. \A p : ~LeaseKeeps(Absent, p, t)  BY DEF LeaseKeeps
    <2> QED  BY <1>1, <1>2, <2>1 DEF Merge
  <1>3. CASE a # Absent /\ b # Absent
    <2>1. a \in Entries["leases"] /\ b \in Entries["leases"]  BY <1>3 DEF Kept
    <2>2. Merge("leases", a, b, t) = MergeLeases(a, b, t)  BY <1>3 DEF Merge
    <2>3. \A p \in P \cup Q : LeaseKeeps(MergeLeases(a, b, t), p, t)  BY <1>1, <2>1, LeasesMerged
    <2> QED  BY <2>2, <2>3
  <1> QED  BY <1>2, <1>3

LEMMA MergeAnswers ==
  ASSUME StoreConstants, NEW s \in DOMAIN Entries, NEW a \in Kept(s), NEW b \in Kept(s), NEW g \in Seq(Gift(s)),
         NEW h \in Seq(Gift(s)), NEW t \in Nat, Past(g, t), Past(h, t), Keeps(s, a, g, t), Keeps(s, b, h, t),
         s = "access" => Alive(a, t) /\ Alive(b, t)
  PROVE  AnswerHas(s, Merge(s, a, b, t), ToSet(g) \cup ToSet(h), t)
  <1> DEFINE P == ToSet(g)
             Q == ToSet(h)
  <1>1. P \in SUBSET Gift(s) /\ Q \in SUBSET Gift(s)  BY DEF ToSet
  <1>2. \A p \in P \cup Q : p.at \in 1..t  BY DEF Past
  <1>3. CASE s = "routes"
    <2>1. RouteKeeps(a, P, t) /\ RouteKeeps(b, Q, t)  BY <1>3 DEF Keeps
    <2> HIDE DEF P, Q
    <2>2. \A p \in NewestOf(P \cup Q) :
            FreshAt(p, t) => Merge("routes", a, b, t) # Absent /\ RouteHas(Merge("routes", a, b, t), p.value)
      BY <1>1, <1>3, <2>1, RoutesRead
    <2> QED  BY <1>3, <2>2 DEF AnswerHas, P, Q
  <1>4. CASE s = "access"
    <2>1. AccessKeeps(a, P, t) /\ AccessKeeps(b, Q, t)  BY <1>4 DEF Keeps
    <2> HIDE DEF P, Q
    <2>2. AnswerHas("access", Merge("access", a, b, t), P \cup Q, t)  BY <1>1, <1>4, <2>1, AccessRead
    <2> QED  BY <1>4, <2>2 DEF P, Q
  <1>5. CASE s = "hints"
    <2>1. /\ TopicKeeps(a, P, t) /\ TopicKeeps(b, Q, t)
          /\ \A p \in P : HostsKept(a, p, t)
          /\ \A p \in Q : HostsKept(b, p, t)
      BY <1>5 DEF Keeps
    <2> HIDE DEF P, Q
    <2>2. AnswerHas("hints", Merge("hints", a, b, t), P \cup Q, t)  BY <1>1, <1>2, <1>5, <2>1, HintsRead
    <2> QED  BY <1>5, <2>2 DEF P, Q
  <1>6. CASE s = "leases"
    <2>1. (\A p \in P : LeaseKeeps(a, p, t)) /\ \A p \in Q : LeaseKeeps(b, p, t)  BY <1>6 DEF Keeps
    <2> HIDE DEF P, Q
    <2>2. \A p \in P \cup Q : LeaseKeeps(Merge("leases", a, b, t), p, t)  BY <1>1, <1>6, <2>1, LeasesRead
    <2> QED  BY <1>6, <2>2 DEF AnswerHas, P, Q
  <1>7. CASE s = "cores"
    <2>1. (\A p \in P : CoreKeeps(a, p)) /\ \A p \in Q : CoreKeeps(b, p)  BY <1>7 DEF Keeps
    <2> HIDE DEF P, Q
    <2>2. \A p \in P \cup Q : CoreKeeps(Merge("cores", a, b, t), p)  BY <1>7, <2>1, CoresMerged
    <2> QED  BY <1>7, <2>2 DEF AnswerHas, P, Q
  <1> QED  BY <1>3, <1>4, <1>5, <1>6, <1>7, EntriesAre

-----------------------------------------------------------------------------
(* Pruning at some time and again later is pruning later.                     *)

HintsAt(e, u) ==
  [topic |-> IF Expired(e.topicAt, Ttl, u) THEN Absent ELSE e.topic,
   topicAt |-> IF Expired(e.topicAt, Ttl, u) THEN 0 ELSE e.topicAt,
   hosts |-> IF Expired(e.hintsAt, Ttl, u) THEN <<>> ELSE e.hosts,
   hintsAt |-> IF Expired(e.hintsAt, Ttl, u) THEN 0 ELSE e.hintsAt,
   probe |-> IF Expired(e.probe, ProbeTtl, u) THEN 0 ELSE e.probe]
NoneLeft(f) == f.topic = Absent /\ f.hosts = <<>> /\ f.probe = 0

LEMMA HintsLater ==
  ASSUME StoreConstants, NEW e \in Entries["hints"], NEW t \in Nat, NEW u \in Nat, t <= u
  PROVE  Prune("hints", Prune("hints", e, t), u) = Prune("hints", e, u)
  <1>1. \A f \in Entries["hints"] : \A x \in Nat :
          /\ Prune("hints", f, x) = IF NoneLeft(HintsAt(f, x)) THEN Absent ELSE HintsAt(f, x)
          /\ HintsAt(f, x) \in Entries["hints"]
    <2> TAKE f \in Entries["hints"], x \in Nat
    <2>1. f # Absent  BY AbsentIsNone, EntriesAre
    <2>2. Prune("hints", f, x) = PruneHints(f, x)  BY <2>1 DEF Prune
    <2>3. PruneHints(f, x) = IF NoneLeft(HintsAt(f, x)) THEN Absent ELSE HintsAt(f, x)
      BY DEF PruneHints, HintsAt, NoneLeft, Expired
    <2>4. HintsAt(f, x) \in Entries["hints"]  BY EntriesAre, NoneListed DEF HintsAt, Maybe
    <2> QED  BY <2>2, <2>3, <2>4
  <1>2. e.topicAt \in Nat /\ e.hintsAt \in Nat /\ e.probe \in Nat  BY EntriesAre
  <1>3. \A at \in Nat, ttl \in Nat : Expired(at, ttl, t) => Expired(at, ttl, u) /\ Expired(0, ttl, u)
    BY ExpiredStays
  <1>4. HintsAt(HintsAt(e, t), u) = HintsAt(e, u)
    <2> DEFINE f == HintsAt(e, t)
    <2>1. /\ f.topic = (IF Expired(e.topicAt, Ttl, t) THEN Absent ELSE e.topic)
          /\ f.topicAt = (IF Expired(e.topicAt, Ttl, t) THEN 0 ELSE e.topicAt)
          /\ f.hosts = (IF Expired(e.hintsAt, Ttl, t) THEN <<>> ELSE e.hosts)
          /\ f.hintsAt = (IF Expired(e.hintsAt, Ttl, t) THEN 0 ELSE e.hintsAt)
          /\ f.probe = (IF Expired(e.probe, ProbeTtl, t) THEN 0 ELSE e.probe)
      BY DEF HintsAt
    <2> HIDE DEF f
    <2>2. /\ Expired(e.topicAt, Ttl, t) => Expired(e.topicAt, Ttl, u) /\ Expired(f.topicAt, Ttl, u)
          /\ ~Expired(e.topicAt, Ttl, t) => f.topicAt = e.topicAt
      BY <1>2, <1>3, <2>1, TtlFacts
    <2>3. /\ Expired(e.hintsAt, Ttl, t) => Expired(e.hintsAt, Ttl, u) /\ Expired(f.hintsAt, Ttl, u)
          /\ ~Expired(e.hintsAt, Ttl, t) => f.hintsAt = e.hintsAt
      BY <1>2, <1>3, <2>1, TtlFacts
    <2>4. /\ Expired(e.probe, ProbeTtl, t) => Expired(e.probe, ProbeTtl, u) /\ Expired(f.probe, ProbeTtl, u)
          /\ ~Expired(e.probe, ProbeTtl, t) => f.probe = e.probe
      BY <1>2, <1>3, <2>1, TtlFacts
    <2>5. HintsAt(f, u) = HintsAt(e, u)  BY <2>1, <2>2, <2>3, <2>4 DEF HintsAt
    <2> QED  BY <2>5 DEF f
  <1>5. NoneLeft(HintsAt(e, t)) => NoneLeft(HintsAt(e, u))
    <2>1. /\ Expired(e.topicAt, Ttl, t) => Expired(e.topicAt, Ttl, u)
          /\ Expired(e.hintsAt, Ttl, t) => Expired(e.hintsAt, Ttl, u)
          /\ Expired(e.probe, ProbeTtl, t) => Expired(e.probe, ProbeTtl, u)
      BY <1>2, <1>3, TtlFacts
    <2> QED  BY <2>1 DEF HintsAt, NoneLeft
  <1>6. CASE NoneLeft(HintsAt(e, t))
    <2>1. Prune("hints", e, t) = Absent /\ Prune("hints", e, u) = Absent  BY <1>1, <1>5, <1>6
    <2> QED  BY <2>1 DEF Prune
  <1>7. CASE ~NoneLeft(HintsAt(e, t))
    <2>1. Prune("hints", e, t) = HintsAt(e, t) /\ HintsAt(e, t) \in Entries["hints"]  BY <1>1, <1>7
    <2>2. Prune("hints", HintsAt(e, t), u) = IF NoneLeft(HintsAt(e, u)) THEN Absent ELSE HintsAt(e, u)
      BY <1>1, <1>4, <2>1
    <2> QED  BY <1>1, <2>1, <2>2
  <1> QED  BY <1>6, <1>7

LEMMA LeasesLater ==
  ASSUME StoreConstants, NEW e \in Entries["leases"], NEW t \in Nat, NEW u \in Nat, t <= u
  PROVE  Prune("leases", Prune("leases", e, t), u) = Prune("leases", e, u)
  <1> DEFINE L(S, x) == Longest({l \in S : l.expires > x})
             F(f, x) == [leases |-> L(f.leases, x), peers |-> f.peers]
  <1>1. \A f \in Entries["leases"] : \A x \in Nat :
          /\ Prune("leases", f, x) = IF F(f, x) = NoLeases THEN Absent ELSE F(f, x)
          /\ F(f, x) \in Entries["leases"]
    <2> TAKE f \in Entries["leases"], x \in Nat
    <2>0. f # Absent  BY AbsentIsNone, EntriesAre
    <2>1. f.leases \in LeaseSets /\ f.peers \in Lists  BY EntriesAre
    <2>2. L(f.leases, x) \in LeaseSets  BY <2>1, LeaseSetFacts, LongestTyped
    <2>3. F(f, x) \in Entries["leases"]  BY <2>1, <2>2, EntriesAre
    <2> QED  BY <2>0, <2>3 DEF Prune, PruneLeases
  <1>2. e.leases \in SUBSET Leases /\ IsFiniteSet(e.leases)  BY EntriesAre, LeaseSetFacts
  <1>3. L(L(e.leases, t), u) = L(e.leases, u)
    <2> DEFINE S == e.leases
    <2>1. S \in SUBSET Leases /\ IsFiniteSet(S)  BY <1>2
    <2> HIDE DEF S
    <2>2. Longest({l \in Longest({l \in S : l.expires > t}) : l.expires > u}) = Longest({l \in S : l.expires > u})
      BY <2>1, LongestLater
    <2> QED  BY <2>2 DEF S
  <1>4. L({}, u) = {}  BY DEF Longest
  <1> HIDE DEF L
  <1>5. F(e, t).leases = L(e.leases, t) /\ F(e, t).peers = e.peers  OBVIOUS
  <1>6. F(F(e, t), u) = F(e, u)  BY <1>3, <1>5
  <1>7. F(e, t) = NoLeases => F(e, u) = NoLeases
    <2> SUFFICES ASSUME F(e, t) = NoLeases  PROVE L(e.leases, u) = {} /\ e.peers = <<>>
      BY DEF NoLeases
    <2>1. L(e.leases, t) = {} /\ e.peers = <<>>  BY DEF NoLeases
    <2> QED  BY <1>3, <1>4, <2>1
  <1> HIDE DEF F
  <1>8. CASE F(e, t) = NoLeases
    <2>1. Prune("leases", e, t) = Absent /\ Prune("leases", e, u) = Absent  BY <1>1, <1>7, <1>8
    <2> QED  BY <2>1 DEF Prune
  <1>9. CASE F(e, t) # NoLeases
    <2>1. Prune("leases", e, t) = F(e, t) /\ F(e, t) \in Entries["leases"]  BY <1>1, <1>9
    <2>2. Prune("leases", F(e, t), u) = IF F(e, u) = NoLeases THEN Absent ELSE F(e, u)
      BY <1>1, <1>6, <2>1
    <2> QED  BY <1>1, <2>1, <2>2
  <1> QED  BY <1>8, <1>9

LEMMA PruneLater ==
  ASSUME StoreConstants, NEW s \in DOMAIN Entries, NEW e \in Kept(s), NEW t \in Nat, NEW u \in Nat, t <= u
  PROVE  Prune(s, Prune(s, e, t), u) = Prune(s, e, u)
  <1>1. CASE e = Absent  BY <1>1 DEF Prune
  <1>2. CASE e # Absent /\ s = "routes"
    <2>1. e \in Entries["routes"]  BY <1>2 DEF Kept
    <2>2. e.at \in Nat  BY <2>1, EntriesAre
    <2>3. Expired(e.at, Ttl, t) => Expired(e.at, Ttl, u)  BY <2>2, TtlFacts, ExpiredStays
    <2>4. \A x : PruneRoute(e, x) = IF Expired(e.at, Ttl, x) THEN Absent ELSE e  BY DEF PruneRoute, Expired
    <2> QED  BY <1>2, <2>3, <2>4 DEF Prune
  <1>3. CASE e # Absent /\ s = "access"
    <2>1. e \in Entries["access"]  BY <1>3 DEF Kept
    <2>2. e.at \in Nat /\ e.expires \in Nat  BY <2>1, EntriesAre
    <2>3. Expired(e.at, Ttl, t) => Expired(e.at, Ttl, u)  BY <2>2, TtlFacts, ExpiredStays
    <2>4. Lapsed(e.expires, t) => Lapsed(e.expires, u)  BY <2>2 DEF Lapsed
    <2>5. \A x : PruneAccess(e, x) = IF Lapsed(e.expires, x) \/ Expired(e.at, Ttl, x) THEN Absent ELSE e
      BY DEF PruneAccess, Lapsed, Expired
    <2> QED  BY <1>3, <2>3, <2>4, <2>5 DEF Prune
  <1>4. CASE e # Absent /\ s = "hints"
    <2>1. e \in Entries["hints"]  BY <1>4 DEF Kept
    <2> QED  BY <1>4, <2>1, HintsLater
  <1>5. CASE e # Absent /\ s = "leases"
    <2>1. e \in Entries["leases"]  BY <1>5 DEF Kept
    <2> QED  BY <1>5, <2>1, LeasesLater
  <1>6. CASE e # Absent /\ s = "cores"  BY <1>6 DEF Prune
  <1> QED  BY <1>1, <1>2, <1>3, <1>4, <1>5, <1>6, EntriesAre

\* A read prunes what it leaves, and what it leaves is pruned to the same.
LEMMA PrunedFacts ==
  ASSUME StoreConstants, NEW s \in DOMAIN Entries, NEW e \in Kept(s), NEW t \in Nat
  PROVE  /\ Pruned(s, e, t) \in {e, Prune(s, e, t)} /\ Pruned(s, e, t) \in Kept(s)
         /\ Prune(s, Pruned(s, e, t), t) = Prune(s, e, t)
  <1>1. Pruned(s, e, t) \in {e, Prune(s, e, t)}  BY DEF Pruned, Or
  <1>2. Prune(s, e, t) \in Kept(s)  BY PruneTyped
  <1>3. Prune(s, Prune(s, e, t), t) = Prune(s, e, t)  BY PruneLater
  <1> QED  BY <1>1, <1>2, <1>3

-----------------------------------------------------------------------------
(* The inductive invariant.                                                   *)

EntriesKeep == loaded = "yes" => \A n \in AllNames \ overlaid : Keeps(store, entries[n], given[n], now)

FileKeeps(f) == \A n \in AllNames \ overlaid : Keeps(store, f.data[n], f.given[n], now)

\* What was given while the file was not read yet comes after what the file
\* has; the references of cores are in one or the other.
Added(n) ==
  \E h \in Seq(Gifts) : given[n] = onDisk.given[n] \o h /\ Keeps(store, entries[n], h, now)

UnreadKeep ==
  loaded # "yes" => \A n \in AllNames :
    IF store = "cores"
      THEN Keeps(store, entries[n], given[n], now) \/ Keeps(store, onDisk.data[n], given[n], now)
      ELSE n \in overlaid \/ Added(n)

GivenPast ==
  /\ \A n \in AllNames : Past(given[n], now) /\ Past(onDisk.given[n], now)
  /\ \A x \in inWrite : \A n \in AllNames : Past(x.given[n], now)

KeepInv ==
  /\ store = "cores" => overlaid = {}
  /\ EntriesKeep /\ UnreadKeep /\ GivenPast
  /\ FileKeeps(onDisk) /\ \A x \in inWrite : FileKeeps(x)

SameLater(d, e) == \A n \in AllNames : Prune(store, d[n], now) = Prune(store, e[n], now)

FlushInv ==
  /\ store # "cores" => dirty = flushTimer
  /\ store = "cores" /\ flushTimer /\ ~missed => dirty /\ inWrite = {}
  /\ loaded # "yes" /\ ~flushTimer => entries = NoEntries
  /\ loaded = "no" /\ store # "cores" => ~flushTimer /\ given = onDisk.given
  /\ loaded = "yes" /\ ~flushTimer /\ ~missed =>
       /\ inWrite = {} /\ ~writeFailed => SameLater(onDisk.data, entries)
       /\ \A x \in inWrite : SameLater(x.data, entries)

-----------------------------------------------------------------------------
(* Reading.                                                                   *)

LEMMA StoreFacts ==
  ASSUME StoreConstants, StoreTypeOK
  PROVE  /\ store \in DOMAIN Entries /\ now \in Nat /\ now # 0
         /\ AllNames = {Names[1], Names[2]} /\ Names[1] # Names[2]
         /\ Held = Kept(store) /\ Gifts = Gift(store)
         /\ entries \in [AllNames -> Kept(store)] /\ cached \in [AllNames -> Kept(store)]
         /\ given \in [AllNames -> Seq(Gift(store))]
         /\ onDisk \in Files /\ inWrite \subseteq Files
         /\ Files = [data : [AllNames -> Kept(store)], given : [AllNames -> Seq(Gift(store))]]
  <1>1. AllNames = {Names[1], Names[2]}  BY DEF StoreConstants, AllNames, Range
  <1>2. Held = Kept(store) /\ Gifts = Gift(store)  BY DEF Held, Kept, Gifts, Gift
  <1> QED  BY <1>1, <1>2 DEF StoreConstants, StoreTypeOK, Files

LEMMA PrunedAlive ==
  ASSUME StoreConstants, NEW e \in Kept("access"), NEW t \in Nat
  PROVE  Alive(Prune("access", e, t), t)
  <1>1. CASE e = Absent  BY <1>1 DEF Prune, Alive
  <1>2. CASE e # Absent
    <2>1. e.expires \in Nat  BY <1>2, EntriesAre DEF Kept
    <2>2. Prune("access", e, t) = PruneAccess(e, t)  BY <1>2 DEF Prune
    <2> QED  BY <2>1, <2>2 DEF PruneAccess, Alive
  <1> QED  BY <1>1, <1>2

LEMMA ReadAnswers ==
  ASSUME StoreConstants, StoreTypeOK, GivenPast, NEW names \in SUBSET AllNames,
         \A n \in names : Keeps(store, entries[n], given[n], now)
  PROVE  /\ AnswerHas(store, Read(entries, names), Puts(names), now)
         /\ Puts(names) \in SUBSET Gift(store)
         /\ \A n \in AllNames : names = {n} => Read(entries, names) = Prune(store, entries[n], now)
  <1> DEFINE one(n) == IF n \in names THEN Prune(store, entries[n], now) ELSE Absent
             g(n) == IF n \in names THEN given[n] ELSE <<>>
  <1>1. ASSUME NEW n \in AllNames
        PROVE  /\ one(n) \in Kept(store) /\ g(n) \in Seq(Gift(store)) /\ Past(g(n), now)
               /\ Keeps(store, one(n), g(n), now) /\ (store = "access" => Alive(one(n), now))
    <2>1. CASE n \in names
      <3>1. entries[n] \in Kept(store) /\ given[n] \in Seq(Gift(store))  BY StoreFacts
      <3>2. Past(given[n], now)  BY DEF GivenPast
      <3>3. Prune(store, entries[n], now) \in Kept(store)  BY <3>1, StoreFacts, PruneTyped
      <3>4. Keeps(store, Prune(store, entries[n], now), given[n], now)
        BY <2>1, <3>1, <3>2, StoreFacts, PruneKeeps
      <3>5. store = "access" => Alive(Prune(store, entries[n], now), now)  BY <3>1, StoreFacts, PrunedAlive
      <3> QED  BY <2>1, <3>1, <3>2, <3>3, <3>4, <3>5
    <2>2. CASE n \notin names
      <3>1. Keeps(store, Absent, <<>>, now) /\ Past(<<>>, now)  BY StoreFacts, NothingKept
      <3>2. store = "access" => Alive(Absent, now)  BY DEF Alive
      <3> QED  BY <2>2, <3>1, <3>2 DEF Kept
    <2> QED  BY <2>1, <2>2
  <1>2. Read(entries, names) = Merge(store, one(Names[1]), one(Names[2]), now)  BY DEF Read
  <1>3. Puts(names) = ToSet(g(Names[1])) \cup ToSet(g(Names[2]))
    <2>1. ToSet(<<>>) = {}  BY DEF ToSet
    <2>2. \A n : ToSet(g(n)) = IF n \in names THEN ToSet(given[n]) ELSE {}  BY <2>1
    <2>3. \A n \in names : n = Names[1] \/ n = Names[2]  BY StoreFacts
    <2> HIDE DEF g
    <2> QED  BY <2>2, <2>3 DEF Puts
  <1>4. ASSUME NEW n \in AllNames, names = {n}
        PROVE  Read(entries, names) = Prune(store, entries[n], now)
    <2>1. (one(Names[1]) = Prune(store, entries[n], now) /\ one(Names[2]) = Absent)
          \/ (one(Names[2]) = Prune(store, entries[n], now) /\ one(Names[1]) = Absent)
      BY <1>4, StoreFacts
    <2> HIDE DEF one
    <2> QED  BY <1>2, <2>1 DEF Merge
  <1> HIDE DEF one, g
  <1>5. Names[1] \in AllNames /\ Names[2] \in AllNames  BY StoreFacts
  <1>6. AnswerHas(store, Read(entries, names), Puts(names), now)
    <2>1. AnswerHas(store, Merge(store, one(Names[1]), one(Names[2]), now),
                  ToSet(g(Names[1])) \cup ToSet(g(Names[2])), now)
      <3>1. one(Names[1]) \in Kept(store) /\ one(Names[2]) \in Kept(store)  BY <1>1, <1>5
      <3>2. g(Names[1]) \in Seq(Gift(store)) /\ g(Names[2]) \in Seq(Gift(store))  BY <1>1, <1>5
      <3> QED  BY <1>1, <1>5, <3>1, <3>2, StoreFacts, MergeAnswers
    <2> QED  BY <1>2, <1>3, <2>1
  <1>7. Puts(names) \in SUBSET Gift(store)  BY <1>1, <1>3, <1>5 DEF ToSet
  <1> QED  BY <1>4, <1>6, <1>7

\* What the names keep is what a read of them answers.
LEMMA AnswersRead ==
  ASSUME StoreConstants, StoreTypeOK, GivenPast, NEW names \in SUBSET AllNames,
         \A n \in names : Keeps(store, entries[n], given[n], now)
  PROVE  NewestRead(names) /\ NothingCrowdedOut(names)
  <1> DEFINE e == Read(entries, names)
             P == Puts(names)
  <1>1. AnswerHas(store, e, P, now) /\ P \in SUBSET Gift(store)  BY ReadAnswers
  <1>2. \A p : Fresh(p) <=> FreshAt(p, now)  BY DEF Fresh, FreshAt
  <1>3. SaidTopic(P) = {q \in P : q.value.topic # Absent}  BY DEF SaidTopic
  <1>4. ASSUME store = "hints", NEW n \in AllNames, names = {n}, NEW k \in DOMAIN given[n],
               LastProbe(given[n], k), given[n][k].at + ProbeTtl >= now
        PROVE  e # Absent /\ e.probe = given[n][k].at
    <2>1. e = Prune(store, entries[n], now)  BY <1>4, ReadAnswers
    <2>2. Keeps(store, Prune(store, entries[n], now), given[n], now)
      <3>1. entries[n] \in Kept(store) /\ given[n] \in Seq(Gift(store))  BY StoreFacts
      <3>2. Past(given[n], now)  BY DEF GivenPast
      <3>3. Keeps(store, entries[n], given[n], now)  BY <1>4
      <3> QED  BY <3>1, <3>2, <3>3, StoreFacts, PruneKeeps
    <2> HIDE DEF e
    <2>3. ProbeKeeps(e, given[n], now)  BY <1>4, <2>1, <2>2 DEF Keeps
    <2> QED  BY <1>4, <2>3 DEF ProbeKeeps
  <1> HIDE DEF e, P
  <1>5. CASE store = "routes"
    <2>1. \A p \in NewestOf(P) : FreshAt(p, now) => e # Absent /\ RouteHas(e, p.value)
      BY <1>1, <1>5 DEF AnswerHas
    <2>2. \A p \in NewestOf(P) : Fresh(p) =>
           /\ e # Absent /\ e.direct = p.value.direct
           /\ p.value.origin # Absent => e.origin = p.value.origin
           /\ p.value.id # Absent => e.id = p.value.id
      BY <1>2, <2>1 DEF RouteHas
    <2> QED  BY <1>5, <2>2 DEF NewestRead, NothingCrowdedOut, e, P
  <1>6. CASE store = "access"
    <2>1. /\ \A p \in NewestOf(P) :
               FreshAt(p, now) /\ p.value.expires > now => e # Absent /\ e.token = p.value.token
          /\ e # Absent => \E p \in P : p.value.token = e.token /\ (p.value.expires = 0 \/ p.value.expires > now)
      BY <1>1, <1>6 DEF AnswerHas
    <2> QED  BY <1>2, <1>6, <2>1 DEF NewestRead, NothingCrowdedOut, e, P
  <1>7. CASE store = "hints"
    <2>1. TopicKeeps(e, P, now) /\ \A p \in P : HostsKept(e, p, now)  BY <1>1, <1>7 DEF AnswerHas
    <2>2. \A p \in NewestOf({q \in P : q.value.topic # Absent}) :
            Fresh(p) => e # Absent /\ e.topic = p.value.topic
      BY <1>2, <1>3, <2>1 DEF TopicKeeps
    <2>3. \A p \in P : Fresh(p) /\ p.value.hosts # <<>> =>
            e # Absent /\ (ToSet(p.value.hosts) \subseteq ToSet(e.hosts) \/ Len(e.hosts) = MaxPeers)
      BY <1>2, <2>1 DEF HostsKept, ListHas
    <2>4. NothingCrowdedOut(names)  BY <1>7, <2>3 DEF NothingCrowdedOut, e, P
    <2>5. NewestRead(names)  BY <1>4, <1>7, <2>2 DEF NewestRead, e, P
    <2> QED  BY <2>4, <2>5
  <1>8. CASE store = "leases"
    <2>1. \A p \in P : LeaseKeeps(e, p, now)  BY <1>1, <1>8 DEF AnswerHas
    <2>2. ASSUME NEW p \in P
          PROVE  /\ e # Absent /\ (p.value.peer \in ToSet(e.peers) \/ Len(e.peers) = MaxPeers)
                 /\ p.value.lease # Absent => LET l == p.value.lease IN
                      l.expires <= now \/ l \in e.leases
                      \/ Cardinality({m \in e.leases : Outlives(m, l)}) >= MaxLeases
      <3>1. LeaseKeeps(e, p, now)  BY <2>1, <2>2
      <3>2. e # Absent /\ (p.value.peer \in ToSet(e.peers) \/ Len(e.peers) = MaxPeers)
        BY <3>1 DEF LeaseKeeps, ListHas
      <3>3. p.value.lease \in Leases \cup {Absent}  BY <1>1, <1>8, <2>2, GiftFacts
      <3>4. ASSUME p.value.lease # Absent, ~(p.value.lease.expires <= now)
            PROVE  p.value.lease \in e.leases \/ Cardinality({m \in e.leases : Outlives(m, p.value.lease)}) >= MaxLeases
        <4>1. p.value.lease.expires \in Nat  BY <3>3, <3>4 DEF Leases
        <4>2. p.value.lease.expires > now  BY <3>4, <4>1, StoreFacts
        <4>3. LeaseKept(e.leases, p.value.lease)  BY <3>1, <3>4, <4>2 DEF LeaseKeeps
        <4> QED  BY <4>3 DEF LeaseKept, Outliving
      <3> QED  BY <3>2, <3>4
    <2> QED  BY <1>8, <2>2 DEF NewestRead, NothingCrowdedOut, e, P
  <1>9. CASE store = "cores"
    <2>1. \A p \in P : CoreKeeps(e, p)  BY <1>1, <1>9 DEF AnswerHas
    <2> QED  BY <1>9, <2>1 DEF NewestRead, NothingCrowdedOut, CoreKeeps, e, P
  <1> QED  BY <1>5, <1>6, <1>7, <1>8, <1>9, StoreFacts, EntriesAre

-----------------------------------------------------------------------------
(* The calls.                                                                 *)

\* A call as its caller makes it, at some time up to now.
AskedCall(c) ==
  /\ c.op \in {"put", "drop", "get", "prune", "persist"}
  /\ c.names \in SUBSET AllNames /\ c.value \in Given[store] \cup {Absent} /\ c.at \in 0..now
  /\ c.op = "put" => Giving(store, c)
  /\ store = "cores" => c.op \in {"put", "get", "persist"}

\* The entry b has all that a has, and with the gift q all that a has and q.
Carries(a, b) ==
  \A g \in Seq(Gift(store)) : Past(g, now) /\ Keeps(store, a, g, now) => Keeps(store, b, g, now)
CarriesWith(a, b, q) ==
  \A g \in Seq(Gift(store)) : Past(g, now) /\ Keeps(store, a, g, now) => Keeps(store, b, Append(g, q), now)

\* What a call on the map m does to the entry of a name.
EntryLaw(c, m, n) ==
  /\ entries'[n] \in Kept(store)
  /\ \/ given'[n] = given[n] /\ Carries(m[n], entries'[n])
     \/ /\ store # "cores"
        /\ \E q \in Gift(store) :
             q.at \in 1..now /\ given'[n] = Append(given[n], q) /\ CarriesWith(m[n], entries'[n], q)
     \/ /\ store = "cores" \/ (c.op = "drop" /\ n \in c.names)
        /\ given'[n] \in Seq(Gift(store)) /\ Past(given'[n], now)
        /\ Keeps(store, entries'[n], given'[n], now)

MapLaw(c, m) ==
  /\ DOMAIN entries' = AllNames /\ entries' = [n \in AllNames |-> entries'[n]]
  /\ DOMAIN given' = AllNames /\ given' = [n \in AllNames |-> given'[n]]
  /\ \A n \in AllNames : EntryLaw(c, m, n)

\* A call that changes more than a later pruning does sets the flush timer.
TouchLaw(m) ==
  \/ Touch /\ missed' = (missed \/ (store = "cores" /\ inWrite # {}))
  \/ /\ UNCHANGED <<dirty, flushTimer, missed>>
     /\ \A n \in AllNames : entries'[n] \in {m[n], Prune(store, m[n], now)}

LEMMA SameCarries ==
  ASSUME NEW a, NEW b, b = a
  PROVE  Carries(a, b)
  BY DEF Carries

LEMMA PruneCarries ==
  ASSUME StoreConstants, StoreTypeOK, NEW a \in Kept(store), NEW b \in {a, Prune(store, a, now)}
  PROVE  Carries(a, b) /\ b \in Kept(store)
  <1>1. CASE b = a  BY <1>1, SameCarries
  <1>2. CASE b = Prune(store, a, now)
    <2>1. b \in Kept(store)  BY <1>2, StoreFacts, PruneTyped
    <2>2. ASSUME NEW g \in Seq(Gift(store)), Past(g, now), Keeps(store, a, g, now)
          PROVE  Keeps(store, b, g, now)
      BY <1>2, <2>2, StoreFacts, PruneKeeps
    <2> QED  BY <2>1, <2>2 DEF Carries
  <1> QED  BY <1>1, <1>2

LEMMA PutLaws ==
  ASSUME StoreConstants, StoreTypeOK, NEW c, AskedCall(c), c.op = "put", store # "cores",
         NEW m \in [AllNames -> Kept(store)], Put(c, m)
  PROVE  MapLaw(c, m) /\ TouchLaw(m)
  <1> DEFINE q == GiftOf(store, c, now)
  <1>0. c.names \in SUBSET AllNames /\ Giving(store, c) /\ c.at \in Nat /\ c.at <= now
    BY StoreFacts DEF AskedCall
  <1>1. store \in {"routes", "access", "hints", "leases"}  BY StoreFacts, EntriesAre
  <1>2. /\ entries' = [n \in AllNames |-> IF n \in c.names THEN Give(store, m[n], c, now) ELSE m[n]]
        /\ given' = [n \in AllNames |-> IF n \in c.names THEN Append(given[n], q) ELSE given[n]]
    BY DEF Put, GiftOf
  <1>3. q \in Gift(store) /\ q.at \in 1..now  BY <1>0, <1>1, StoreFacts, GiftOfTyped
  <1>4. ASSUME NEW n \in AllNames  PROVE EntryLaw(c, m, n)
    <2>1. CASE n \in c.names
      <3>1. entries'[n] = Give(store, m[n], c, now) /\ given'[n] = Append(given[n], q)  BY <1>2, <2>1
      <3>2. m[n] \in Kept(store)  OBVIOUS
      <3>3. entries'[n] \in Kept(store)
        <4>1. Give(store, m[n], c, now) \in Entries[store]  BY <1>0, <1>1, <3>2, StoreFacts, GiveTyped
        <4> QED  BY <3>1, <4>1 DEF Kept
      <3>4. ASSUME NEW g \in Seq(Gift(store)), Past(g, now), Keeps(store, m[n], g, now)
            PROVE  Keeps(store, Give(store, m[n], c, now), Append(g, q), now)
        BY <1>0, <1>1, <3>2, <3>4, StoreFacts, GiveKeeps
      <3> HIDE DEF q
      <3>5. CarriesWith(m[n], entries'[n], q)  BY <3>1, <3>4 DEF CarriesWith
      <3> QED  BY <1>3, <3>1, <3>3, <3>5 DEF EntryLaw
    <2>2. CASE n \notin c.names
      <3>1. entries'[n] = m[n] /\ given'[n] = given[n]  BY <1>2, <2>2
      <3>2. Carries(m[n], entries'[n])  BY <3>1, SameCarries
      <3> QED  BY <3>1, <3>2 DEF EntryLaw
    <2> QED  BY <2>1, <2>2
  <1>5. MapLaw(c, m)  BY <1>2, <1>4 DEF MapLaw
  <1>6. missed' = missed /\ missed \in BOOLEAN /\ Touch  BY DEF Put, StoreTypeOK
  <1> QED  BY <1>5, <1>6 DEF TouchLaw

LEMMA DropLaws ==
  ASSUME StoreConstants, StoreTypeOK, NEW c, AskedCall(c), c.op = "drop", store # "cores",
         NEW m \in [AllNames -> Kept(store)], Drop(c, m)
  PROVE  MapLaw(c, m) /\ TouchLaw(m)
  <1>1. /\ entries' = [n \in AllNames |-> IF n \in c.names THEN Absent ELSE m[n]]
        /\ given' = [n \in AllNames |-> IF n \in c.names THEN <<>> ELSE given[n]]
    BY DEF Drop
  <1>2. ASSUME NEW n \in AllNames  PROVE EntryLaw(c, m, n)
    <2>1. CASE n \in c.names
      <3>1. entries'[n] = Absent /\ given'[n] = <<>>  BY <1>1, <2>1
      <3>2. Keeps(store, Absent, <<>>, now) /\ Past(<<>>, now)  BY StoreFacts, NothingKept
      <3>3. <<>> \in Seq(Gift(store)) /\ Absent \in Kept(store)  BY DEF Kept
      <3> QED  BY <2>1, <3>1, <3>2, <3>3 DEF EntryLaw
    <2>2. CASE n \notin c.names
      <3>1. entries'[n] = m[n] /\ given'[n] = given[n]  BY <1>1, <2>2
      <3>2. Carries(m[n], entries'[n])  BY <3>1, SameCarries
      <3> QED  BY <3>1, <3>2 DEF EntryLaw
    <2> QED  BY <2>1, <2>2
  <1>3. MapLaw(c, m)  BY <1>1, <1>2 DEF MapLaw
  <1>4. TouchLaw(m)
    <2>1. missed' = missed /\ missed \in BOOLEAN  BY DEF Drop, StoreTypeOK
    <2>2. CASE \E n \in c.names : m[n] # Absent
      <3>1. Touch  BY <2>2 DEF Drop
      <3> QED  BY <2>1, <3>1 DEF TouchLaw
    <2>3. CASE ~\E n \in c.names : m[n] # Absent
      <3>1. UNCHANGED <<dirty, flushTimer>>  BY <2>3 DEF Drop
      <3>2. \A n \in AllNames : entries'[n] = m[n]  BY <1>1, <2>3
      <3> QED  BY <2>1, <3>1, <3>2 DEF TouchLaw
    <2> QED  BY <2>2, <2>3
  <1> QED  BY <1>3, <1>4

\* A call that gives nothing and prunes some entries.
LEMMA PrunesLaw ==
  ASSUME StoreConstants, StoreTypeOK, NEW c, NEW m \in [AllNames -> Kept(store)],
         \A n \in AllNames : entries'[n] \in {m[n], Prune(store, m[n], now)},
         DOMAIN entries' = AllNames, entries' = [n \in AllNames |-> entries'[n]], UNCHANGED given
  PROVE  MapLaw(c, m)
  <1>1. given \in [AllNames -> Seq(Gift(store))]  BY StoreFacts
  <1>2. ASSUME NEW n \in AllNames  PROVE EntryLaw(c, m, n)
    <2>1. m[n] \in Kept(store)  OBVIOUS
    <2>2. Carries(m[n], entries'[n]) /\ entries'[n] \in Kept(store)  BY <2>1, PruneCarries
    <2> QED  BY <2>2 DEF EntryLaw
  <1> QED  BY <1>1, <1>2 DEF MapLaw

LEMMA GetLaws ==
  ASSUME StoreConstants, StoreTypeOK, NEW c, AskedCall(c), NEW m \in [AllNames -> Kept(store)], Get(c, m)
  PROVE  MapLaw(c, m) /\ TouchLaw(m)
  <1>1. entries' = [n \in AllNames |-> IF n \in c.names THEN Pruned(store, m[n], now) ELSE m[n]]
    BY DEF Get
  <1>2. ASSUME NEW n \in AllNames  PROVE entries'[n] \in {m[n], Prune(store, m[n], now)}
    <2>1. m[n] \in Kept(store)  OBVIOUS
    <2>2. Pruned(store, m[n], now) \in {m[n], Prune(store, m[n], now)}  BY <2>1, StoreFacts, PrunedFacts
    <2> QED  BY <1>1, <2>2
  <1>3. UNCHANGED <<given, dirty, flushTimer, missed>>  BY DEF Get
  <1>4. DOMAIN entries' = AllNames /\ entries' = [n \in AllNames |-> entries'[n]]  BY <1>1
  <1>5. MapLaw(c, m)  BY <1>2, <1>3, <1>4, PrunesLaw
  <1> QED  BY <1>2, <1>3, <1>5 DEF TouchLaw

LEMMA PruneAllLaws ==
  ASSUME StoreConstants, StoreTypeOK, NEW c, AskedCall(c), store # "cores",
         NEW m \in [AllNames -> Kept(store)], PruneAll(m)
  PROVE  MapLaw(c, m) /\ TouchLaw(m)
  <1>1. entries' = [n \in AllNames |-> Prune(store, m[n], now)]  BY DEF PruneAll
  <1>2. \A n \in AllNames : entries'[n] \in {m[n], Prune(store, m[n], now)}  BY <1>1
  <1>3. UNCHANGED <<given, missed>> /\ missed \in BOOLEAN  BY DEF PruneAll, StoreTypeOK
  <1>4. DOMAIN entries' = AllNames /\ entries' = [n \in AllNames |-> entries'[n]]  BY <1>1
  <1>5. MapLaw(c, m)  BY <1>2, <1>3, <1>4, PrunesLaw
  <1>6. Touch \/ UNCHANGED <<dirty, flushTimer>>  BY DEF PruneAll
  <1> QED  BY <1>2, <1>3, <1>5, <1>6 DEF TouchLaw

LEMMA RefsLaws ==
  ASSUME StoreConstants, StoreTypeOK, NEW c, store = "cores", NEW m \in [AllNames -> Kept(store)],
         NEW names \in SUBSET AllNames, NEW refs \in Entries["cores"], UpdateRefs(names, refs, m)
  PROVE  MapLaw(c, m) /\ TouchLaw(m)
  <1> DEFINE q == [value |-> refs, at |-> now]
  <1>1. /\ entries' = [n \in AllNames |-> IF n \in names THEN refs ELSE m[n]]
        /\ given' = [n \in AllNames |-> IF n \in names THEN <<q>> ELSE given[n]]
    BY DEF UpdateRefs
  <1>2. q \in Gift(store) /\ q.at \in 1..now /\ q.value = refs  BY StoreFacts, EntriesAre DEF Gift
  <1> HIDE DEF q
  <1>3. <<q>> \in Seq(Gift(store)) /\ ToSet(<<q>>) = {q}
    <2>1. DOMAIN <<q>> = {1} /\ <<q>>[1] = q  OBVIOUS
    <2> QED  BY <1>2, <2>1 DEF ToSet
  <1>4. Past(<<q>>, now)  BY <1>2, <1>3 DEF Past
  <1>5. Keeps(store, refs, <<q>>, now)
    <2>1. refs # Absent  BY AbsentIsNone, EntriesAre
    <2>2. CoreKeeps(refs, q)  BY <1>2, <2>1 DEF CoreKeeps
    <2> QED  BY <1>3, <2>2 DEF Keeps
  <1>6. ASSUME NEW n \in AllNames  PROVE EntryLaw(c, m, n)
    <2>1. CASE n \in names
      <3>1. entries'[n] = refs /\ given'[n] = <<q>>  BY <1>1, <2>1
      <3>2. refs \in Kept(store)  BY DEF Kept
      <3> QED  BY <1>3, <1>4, <1>5, <3>1, <3>2 DEF EntryLaw
    <2>2. CASE n \notin names
      <3>1. entries'[n] = m[n] /\ given'[n] = given[n]  BY <1>1, <2>2
      <3>2. Carries(m[n], entries'[n])  BY <3>1, SameCarries
      <3> QED  BY <3>1, <3>2 DEF EntryLaw
    <2> QED  BY <2>1, <2>2
  <1>7. MapLaw(c, m)  BY <1>1, <1>6 DEF MapLaw
  <1>8. TouchLaw(m)
    <2>1. CASE entries' # m
      <3>1. Touch /\ missed' = (missed \/ inWrite # {})  BY <2>1 DEF UpdateRefs
      <3> QED  BY <3>1 DEF TouchLaw
    <2>2. CASE entries' = m  BY <2>2 DEF UpdateRefs, TouchLaw
    <2> QED  BY <2>1, <2>2
  <1> QED  BY <1>7, <1>8

\* A read of a map is an entry of the store.
LEMMA ReadTyped ==
  ASSUME StoreConstants, StoreTypeOK, NEW m \in [AllNames -> Kept(store)], NEW names
  PROVE  Read(m, names) \in Kept(store)
  <1> DEFINE one(n) == IF n \in names THEN Prune(store, m[n], now) ELSE Absent
  <1>1. ASSUME NEW n \in AllNames  PROVE one(n) \in Kept(store)
    <2>1. m[n] \in Kept(store)  OBVIOUS
    <2>2. Prune(store, m[n], now) \in Kept(store)  BY <2>1, StoreFacts, PruneTyped
    <2> QED  BY <2>2 DEF Kept
  <1>2. Read(m, names) = Merge(store, one(Names[1]), one(Names[2]), now)  BY DEF Read
  <1> HIDE DEF one
  <1>3. one(Names[1]) \in Kept(store) /\ one(Names[2]) \in Kept(store)  BY <1>1, StoreFacts
  <1>4. Merge(store, one(Names[1]), one(Names[2]), now) \in Kept(store)  BY <1>3, StoreFacts, MergeTyped
  <1> QED  BY <1>2, <1>4

LEMMA ResolveLaws ==
  ASSUME StoreConstants, StoreTypeOK, NEW c, store = "cores", NEW m \in [AllNames -> Kept(store)],
         NEW file \in [AllNames -> Kept(store)], ResolveRefs(m, file)
  PROVE  MapLaw(c, m) /\ TouchLaw(m)
  <1> DEFINE refs == Merge(store, Read(file, AllNames), m[Names[1]], now)
  <1>1. refs \in Kept(store)
    <2>1. Read(file, AllNames) \in Kept(store) /\ m[Names[1]] \in Kept(store)  BY ReadTyped, StoreFacts
    <2> QED  BY <2>1, StoreFacts, MergeTyped
  <1>2. CASE refs = Absent
    <2>1. entries' = m /\ UNCHANGED <<given, dirty, flushTimer, missed>>  BY <1>2 DEF ResolveRefs
    <2>2. \A n \in AllNames : entries'[n] \in {m[n], Prune(store, m[n], now)}  BY <2>1
    <2>3. DOMAIN entries' = AllNames /\ entries' = [n \in AllNames |-> entries'[n]]  BY <2>1
    <2>4. MapLaw(c, m)  BY <2>1, <2>2, <2>3, PrunesLaw
    <2> QED  BY <2>1, <2>2, <2>4 DEF TouchLaw
  <1>3. CASE refs # Absent
    <2>1. UpdateRefs(AllNames, refs, m)  BY <1>3 DEF ResolveRefs
    <2>2. refs \in Entries["cores"]  BY <1>1, <1>3 DEF Kept
    <2> HIDE DEF refs
    <2> QED  BY <2>1, <2>2, RefsLaws
  <1> QED  BY <1>2, <1>3

LEMMA DoLaws ==
  ASSUME StoreConstants, StoreTypeOK, NEW c, AskedCall(c), NEW m \in [AllNames -> Kept(store)],
         NEW file \in [AllNames -> Kept(store)], Do(c, m, file)
  PROVE  MapLaw(c, m) /\ TouchLaw(m)
  <1>1. CASE c.op = "put" /\ store = "cores"
    <2>1. UpdateRefs(c.names, c.value, m)  BY <1>1 DEF Do
    <2>2. c.names \in SUBSET AllNames /\ c.value \in Given["cores"]  BY <1>1 DEF AskedCall, Giving
    <2>3. c.value \in Entries["cores"]  BY <2>2, EntriesAre DEF StoreConstants
    <2> QED  BY <1>1, <2>1, <2>2, <2>3, RefsLaws
  <1>2. CASE c.op = "put" /\ store # "cores"
    <2>1. Put(c, m)  BY <1>2 DEF Do
    <2> QED  BY <1>2, <2>1, PutLaws
  <1>3. CASE c.op = "drop"
    <2>1. Drop(c, m) /\ store # "cores"  BY <1>3 DEF Do, AskedCall
    <2> QED  BY <1>3, <2>1, DropLaws
  <1>4. CASE c.op = "get" /\ store = "cores"
    <2>1. ResolveRefs(m, file)  BY <1>4 DEF Do
    <2> QED  BY <1>4, <2>1, ResolveLaws
  <1>5. CASE c.op = "get" /\ store # "cores"
    <2>1. Get(c, m)  BY <1>5 DEF Do
    <2> QED  BY <2>1, GetLaws
  <1>6. CASE c.op = "prune"
    <2>1. PruneAll(m) /\ store # "cores"  BY <1>6 DEF Do, AskedCall
    <2> QED  BY <2>1, PruneAllLaws
  <1>7. CASE c.op = "persist"
    <2>1. entries' = m /\ UNCHANGED <<given, dirty, flushTimer, missed>>  BY <1>7 DEF Do
    <2>2. \A n \in AllNames : entries'[n] \in {m[n], Prune(store, m[n], now)}  BY <2>1
    <2>3. DOMAIN entries' = AllNames /\ entries' = [n \in AllNames |-> entries'[n]]  BY <2>1
    <2>4. MapLaw(c, m)  BY <2>1, <2>2, <2>3, PrunesLaw
    <2> QED  BY <2>1, <2>2, <2>4 DEF TouchLaw
  <1> QED  BY <1>1, <1>2, <1>3, <1>4, <1>5, <1>6, <1>7 DEF AskedCall

\* What a call leaves is typed, and every entry that kept its gifts does.
LEMMA LawsTyped ==
  ASSUME StoreConstants, StoreTypeOK, NEW c, NEW m \in [AllNames -> Kept(store)], MapLaw(c, m), TouchLaw(m)
  PROVE  /\ entries' \in [AllNames -> Kept(store)] /\ given' \in [AllNames -> Seq(Gift(store))]
         /\ dirty' \in BOOLEAN /\ flushTimer' \in BOOLEAN /\ missed' \in BOOLEAN
  <1>1. given \in [AllNames -> Seq(Gift(store))]  BY StoreFacts
  <1>2. ASSUME NEW n \in AllNames
        PROVE  entries'[n] \in Kept(store) /\ given'[n] \in Seq(Gift(store))
    <2>1. EntryLaw(c, m, n)  BY DEF MapLaw
    <2>2. given[n] \in Seq(Gift(store))  BY <1>1
    <2>3. ASSUME NEW q \in Gift(store)  PROVE Append(given[n], q) \in Seq(Gift(store))  BY <2>2
    <2> QED  BY <2>1, <2>2, <2>3 DEF EntryLaw
  <1>3. dirty' \in BOOLEAN /\ flushTimer' \in BOOLEAN /\ missed' \in BOOLEAN
    <2>1. dirty \in BOOLEAN /\ flushTimer \in BOOLEAN /\ missed \in BOOLEAN  BY DEF StoreTypeOK
    <2>2. CASE Touch /\ missed' = (missed \/ (store = "cores" /\ inWrite # {}))
      BY <2>1, <2>2 DEF Touch
    <2>3. CASE UNCHANGED <<dirty, flushTimer, missed>>  BY <2>1, <2>3
    <2> QED  BY <2>2, <2>3 DEF TouchLaw
  <1> QED  BY <1>2, <1>3 DEF MapLaw

LEMMA GiftAppended ==
  ASSUME NEW s, NEW g \in Seq(Gift(s)), NEW q \in Gift(s), NEW t \in Nat, Past(g, t), q.at \in 1..t
  PROVE  Append(g, q) \in Seq(Gift(s)) /\ Past(Append(g, q), t)
  <1>1. /\ Append(g, q) \in Seq(Gift(s))
        /\ ToSet(Append(g, q)) = ToSet(g) \cup {q}
    <2> DEFINE G == Gift(s)
    <2>1. g \in Seq(G) /\ q \in G  OBVIOUS
    <2> HIDE DEF G
    <2>2. Append(g, q) = g \o <<q>> /\ Append(g, q) \in Seq(G) /\ ToSet(Append(g, q)) = ToSet(g) \cup {q}
      BY <2>1, AppendElements
    <2> QED  BY <2>2 DEF G
  <1> QED  BY <1>1 DEF Past

LEMMA LawsKeep ==
  ASSUME StoreConstants, StoreTypeOK, GivenPast, NEW c, NEW m \in [AllNames -> Kept(store)], MapLaw(c, m),
         NEW n \in AllNames
  PROVE  /\ Past(given'[n], now)
         /\ Keeps(store, m[n], given[n], now) => Keeps(store, entries'[n], given'[n], now)
  <1>1. EntryLaw(c, m, n)  BY DEF MapLaw
  <1>2. given[n] \in Seq(Gift(store)) /\ Past(given[n], now)  BY StoreFacts DEF GivenPast
  <1>3. CASE given'[n] = given[n] /\ Carries(m[n], entries'[n])  BY <1>2, <1>3 DEF Carries
  <1>4. CASE \E q \in Gift(store) :
               q.at \in 1..now /\ given'[n] = Append(given[n], q) /\ CarriesWith(m[n], entries'[n], q)
    <2>1. PICK q \in Gift(store) :
            q.at \in 1..now /\ given'[n] = Append(given[n], q) /\ CarriesWith(m[n], entries'[n], q)
      BY <1>4
    <2>2. Past(Append(given[n], q), now)  BY <1>2, <2>1, StoreFacts, GiftAppended
    <2> QED  BY <1>2, <2>1, <2>2 DEF CarriesWith
  <1> QED  BY <1>1, <1>3, <1>4 DEF EntryLaw

-----------------------------------------------------------------------------
(* Every step keeps the types.                                                *)

FirstAsked == loaded = "reading" => AskedCall(first)

LEMMA TypesStay ==
  ASSUME store' = store
  PROVE  /\ Held' = Held /\ Gifts' = Gifts /\ Files' = Files
         /\ Held = Kept(store) /\ Gifts = Gift(store)
         /\ Files = [data : [AllNames -> Kept(store)], given : [AllNames -> Seq(Gift(store))]]
  BY DEF Held, Gifts, Files, Kept, Gift

LEMMA CallsAsked ==
  ASSUME StoreConstants, StoreTypeOK, NEW c \in Calls
  PROVE  /\ AskedCall(c) /\ (c.op = "put" => c.value \in Given[store])
         /\ c \in [op : {"none", "put", "drop", "get", "prune", "persist"}, names : SUBSET AllNames,
                   value : Given[store] \cup {Absent}, at : 0..now] /\ c.op # "none"
  <1>1. {AllNames, {Names[1]}} \subseteq SUBSET AllNames /\ {} \in SUBSET AllNames  BY StoreFacts
  <1>2. now \in 0..now /\ now \in Nat \ {0}  BY StoreFacts
  <1>3. CASE c \in [op : {"put"}, names : {AllNames, {Names[1]}}, value : Given[store], at : {now}]
    <2>1. c.op = "put" /\ c.names \in {AllNames, {Names[1]}} /\ c.value \in Given[store] /\ c.at = now
          /\ c = [op |-> c.op, names |-> c.names, value |-> c.value, at |-> c.at]
      BY <1>3
    <2> QED  BY <1>1, <1>2, <2>1 DEF AskedCall, Giving
  <1>4. CASE /\ store \in {"routes", "access"}
             /\ c \in [op : {"drop"}, names : {AllNames, {Names[1]}}, value : {Absent}, at : {now}]
    <2>1. c.op = "drop" /\ c.names \in {AllNames, {Names[1]}} /\ c.value = Absent /\ c.at = now
          /\ c = [op |-> c.op, names |-> c.names, value |-> c.value, at |-> c.at]
      BY <1>4
    <2> QED  BY <1>1, <1>2, <1>4, <2>1 DEF AskedCall
  <1>5. CASE c \in [op : {"get"}, names : {AllNames}, value : {Absent}, at : {now}]
    <2>1. c.op = "get" /\ c.names = AllNames /\ c.value = Absent /\ c.at = now
          /\ c = [op |-> c.op, names |-> c.names, value |-> c.value, at |-> c.at]
      BY <1>5
    <2> QED  BY <1>1, <1>2, <2>1 DEF AskedCall
  <1>6. CASE store # "cores" /\ c = [op |-> "prune", names |-> {}, value |-> Absent, at |-> now]
    BY <1>1, <1>2, <1>6 DEF AskedCall
  <1> QED  BY <1>3, <1>4, <1>5, <1>6 DEF Calls

\* A call waits, or is done at once.
LoadsFirst(c) == loaded = "no" /\ ~(store = "cores" /\ c.op = "put")

LEMMA CallTyped ==
  ASSUME StoreConstants, StoreTypeOK, FirstAsked, NEW c \in Calls, Call(c)
  PROVE  StoreTypeOK' /\ FirstAsked'
  <1>0. store' = store /\ now' = now  BY DEF Call
  <1>1. AskedCall(c) /\ AskedCall(c)' = AskedCall(c)  BY <1>0, CallsAsked DEF AskedCall, Giving
  <1>2. calls' \in 0..MaxCalls
    <2>1. calls \in 0..MaxCalls /\ calls < MaxCalls /\ calls' = calls + 1 /\ MaxCalls \in Nat
      BY DEF StoreTypeOK, Call, StoreConstants
    <2> QED  BY <2>1
  <1>3. overlaid' \subseteq AllNames  BY <1>1 DEF Call, StoreTypeOK, AskedCall
  <1>4. UNCHANGED <<store, cached, inWrite, onDisk, now, writeFailed, failures>>  BY DEF Call
  <1>5. CASE LoadsFirst(c)
    <2>1. loaded' = "reading" /\ first' = c /\ UNCHANGED <<entries, given, dirty, flushTimer, missed>>
      BY <1>5 DEF Call, LoadsFirst
    <2>2. /\ first' \in [op : {"none", "put", "drop", "get", "prune", "persist"}, names : SUBSET AllNames,
                         value : Given[store'] \cup {Absent}, at : 0..now']
          /\ first'.op # "none" /\ (first'.op = "put" => first'.value \in Given[store'])
      BY <1>0, <2>1, CallsAsked
    <2>3. inWrite = {}  BY <1>5 DEF StoreTypeOK, LoadsFirst
    <2>4. StoreTypeOK'  BY <1>2, <1>3, <1>4, <2>1, <2>2, <2>3, TypesStay DEF StoreTypeOK
    <2> QED  BY <1>1, <2>1, <2>4 DEF FirstAsked
  <1>6. CASE ~LoadsFirst(c)
    <2>1. Do(c, entries, cached) /\ UNCHANGED <<loaded, first>>  BY <1>6 DEF Call, LoadsFirst
    <2>2. MapLaw(c, entries) /\ TouchLaw(entries)  BY <1>1, <2>1, StoreFacts, DoLaws
    <2>3. /\ entries' \in [AllNames -> Kept(store)] /\ given' \in [AllNames -> Seq(Gift(store))]
          /\ dirty' \in BOOLEAN /\ flushTimer' \in BOOLEAN /\ missed' \in BOOLEAN
      BY <2>2, StoreFacts, LawsTyped
    <2>4. StoreTypeOK'  BY <1>2, <1>3, <1>4, <2>1, <2>3, TypesStay DEF StoreTypeOK
    <2>5. FirstAsked'  BY <1>0, <2>1 DEF FirstAsked, AskedCall, Giving
    <2> QED  BY <2>4, <2>5
  <1> QED  BY <1>5, <1>6

LEMMA LoadedTyped ==
  ASSUME StoreConstants, StoreTypeOK
  PROVE  /\ [n \in AllNames |-> FromFile(n)] \in [AllNames -> Kept(store)]
         /\ onDisk.data \in [AllNames -> Kept(store)] /\ onDisk.given \in [AllNames -> Seq(Gift(store))]
  <1>1. onDisk.data \in [AllNames -> Kept(store)] /\ onDisk.given \in [AllNames -> Seq(Gift(store))]
    BY StoreFacts
  <1>2. ASSUME NEW n \in AllNames  PROVE FromFile(n) \in Kept(store)
    <2> DEFINE e == Prune(store, onDisk.data[n], now)
    <2>1. onDisk.data[n] \in Kept(store) /\ entries[n] \in Kept(store)  BY <1>1, StoreFacts
    <2>2. e \in Kept(store)  BY <2>1, StoreFacts, PruneTyped
    <2>3. FromFile(n) = IF e = Absent THEN entries[n]
                        ELSE IF store = "cores" THEN Merge(store, entries[n], e, now) ELSE e
      BY DEF FromFile
    <2> HIDE DEF e
    <2>4. Merge(store, entries[n], e, now) \in Kept(store)  BY <2>1, <2>2, StoreFacts, MergeTyped
    <2> QED  BY <2>1, <2>2, <2>3, <2>4
  <1> QED  BY <1>1, <1>2

LEMMA LoadLaws ==
  ASSUME StoreConstants, StoreTypeOK, FirstAsked, Load
  PROVE  /\ MapLaw(first, [n \in AllNames |-> FromFile(n)]) /\ TouchLaw([n \in AllNames |-> FromFile(n)])
         /\ store' = store /\ now' = now
  <1> DEFINE m == [n \in AllNames |-> FromFile(n)]
  <1>1. AskedCall(first) /\ Do(first, m, onDisk.data) /\ store' = store /\ now' = now  BY DEF Load, FirstAsked
  <1>2. m \in [AllNames -> Kept(store)] /\ onDisk.data \in [AllNames -> Kept(store)]  BY LoadedTyped
  <1> HIDE DEF m
  <1>3. MapLaw(first, m) /\ TouchLaw(m)  BY <1>1, <1>2, DoLaws
  <1> QED  BY <1>1, <1>3 DEF m

LEMMA LoadTyped ==
  ASSUME StoreConstants, StoreTypeOK, FirstAsked, Load
  PROVE  StoreTypeOK' /\ FirstAsked'
  <1> DEFINE m == [n \in AllNames |-> FromFile(n)]
  <1>1. MapLaw(first, m) /\ TouchLaw(m) /\ store' = store /\ now' = now  BY LoadLaws
  <1>2. m \in [AllNames -> Kept(store)] /\ onDisk.data \in [AllNames -> Kept(store)]  BY LoadedTyped
  <1> HIDE DEF m
  <1>3. /\ entries' \in [AllNames -> Kept(store)] /\ given' \in [AllNames -> Seq(Gift(store))]
        /\ dirty' \in BOOLEAN /\ flushTimer' \in BOOLEAN /\ missed' \in BOOLEAN
    BY <1>1, <1>2, LawsTyped
  <1>4. loaded' = "yes" /\ first' = NoCall /\ UNCHANGED <<store, inWrite, onDisk, calls, now, writeFailed, failures>>
    BY DEF Load
  <1>5. cached' \in [AllNames -> Kept(store)]  BY <1>2, StoreFacts DEF Load
  <1>6. overlaid' \subseteq AllNames  BY DEF Load, StoreTypeOK
  <1>7. /\ NoCall \in [op : {"none", "put", "drop", "get", "prune", "persist"}, names : SUBSET AllNames,
                       value : Given[store] \cup {Absent}, at : 0..now]
        /\ NoCall.op = "none"
    BY StoreFacts DEF NoCall
  <1>8. StoreTypeOK'  BY <1>3, <1>4, <1>5, <1>6, <1>7, TypesStay DEF StoreTypeOK
  <1>9. FirstAsked'  BY <1>4 DEF FirstAsked
  <1> QED  BY <1>8, <1>9

\* A set of one file is what is written.
LEMMA OneWrite ==
  ASSUME StoreConstants, StoreTypeOK, NEW d \in [AllNames -> Kept(store)]
  PROVE  /\ {[data |-> d, given |-> given]} \subseteq Files
         /\ IsFiniteSet({[data |-> d, given |-> given]}) /\ Cardinality({[data |-> d, given |-> given]}) <= 1
         /\ IsFiniteSet({}) /\ Cardinality({}) <= 1
  <1> DEFINE x == [data |-> d, given |-> given]
  <1>1. x \in Files  BY StoreFacts
  <1> HIDE DEF x
  <1>2. IsFiniteSet({x}) /\ Cardinality({x}) = 1  BY FS_Singleton
  <1>3. IsFiniteSet({}) /\ Cardinality({}) = 0  BY FS_EmptySet
  <1>4. {x} \subseteq Files /\ IsFiniteSet({x}) /\ Cardinality({x}) <= 1 /\ IsFiniteSet({}) /\ Cardinality({}) <= 1
    BY <1>1, <1>2, <1>3
  <1> QED  BY <1>4 DEF x

LEMMA FileTyped ==
  ASSUME StoreConstants, StoreTypeOK, NEW f \in Files
  PROVE  f.data \in [AllNames -> Kept(store)] /\ f.given \in [AllNames -> Seq(Gift(store))]
  <1>1. f \in [data : [AllNames -> Kept(store)], given : [AllNames -> Seq(Gift(store))]]  BY StoreFacts
  <1> QED  BY <1>1

LEMMA EmptyTyped ==
  ASSUME StoreConstants, StoreTypeOK
  PROVE  /\ NoEntries \in [AllNames -> Kept(store)] /\ NoneGiven \in [AllNames -> Seq(Gift(store))]
         /\ EmptyFile \in Files
  <1>1. NoEntries \in [AllNames -> Kept(store)]  BY DEF NoEntries, Kept
  <1>2. NoneGiven \in [AllNames -> Seq(Gift(store))]  BY DEF NoneGiven
  <1> QED  BY <1>1, <1>2, StoreFacts DEF EmptyFile

LEMMA FlushTyped ==
  ASSUME StoreConstants, StoreTypeOK, FlushInv, FirstAsked, Flush
  PROVE  StoreTypeOK' /\ FirstAsked'
  <1>1. UNCHANGED <<store, loaded, first, cached, onDisk, calls, now, given, overlaid, missed, writeFailed, failures>>
        /\ flushTimer' = FALSE /\ dirty' = FALSE
    BY DEF Flush
  <1>2. entries' \in [AllNames -> Kept(store)]
    <2>1. \A n \in AllNames : entries[n] \in Kept(store)  BY StoreFacts
    <2>2. \A n \in AllNames : Prune(store, entries[n], now) \in Kept(store)  BY <2>1, StoreFacts, PruneTyped
    <2> QED  BY <2>2, StoreFacts DEF Flush
  <1>3. inWrite' \subseteq Files /\ IsFiniteSet(inWrite') /\ Cardinality(inWrite') <= 1
    <2>1. inWrite' = {[data |-> entries', given |-> given]} \/ inWrite' = inWrite  BY DEF Flush
    <2>2. IsFiniteSet(inWrite) /\ Cardinality(inWrite) <= 1 /\ inWrite \subseteq Files  BY DEF StoreTypeOK
    <2> DEFINE d == entries'
    <2>3. d \in [AllNames -> Kept(store)]  BY <1>2
    <2> HIDE DEF d
    <2>4. {[data |-> d, given |-> given]} \subseteq Files /\ IsFiniteSet({[data |-> d, given |-> given]})
          /\ Cardinality({[data |-> d, given |-> given]}) <= 1
      BY <2>3, OneWrite
    <2>5. CASE inWrite' = {[data |-> d, given |-> given]}  BY <2>4, <2>5
    <2>6. CASE inWrite' = inWrite  BY <2>2, <2>6
    <2> QED  BY <2>1, <2>5, <2>6 DEF d
  <1>4. loaded' = "yes"
    <2>1. loaded # "no"  BY DEF Flush, FlushInv
    <2> QED  BY <2>1, <1>1 DEF Flush, StoreTypeOK
  <1>5. StoreTypeOK'  BY <1>1, <1>2, <1>3, <1>4, TypesStay DEF StoreTypeOK
  <1> QED  BY <1>4, <1>5 DEF FirstAsked

LEMMA PersistTyped ==
  ASSUME StoreConstants, StoreTypeOK, FirstAsked, Persist
  PROVE  StoreTypeOK' /\ FirstAsked'
  <1>1. UNCHANGED <<store, entries, cached, dirty, onDisk, calls, now, given, overlaid, missed, writeFailed, failures>>
        /\ store = "cores"
    BY DEF Persist
  <1>2. CASE loaded = "no"
    <2> DEFINE c == [NoCall EXCEPT !.op = "persist"]
    <2>1. loaded' = "reading" /\ first' = c /\ UNCHANGED <<flushTimer, inWrite>>  BY <1>2 DEF Persist
    <2>2. /\ c.op = "persist" /\ c.names = {} /\ c.value = Absent /\ c.at = 0
          /\ c = [op |-> "persist", names |-> {}, value |-> Absent, at |-> 0]
      BY DEF NoCall
    <2> HIDE DEF c
    <2>3. c \in [op : {"none", "put", "drop", "get", "prune", "persist"}, names : SUBSET AllNames,
                 value : Given[store] \cup {Absent}, at : 0..now]
      BY <2>2, StoreFacts
    <2>4. inWrite = {}  BY DEF Persist
    <2>5. StoreTypeOK'  BY <1>1, <2>1, <2>2, <2>3, <2>4, TypesStay DEF StoreTypeOK
    <2>6. AskedCall(c)' = AskedCall(c)  BY <1>1 DEF AskedCall, Giving
    <2>7. AskedCall(c)  BY <2>2, StoreFacts DEF AskedCall
    <2> QED  BY <2>1, <2>5, <2>6, <2>7 DEF FirstAsked
  <1>3. CASE loaded # "no"
    <2>1. flushTimer' = FALSE /\ inWrite' = (IF dirty THEN {[data |-> entries, given |-> given]} ELSE {})
          /\ UNCHANGED <<loaded, first>> /\ loaded = "yes"
      BY <1>3 DEF Persist, StoreTypeOK
    <2>2. inWrite' \subseteq Files /\ IsFiniteSet(inWrite') /\ Cardinality(inWrite') <= 1
      <3>1. /\ {[data |-> entries, given |-> given]} \subseteq Files
            /\ IsFiniteSet({[data |-> entries, given |-> given]})
            /\ Cardinality({[data |-> entries, given |-> given]}) <= 1
            /\ IsFiniteSet({}) /\ Cardinality({}) <= 1
        BY StoreFacts, OneWrite
      <3>2. CASE dirty  BY <2>1, <3>1, <3>2
      <3>3. CASE ~dirty  BY <2>1, <3>1, <3>3
      <3> QED  BY <3>2, <3>3
    <2>3. StoreTypeOK'  BY <1>1, <2>1, <2>2, TypesStay DEF StoreTypeOK
    <2> QED  BY <2>1, <2>3 DEF FirstAsked
  <1> QED  BY <1>2, <1>3

LEMMA WriteTyped ==
  ASSUME StoreConstants, StoreTypeOK, Written \/ WriteFails
  PROVE  StoreTypeOK' /\ FirstAsked'
  <1>1. UNCHANGED <<store, loaded, first, entries, flushTimer, calls, now, given, overlaid, missed>>
        /\ inWrite # {} /\ inWrite' = {} /\ writeFailed' \in BOOLEAN
    BY DEF Written, WriteFails
  <1>2. onDisk' \in Files  BY StoreFacts, EmptyTyped DEF Written, WriteFails
  <1>3. cached' \in [AllNames -> Kept(store)] /\ dirty' \in BOOLEAN
    <2>1. (cached' = cached \/ cached' = onDisk'.data) /\ (dirty' = dirty \/ dirty' = FALSE)
      BY DEF Written, WriteFails
    <2>2. onDisk'.data \in [AllNames -> Kept(store)]  BY <1>2, FileTyped
    <2>3. dirty \in BOOLEAN  BY DEF StoreTypeOK
    <2> QED  BY <2>1, <2>2, <2>3, StoreFacts
  <1>4. failures' \in 0..MaxFailures
    <2>1. failures \in 0..MaxFailures /\ MaxFailures \in Nat  BY DEF StoreTypeOK, StoreConstants
    <2>2. failures' = failures \/ (failures < MaxFailures /\ failures' = failures + 1)  BY DEF Written, WriteFails
    <2> QED  BY <2>1, <2>2
  <1>5. loaded = "yes"  BY <1>1 DEF StoreTypeOK
  <1>6. IsFiniteSet(inWrite') /\ Cardinality(inWrite') <= 1  BY <1>1, FS_EmptySet
  <1>7. StoreTypeOK'  BY <1>1, <1>2, <1>3, <1>4, <1>6, TypesStay DEF StoreTypeOK
  <1> QED  BY <1>1, <1>5, <1>7 DEF FirstAsked

LEMMA TickTyped ==
  ASSUME StoreConstants, StoreTypeOK, FirstAsked, Tick
  PROVE  StoreTypeOK' /\ FirstAsked' /\ now' \in Nat /\ now <= now'
  <1>1. UNCHANGED <<store, loaded, first, entries, cached, dirty, flushTimer, inWrite, onDisk, calls, given,
                    overlaid, missed, writeFailed, failures>> /\ now' = now + 1
    BY DEF Tick
  <1>2. now' \in Nat \ {0} /\ now <= now' /\ \A k \in 0..now : k \in 0..now'  BY <1>1, StoreFacts
  <1>3. first \in [op : {"none", "put", "drop", "get", "prune", "persist"}, names : SUBSET AllNames,
                   value : Given[store] \cup {Absent}, at : 0..now']
    BY <1>2 DEF StoreTypeOK
  <1>4. StoreTypeOK'  BY <1>1, <1>2, <1>3, TypesStay DEF StoreTypeOK
  <1>5. FirstAsked'  BY <1>1, <1>2 DEF FirstAsked, AskedCall, Giving
  <1> QED  BY <1>2, <1>4, <1>5

LEMMA ReopenTyped ==
  ASSUME StoreConstants, StoreTypeOK, Reopen
  PROVE  StoreTypeOK' /\ FirstAsked'
  <1>1. /\ loaded' = "no" /\ first' = NoCall /\ entries' = NoEntries /\ cached' = NoEntries
        /\ dirty' = FALSE /\ flushTimer' = FALSE /\ inWrite' = {} /\ missed' = FALSE /\ writeFailed' = FALSE
        /\ given' = onDisk'.given /\ UNCHANGED <<store, calls, now, overlaid>>
    BY DEF Reopen
  <1>2. onDisk' \in Files  BY StoreFacts, EmptyTyped DEF Reopen
  <1>3. given' \in [AllNames -> Seq(Gift(store))]  BY <1>1, <1>2, FileTyped
  <1>4. failures' \in 0..MaxFailures
    <2>1. failures \in 0..MaxFailures /\ MaxFailures \in Nat /\ failures < MaxFailures /\ failures' = failures + 1
      BY DEF StoreTypeOK, StoreConstants, Reopen
    <2> QED  BY <2>1
  <1>5. /\ NoCall \in [op : {"none", "put", "drop", "get", "prune", "persist"}, names : SUBSET AllNames,
                       value : Given[store] \cup {Absent}, at : 0..now]
        /\ NoCall.op = "none"
    BY StoreFacts DEF NoCall
  <1>6. IsFiniteSet(inWrite') /\ Cardinality(inWrite') <= 1  BY <1>1, FS_EmptySet
  <1>7. StoreTypeOK'  BY <1>1, <1>2, <1>3, <1>4, <1>5, <1>6, EmptyTyped, TypesStay DEF StoreTypeOK
  <1> QED  BY <1>1, <1>7 DEF FirstAsked

-----------------------------------------------------------------------------
(* Every step keeps what was given.                                           *)

LEMMA HistoryFacts ==
  ASSUME StoreConstants, StoreTypeOK, GivenPast, NEW n \in AllNames
  PROVE  /\ given[n] \in Seq(Gift(store)) /\ Past(given[n], now) /\ entries[n] \in Kept(store)
         /\ onDisk.given[n] \in Seq(Gift(store)) /\ Past(onDisk.given[n], now) /\ onDisk.data[n] \in Kept(store)
  <1>1. onDisk.given \in [AllNames -> Seq(Gift(store))] /\ onDisk.data \in [AllNames -> Kept(store)]
    BY LoadedTyped
  <1> QED  BY <1>1, StoreFacts DEF GivenPast

\* What comes later in a history is past too.
LEMMA PastPart ==
  ASSUME NEW S, NEW g \in Seq(S), NEW h \in Seq(S), NEW t, Past(g \o h, t)
  PROVE  Past(h, t)
  <1>1. ToSet(g \o h) = ToSet(g) \cup ToSet(h) /\ g \o h \in Seq(S)  BY ConcatElements
  <1> QED  BY <1>1 DEF Past

LEMMA CallAdded ==
  ASSUME StoreConstants, StoreTypeOK, GivenPast, NEW c, MapLaw(c, entries), NEW n \in AllNames, Added(n),
         store # "cores", ~(c.op = "drop" /\ n \in c.names), UNCHANGED <<store, onDisk, now>>
  PROVE  Added(n)'
  <1>1. PICK h \in Seq(Gift(store)) : given[n] = onDisk.given[n] \o h /\ Keeps(store, entries[n], h, now)
    BY StoreFacts DEF Added
  <1>2. /\ onDisk.given[n] \in Seq(Gift(store)) /\ entries[n] \in Kept(store) /\ Past(given[n], now)
        /\ onDisk' = onDisk /\ now' = now /\ store' = store
    BY HistoryFacts
  <1>3. Past(h, now)
    <2> DEFINE G == Gift(store)
               g == onDisk.given[n]
    <2>1. g \in Seq(G) /\ h \in Seq(G) /\ Past(g \o h, now)  BY <1>1, <1>2
    <2> HIDE DEF G, g
    <2> QED  BY <2>1, PastPart
  <1>4. EntryLaw(c, entries, n)  BY DEF MapLaw
  <1>5. Gifts' = Gift(store)  BY <1>2, TypesStay
  <1>6. CASE given'[n] = given[n] /\ Carries(entries[n], entries'[n])
    <2>1. Keeps(store, entries'[n], h, now)  BY <1>1, <1>3, <1>6 DEF Carries
    <2> QED  BY <1>1, <1>2, <1>5, <1>6, <2>1 DEF Added
  <1>7. CASE \E q \in Gift(store) :
               q.at \in 1..now /\ given'[n] = Append(given[n], q) /\ CarriesWith(entries[n], entries'[n], q)
    <2>1. PICK q \in Gift(store) :
            q.at \in 1..now /\ given'[n] = Append(given[n], q) /\ CarriesWith(entries[n], entries'[n], q)
      BY <1>7
    <2>2. Keeps(store, entries'[n], Append(h, q), now)  BY <1>1, <1>3, <2>1 DEF CarriesWith
    <2>3. Append(onDisk.given[n] \o h, q) = onDisk.given[n] \o Append(h, q) /\ Append(h, q) \in Seq(Gift(store))
      <3> DEFINE G == Gift(store)
                 g == onDisk.given[n]
      <3>1. g \in Seq(G) /\ h \in Seq(G) /\ q \in G  BY <1>2
      <3> HIDE DEF G, g
      <3>2. Append(g \o h, q) = g \o Append(h, q) /\ Append(h, q) \in Seq(G)  BY <3>1
      <3> QED  BY <3>2 DEF G, g
    <2> QED  BY <1>1, <1>2, <1>5, <2>1, <2>2, <2>3 DEF Added
  <1> QED  BY <1>4, <1>6, <1>7 DEF EntryLaw

LEMMA CallKeeps ==
  ASSUME StoreConstants, StoreTypeOK, FirstAsked, KeepInv, NEW c \in Calls, Call(c)
  PROVE  KeepInv'
  <1>0. UNCHANGED <<store, cached, inWrite, onDisk, now, writeFailed, failures>>  BY DEF Call
  <1>1. AskedCall(c) /\ GivenPast  BY CallsAsked DEF KeepInv
  <1>2. overlaid \subseteq overlaid' /\ (store = "cores" => overlaid' = {})
        /\ (loaded = "reading" /\ c.op = "drop" => c.names \subseteq overlaid')
    BY <1>1 DEF Call, KeepInv, AskedCall
  <1>3. FileKeeps(onDisk)' /\ \A x \in inWrite' : FileKeeps(x)'
    <2>1. FileKeeps(onDisk) /\ \A x \in inWrite : FileKeeps(x)  BY DEF KeepInv
    <2> QED  BY <1>0, <1>2, <2>1 DEF FileKeeps
  <1>4. CASE LoadsFirst(c)
    <2>1. loaded' = "reading" /\ UNCHANGED <<entries, given>>  BY <1>4 DEF Call, LoadsFirst
    <2>2. UnreadKeep  BY DEF KeepInv
    <2>3. UnreadKeep'
      <3>1. loaded # "yes"  BY <1>4 DEF LoadsFirst
      <3>2. ASSUME NEW n \in AllNames, store # "cores", n \notin overlaid'  PROVE Added(n)'
        <4>1. Added(n)  BY <1>2, <2>2, <3>1, <3>2 DEF UnreadKeep
        <4> QED  BY <1>0, <2>1, <4>1, TypesStay DEF Added
      <3> QED  BY <1>0, <2>1, <2>2, <3>1, <3>2 DEF UnreadKeep
    <2>4. EntriesKeep'  BY <2>1 DEF EntriesKeep
    <2>5. GivenPast'  BY <1>0, <1>1, <2>1 DEF GivenPast
    <2> QED  BY <1>0, <1>2, <1>3, <2>3, <2>4, <2>5 DEF KeepInv
  <1>5. CASE ~LoadsFirst(c)
    <2>1. Do(c, entries, cached) /\ UNCHANGED <<loaded, first>>  BY <1>5 DEF Call, LoadsFirst
    <2>2. MapLaw(c, entries)  BY <1>1, <2>1, StoreFacts, DoLaws
    <2>3. ASSUME NEW n \in AllNames
          PROVE  /\ Past(given'[n], now)
                 /\ Keeps(store, entries[n], given[n], now) => Keeps(store, entries'[n], given'[n], now)
      BY <1>1, <2>2, StoreFacts, LawsKeep
    <2>4. EntriesKeep'
      <3>1. EntriesKeep  BY DEF KeepInv
      <3> QED  BY <1>0, <1>2, <2>1, <2>3, <3>1 DEF EntriesKeep
    <2>5. GivenPast'  BY <1>0, <1>1, <2>3 DEF GivenPast
    <2>6. UnreadKeep'
      <3>1. SUFFICES ASSUME loaded # "yes", NEW n \in AllNames
                     PROVE  IF store = "cores"
                              THEN \/ Keeps(store, entries'[n], given'[n], now)
                                   \/ Keeps(store, onDisk.data[n], given'[n], now)
                              ELSE n \in overlaid' \/ Added(n)'
        BY <1>0, <2>1 DEF UnreadKeep
      <3>2. UnreadKeep  BY DEF KeepInv
      <3>3. CASE store = "cores"
        <4>1. Keeps(store, entries[n], given[n], now) \/ Keeps(store, onDisk.data[n], given[n], now)
          BY <3>1, <3>2, <3>3 DEF UnreadKeep
        <4>2. EntryLaw(c, entries, n)  BY <2>2 DEF MapLaw
        <4>3. given'[n] = given[n] \/ Keeps(store, entries'[n], given'[n], now)  BY <3>3, <4>2 DEF EntryLaw
        <4> QED  BY <2>3, <3>3, <4>1, <4>3
      <3>4. CASE store # "cores" /\ n \notin overlaid'
        <4>1. Added(n)  BY <1>2, <3>1, <3>2, <3>4 DEF UnreadKeep
        <4>2. loaded = "reading"  BY <1>5, <3>1, <3>4 DEF LoadsFirst, StoreTypeOK
        <4>3. ~(c.op = "drop" /\ n \in c.names)  BY <1>2, <3>4, <4>2
        <4>4. Added(n)'  BY <1>0, <1>1, <2>2, <3>4, <4>1, <4>3, CallAdded
        <4> QED  BY <3>4, <4>4
      <3> QED  BY <3>3, <3>4
    <2> QED  BY <1>0, <1>2, <1>3, <2>4, <2>5, <2>6 DEF KeepInv
  <1> QED  BY <1>4, <1>5

\* The map that a load makes has what the file and the calls before it gave.
LEMMA FromFileKeeps ==
  ASSUME StoreConstants, StoreTypeOK, KeepInv, loaded = "reading", NEW n \in AllNames, n \notin overlaid,
         store # "cores" => entries[n] = Absent \/ Prune(store, onDisk.data[n], now) = Absent
  PROVE  Keeps(store, FromFile(n), given[n], now)
  <1> DEFINE d == Prune(store, onDisk.data[n], now)
  <1>1. GivenPast /\ UnreadKeep /\ Keeps(store, onDisk.data[n], onDisk.given[n], now)
    BY DEF KeepInv, FileKeeps
  <1>2. /\ given[n] \in Seq(Gift(store)) /\ Past(given[n], now) /\ entries[n] \in Kept(store)
        /\ onDisk.given[n] \in Seq(Gift(store)) /\ Past(onDisk.given[n], now) /\ onDisk.data[n] \in Kept(store)
    BY <1>1, HistoryFacts
  <1>3. CASE store = "cores"
    <2>1. Keeps(store, entries[n], given[n], now) \/ Keeps(store, onDisk.data[n], given[n], now)
      BY <1>1, <1>3 DEF UnreadKeep
    <2>2. \A p \in ToSet(given[n]) : CoreKeeps(entries[n], p) \/ CoreKeeps(onDisk.data[n], p)
      BY <1>3, <2>1 DEF Keeps
    <2>3. FromFile(n) = Merge("cores", entries[n], onDisk.data[n], now)
      <3>1. Prune(store, onDisk.data[n], now) = onDisk.data[n]  BY <1>3 DEF Prune
      <3>2. onDisk.data[n] = Absent => Merge("cores", entries[n], onDisk.data[n], now) = entries[n]  BY DEF Merge
      <3> QED  BY <1>3, <3>1, <3>2 DEF FromFile
    <2>4. ASSUME NEW p \in ToSet(given[n])
          PROVE  CoreKeeps(Merge("cores", entries[n], onDisk.data[n], now), p)
      <3>1. entries[n] \in Kept("cores") /\ onDisk.data[n] \in Kept("cores") /\ now \in Nat
        BY <1>2, <1>3, StoreFacts
      <3> QED  BY <2>2, <3>1, CoresMerged
    <2> QED  BY <1>3, <2>3, <2>4 DEF Keeps
  <1>4. CASE store # "cores"
    <2>1. Added(n)  BY <1>1, <1>4 DEF UnreadKeep
    <2>2. PICK h \in Seq(Gift(store)) : given[n] = onDisk.given[n] \o h /\ Keeps(store, entries[n], h, now)
      BY <2>1, StoreFacts DEF Added
    <2>3. Keeps(store, d, onDisk.given[n], now)  BY <1>1, <1>2, StoreFacts, PruneKeeps
    <2>4. FromFile(n) = IF d = Absent THEN entries[n] ELSE d  BY <1>4 DEF FromFile
    <2>5. store \in DOMAIN Entries /\ now \in Nat  BY StoreFacts
    <2> DEFINE g == onDisk.given[n]
               a == entries[n]
    <2>6. g \in Seq(Gift(store)) /\ Keeps(store, d, g, now) /\ Keeps(store, a, h, now) /\ (a = Absent \/ d = Absent)
      BY <1>2, <1>4, <2>2, <2>3
    <2> HIDE DEF d, g, a
    <2>7. CASE d = Absent
      <3>1. Keeps(store, a, g \o h, now)  BY <2>5, <2>6, <2>7, HistoriesJoined
      <3> QED  BY <2>2, <2>4, <2>7, <3>1 DEF g, a
    <2>8. CASE d # Absent
      <3>1. Keeps(store, d, g \o h, now)  BY <2>5, <2>6, <2>8, HistoriesJoined
      <3> QED  BY <2>2, <2>4, <2>8, <3>1 DEF g
    <2> QED  BY <2>7, <2>8
  <1> QED  BY <1>3, <1>4

LEMMA LoadKeeps ==
  ASSUME StoreConstants, StoreTypeOK, FirstAsked, KeepInv, Load
  PROVE  KeepInv'
  <1> DEFINE m == [n \in AllNames |-> FromFile(n)]
  <1>1. MapLaw(first, m) /\ store' = store /\ now' = now  BY LoadLaws
  <1>2. m \in [AllNames -> Kept(store)] /\ \A n \in AllNames : m[n] = FromFile(n)  BY LoadedTyped
  <1>3. loaded = "reading" /\ loaded' = "yes" /\ UNCHANGED <<inWrite, onDisk>>  BY DEF Load
  <1>4. /\ overlaid \subseteq overlaid' /\ (store = "cores" => overlaid' = {})
        /\ \A n \in AllNames : n \notin overlaid' /\ store # "cores" =>
             entries[n] = Absent \/ Prune(store, onDisk.data[n], now) = Absent
    BY DEF Load, KeepInv
  <1> HIDE DEF m
  <1>5. ASSUME NEW n \in AllNames
        PROVE  /\ Past(given'[n], now)
               /\ Keeps(store, m[n], given[n], now) => Keeps(store, entries'[n], given'[n], now)
    BY <1>1, <1>2, LawsKeep DEF KeepInv
  <1>6. ASSUME NEW n \in AllNames \ overlaid'  PROVE Keeps(store, entries'[n], given'[n], now)
    <2>1. Keeps(store, FromFile(n), given[n], now)  BY <1>3, <1>4, FromFileKeeps
    <2> QED  BY <1>2, <1>5, <2>1
  <1>7. EntriesKeep' /\ UnreadKeep'  BY <1>1, <1>3, <1>6 DEF EntriesKeep, UnreadKeep
  <1>8. GivenPast'  BY <1>1, <1>3, <1>5 DEF GivenPast, KeepInv
  <1>9. FileKeeps(onDisk)' /\ \A x \in inWrite' : FileKeeps(x)'
    <2>1. FileKeeps(onDisk) /\ \A x \in inWrite : FileKeeps(x)  BY DEF KeepInv
    <2> QED  BY <1>1, <1>3, <1>4, <2>1 DEF FileKeeps
  <1> QED  BY <1>1, <1>4, <1>7, <1>8, <1>9 DEF KeepInv

\* What is written is what the entries keep.
LEMMA WritingKeeps ==
  ASSUME StoreConstants, StoreTypeOK, KeepInv, loaded = "yes", UNCHANGED <<store, onDisk, now, given, overlaid>>,
         loaded' = "yes", \A n \in AllNames : entries'[n] \in {entries[n], Prune(store, entries[n], now)},
         inWrite' = inWrite \/ inWrite' = {} \/ inWrite' = {[data |-> entries', given |-> given]}
  PROVE  KeepInv'
  <1>1. GivenPast /\ EntriesKeep /\ FileKeeps(onDisk) /\ \A x \in inWrite : FileKeeps(x)  BY DEF KeepInv
  <1>2. ASSUME NEW n \in AllNames \ overlaid  PROVE Keeps(store, entries'[n], given[n], now)
    <2>1. Keeps(store, entries[n], given[n], now)  BY <1>1 DEF EntriesKeep
    <2>2. Keeps(store, Prune(store, entries[n], now), given[n], now)
      BY <1>1, <2>1, HistoryFacts, StoreFacts, PruneKeeps
    <2> QED  BY <2>1, <2>2
  <1>3. EntriesKeep' /\ UnreadKeep'  BY <1>2 DEF EntriesKeep, UnreadKeep
  <1>4. FileKeeps(onDisk)'  BY <1>1 DEF FileKeeps
  <1>5. ASSUME NEW x \in inWrite'  PROVE FileKeeps(x)' /\ \A n \in AllNames : Past(x.given[n], now)
    <2>1. CASE x \in inWrite  BY <1>1, <2>1 DEF FileKeeps, GivenPast
    <2>2. CASE x = [data |-> entries', given |-> given]  BY <1>1, <1>2, <2>2 DEF FileKeeps, GivenPast
    <2> QED  BY <1>5, <2>1, <2>2
  <1>6. GivenPast'  BY <1>1, <1>5 DEF GivenPast
  <1> QED  BY <1>3, <1>4, <1>5, <1>6 DEF KeepInv

LEMMA FlushKeeps ==
  ASSUME StoreConstants, StoreTypeOK, KeepInv, FlushInv, Flush
  PROVE  KeepInv'
  <1>1. UNCHANGED <<store, onDisk, now, given, overlaid>> /\ loaded' = loaded  BY DEF Flush
  <1>2. loaded = "yes"
    <2>1. loaded # "no"  BY DEF Flush, FlushInv
    <2> QED  BY <2>1 DEF Flush, StoreTypeOK
  <1>3. \A n \in AllNames : entries'[n] \in {entries[n], Prune(store, entries[n], now)}  BY DEF Flush
  <1>4. inWrite' = inWrite \/ inWrite' = {[data |-> entries', given |-> given]}  BY DEF Flush
  <1> QED  BY <1>1, <1>2, <1>3, <1>4, WritingKeeps

LEMMA PersistKeeps ==
  ASSUME StoreConstants, StoreTypeOK, KeepInv, Persist
  PROVE  KeepInv'
  <1>1. UNCHANGED <<store, entries, onDisk, now, given, overlaid>>  BY DEF Persist
  <1>2. CASE loaded = "no"
    <2>1. loaded' = "reading" /\ inWrite' = inWrite /\ store = "cores"  BY <1>2 DEF Persist
    <2>2. UnreadKeep' /\ EntriesKeep'  BY <1>1, <1>2, <2>1 DEF UnreadKeep, EntriesKeep, KeepInv
    <2>3. GivenPast' /\ FileKeeps(onDisk)' /\ \A x \in inWrite' : FileKeeps(x)'
      BY <1>1, <2>1 DEF GivenPast, FileKeeps, KeepInv
    <2> QED  BY <1>1, <2>1, <2>2, <2>3 DEF KeepInv
  <1>3. CASE loaded # "no"
    <2>1. loaded = "yes" /\ loaded' = loaded  BY <1>3 DEF Persist, StoreTypeOK
    <2>2. inWrite' = {} \/ inWrite' = {[data |-> entries', given |-> given]}  BY <1>1, <1>3 DEF Persist
    <2>3. \A n \in AllNames : entries'[n] \in {entries[n], Prune(store, entries[n], now)}  BY <1>1
    <2> QED  BY <1>1, <2>1, <2>2, <2>3, WritingKeeps
  <1> QED  BY <1>2, <1>3

\* Any file that there may be after a write or a crash keeps what it was given.
LEMMA FilesKeep ==
  ASSUME StoreConstants, StoreTypeOK, KeepInv, NEW f \in {onDisk, EmptyFile} \cup inWrite
  PROVE  FileKeeps(f) /\ \A n \in AllNames : Past(f.given[n], now)
  <1>1. CASE f = EmptyFile
    <2>1. \A n \in AllNames : f.data[n] = Absent /\ f.given[n] = <<>>
      BY <1>1 DEF EmptyFile, NoEntries, NoneGiven
    <2>2. Keeps(store, Absent, <<>>, now) /\ Past(<<>>, now)  BY StoreFacts, NothingKept
    <2> QED  BY <2>1, <2>2 DEF FileKeeps
  <1>2. CASE f = onDisk  BY <1>2 DEF KeepInv, GivenPast
  <1>3. CASE f \in inWrite  BY <1>3 DEF KeepInv, GivenPast
  <1> QED  BY <1>1, <1>2, <1>3

LEMMA WriteKeeps ==
  ASSUME StoreConstants, StoreTypeOK, KeepInv, Written \/ WriteFails
  PROVE  KeepInv'
  <1>1. UNCHANGED <<store, loaded, entries, now, given, overlaid>> /\ inWrite' = {} /\ loaded = "yes"
        /\ onDisk' \in {onDisk, EmptyFile} \cup inWrite
    BY DEF Written, WriteFails, StoreTypeOK
  <1>2. FileKeeps(onDisk') /\ \A n \in AllNames : Past(onDisk'.given[n], now)  BY <1>1, FilesKeep
  <1>3. EntriesKeep' /\ UnreadKeep'  BY <1>1 DEF EntriesKeep, UnreadKeep, KeepInv
  <1>4. GivenPast' /\ FileKeeps(onDisk)'  BY <1>1, <1>2 DEF GivenPast, FileKeeps, KeepInv
  <1> QED  BY <1>1, <1>3, <1>4 DEF KeepInv

LEMMA TickKeeps ==
  ASSUME StoreConstants, StoreTypeOK, FirstAsked, KeepInv, Tick
  PROVE  KeepInv'
  <1>1. UNCHANGED <<store, loaded, entries, inWrite, onDisk, given, overlaid>> /\ store # "cores"  BY DEF Tick
  <1>2. now' \in Nat /\ now <= now'  BY TickTyped
  <1>3. ASSUME NEW e, NEW g \in Seq(Gift(store)), Past(g, now), Keeps(store, e, g, now)
        PROVE  Keeps(store, e, g, now') /\ Past(g, now')
    <2> DEFINE u == now'
    <2>1. u \in Nat /\ now <= u  BY <1>2
    <2> HIDE DEF u
    <2>2. Keeps(store, e, g, u) /\ Past(g, u)  BY <1>3, <2>1, StoreFacts, KeepsLater
    <2> QED  BY <2>2 DEF u
  <1>4. ASSUME NEW g \in Seq(Gift(store)), Past(g, now)  PROVE Past(g, now')
    BY <1>2, <1>4, StoreFacts DEF Past
  <1>5. GivenPast /\ EntriesKeep /\ UnreadKeep /\ FileKeeps(onDisk) /\ \A x \in inWrite : FileKeeps(x)
    BY DEF KeepInv
  <1>6. ASSUME NEW x \in inWrite, NEW n \in AllNames
        PROVE  x.given[n] \in Seq(Gift(store)) /\ Past(x.given[n], now)
    <2>1. x \in Files  BY StoreFacts
    <2>2. x.given \in [AllNames -> Seq(Gift(store))]  BY <2>1, FileTyped
    <2> QED  BY <1>5, <2>2 DEF GivenPast
  <1>7. GivenPast'  BY <1>1, <1>4, <1>5, <1>6, HistoryFacts DEF GivenPast
  <1>8. EntriesKeep'  BY <1>1, <1>3, <1>5, HistoryFacts DEF EntriesKeep
  <1>9. FileKeeps(onDisk)'  BY <1>1, <1>3, <1>5, HistoryFacts DEF FileKeeps
  <1>10. \A x \in inWrite' : FileKeeps(x)'  BY <1>1, <1>3, <1>5, <1>6 DEF FileKeeps
  <1>11. UnreadKeep'
    <2>1. ASSUME NEW n \in AllNames, Added(n)  PROVE Added(n)'
      <3>1. PICK h \in Seq(Gift(store)) : given[n] = onDisk.given[n] \o h /\ Keeps(store, entries[n], h, now)
        BY <2>1, StoreFacts DEF Added
      <3>2. Past(h, now)
        <4> DEFINE G == Gift(store)
                   g == onDisk.given[n]
        <4>1. g \in Seq(G) /\ h \in Seq(G) /\ Past(g \o h, now)  BY <1>5, <3>1, HistoryFacts
        <4> HIDE DEF G, g
        <4> QED  BY <4>1, PastPart
      <3>3. Keeps(store, entries[n], h, now')  BY <1>3, <3>1, <3>2
      <3> QED  BY <1>1, <3>1, <3>3, TypesStay DEF Added
    <2> QED  BY <1>1, <1>5, <2>1 DEF UnreadKeep
  <1> QED  BY <1>1, <1>7, <1>8, <1>9, <1>10, <1>11 DEF KeepInv

LEMMA ReopenKeeps ==
  ASSUME StoreConstants, StoreTypeOK, KeepInv, Reopen
  PROVE  KeepInv'
  <1>1. /\ loaded' = "no" /\ entries' = NoEntries /\ inWrite' = {} /\ given' = onDisk'.given
        /\ UNCHANGED <<store, now, overlaid>> /\ onDisk' \in {onDisk, EmptyFile} \cup inWrite
    BY DEF Reopen
  <1>2. FileKeeps(onDisk') /\ \A n \in AllNames : Past(onDisk'.given[n], now)  BY <1>1, FilesKeep
  <1>3. EntriesKeep' /\ GivenPast' /\ FileKeeps(onDisk)'  BY <1>1, <1>2 DEF EntriesKeep, GivenPast, FileKeeps
  <1>4. onDisk' \in Files  BY <1>1, StoreFacts, EmptyTyped
  <1>5. ASSUME NEW n \in AllNames, store # "cores"  PROVE Added(n)'
    <2> DEFINE g == onDisk'.given[n]
    <2>1. g \in Seq(Gift(store))  BY <1>4, FileTyped
    <2> HIDE DEF g
    <2>2. g \o <<>> = g /\ <<>> \in Seq(Gift(store))  BY <2>1
    <2>3. Keeps(store, Absent, <<>>, now) /\ entries'[n] = Absent
      BY <1>1, StoreFacts, NothingKept DEF NoEntries
    <2>4. given'[n] = onDisk'.given[n] \o <<>>  BY <1>1, <2>2 DEF g
    <2> QED  BY <1>1, <2>2, <2>3, <2>4, TypesStay DEF Added
  <1>6. ASSUME NEW n \in AllNames, store = "cores"  PROVE Keeps(store, onDisk'.data[n], given'[n], now)
    BY <1>1, <1>2, <1>6 DEF FileKeeps, KeepInv
  <1>7. UnreadKeep'  BY <1>1, <1>5, <1>6 DEF UnreadKeep
  <1> QED  BY <1>1, <1>3, <1>7 DEF KeepInv

-----------------------------------------------------------------------------
(* Every step keeps the file on the heels of the entries.                     *)

LEMMA PrunedTheSame ==
  ASSUME StoreConstants, StoreTypeOK, NEW a \in Kept(store), NEW b \in {a, Prune(store, a, now)}
  PROVE  Prune(store, b, now) = Prune(store, a, now)
  <1>1. Prune(store, Prune(store, a, now), now) = Prune(store, a, now)  BY StoreFacts, PruneLater
  <1> QED  BY <1>1

LEMMA CallFlushes ==
  ASSUME StoreConstants, StoreTypeOK, FlushInv, NEW c \in Calls, Call(c)
  PROVE  FlushInv'
  <1>0. UNCHANGED <<store, cached, inWrite, onDisk, now, writeFailed, failures>>  BY DEF Call
  <1>1. CASE LoadsFirst(c)
    <2>1. loaded' = "reading" /\ UNCHANGED <<entries, given, dirty, flushTimer, missed>> /\ loaded = "no"
      BY <1>1 DEF Call, LoadsFirst
    <2> QED  BY <1>0, <2>1 DEF FlushInv
  <1>2. CASE ~LoadsFirst(c)
    <2>1. Do(c, entries, cached) /\ UNCHANGED <<loaded, first>> /\ AskedCall(c)  BY <1>2, CallsAsked DEF Call, LoadsFirst
    <2>2. MapLaw(c, entries) /\ TouchLaw(entries)  BY <2>1, StoreFacts, DoLaws
    <2>3. missed' \in BOOLEAN /\ missed \in BOOLEAN  BY <2>2, StoreFacts, LawsTyped DEF StoreTypeOK
    <2>4. CASE Touch /\ missed' = (missed \/ (store = "cores" /\ inWrite # {}))
      <3>1. dirty' = TRUE /\ flushTimer' = TRUE  BY <2>4 DEF Touch
      <3>2. loaded # "no" \/ store = "cores"  BY <1>2 DEF LoadsFirst
      <3>3. store = "cores" /\ ~missed' => inWrite = {}  BY <2>3, <2>4
      <3> QED  BY <1>0, <2>1, <3>1, <3>2, <3>3 DEF FlushInv
    <2>5. CASE UNCHANGED <<dirty, flushTimer, missed>>
               /\ \A n \in AllNames : entries'[n] \in {entries[n], Prune(store, entries[n], now)}
      <3>1. loaded # "no" \/ store = "cores"  BY <1>2 DEF LoadsFirst
      <3>2. \A n \in AllNames : Prune(store, entries'[n], now) = Prune(store, entries[n], now)
        <4>1. \A n \in AllNames : entries[n] \in Kept(store)  BY StoreFacts
        <4> QED  BY <2>5, <4>1, PrunedTheSame
      <3>3. entries = NoEntries => entries' = NoEntries
        <4>1. entries' = [n \in AllNames |-> entries'[n]]  BY <2>2 DEF MapLaw
        <4>2. entries = NoEntries => \A n \in AllNames : entries'[n] = Absent  BY <2>5 DEF NoEntries, Prune
        <4> QED  BY <4>1, <4>2 DEF NoEntries
      <3>4. loaded = "yes" /\ ~flushTimer /\ ~missed =>
              /\ inWrite = {} /\ ~writeFailed => SameLater(onDisk.data, entries)'
              /\ \A x \in inWrite : SameLater(x.data, entries)'
        BY <1>0, <3>2 DEF FlushInv, SameLater
      <3>5. (loaded' = "yes" /\ ~flushTimer' /\ ~missed' =>
              /\ inWrite' = {} /\ ~writeFailed' => SameLater(onDisk.data, entries)'
              /\ \A x \in inWrite' : SameLater(x.data, entries)')
        BY <1>0, <2>1, <2>5, <3>4
      <3> QED  BY <1>0, <2>1, <2>5, <3>1, <3>3, <3>5 DEF FlushInv
    <2> QED  BY <2>2, <2>4, <2>5 DEF TouchLaw
  <1> QED  BY <1>1, <1>2

LEMMA LoadFlushes ==
  ASSUME StoreConstants, StoreTypeOK, FirstAsked, FlushInv, Load
  PROVE  FlushInv'
  <1> DEFINE m == [n \in AllNames |-> FromFile(n)]
  <1>1. MapLaw(first, m) /\ TouchLaw(m) /\ store' = store /\ now' = now  BY LoadLaws
  <1>2. m \in [AllNames -> Kept(store)] /\ \A n \in AllNames : m[n] = FromFile(n)  BY LoadedTyped
  <1>3. loaded = "reading" /\ loaded' = "yes" /\ UNCHANGED <<inWrite, onDisk, writeFailed>> /\ inWrite = {}
    BY DEF Load, StoreTypeOK
  <1> HIDE DEF m
  <1>4. missed' \in BOOLEAN  BY <1>1, <1>2, LawsTyped
  <1>5. CASE Touch /\ missed' = (missed \/ (store = "cores" /\ inWrite # {}))
    <2>1. dirty' = TRUE /\ flushTimer' = TRUE  BY <1>5 DEF Touch
    <2> QED  BY <1>1, <1>3, <2>1 DEF FlushInv
  <1>6. CASE UNCHANGED <<dirty, flushTimer, missed>> /\ \A n \in AllNames : entries'[n] \in {m[n], Prune(store, m[n], now)}
    <2>1. ASSUME ~flushTimer, NEW n \in AllNames
          PROVE  Prune(store, onDisk.data[n], now) = Prune(store, entries'[n], now)
      <3> DEFINE d == Prune(store, onDisk.data[n], now)
      <3>1. onDisk.data[n] \in Kept(store) /\ m[n] \in Kept(store)  BY <1>2, LoadedTyped
      <3>2. Prune(store, d, now) = d  BY <3>1, StoreFacts, PruneLater
      <3>3. entries[n] = Absent  BY <1>3, <2>1 DEF FlushInv, NoEntries
      <3>4. m[n] = d
        <4>1. FromFile(n) = IF d = Absent THEN entries[n]
                            ELSE IF store = "cores" THEN Merge(store, entries[n], d, now) ELSE d
          BY DEF FromFile
        <4> HIDE DEF d
        <4> QED  BY <1>2, <3>3, <4>1 DEF Merge
      <3>5. Prune(store, entries'[n], now) = Prune(store, m[n], now)  BY <1>6, <3>1, PrunedTheSame
      <3> QED  BY <3>2, <3>4, <3>5
    <2>2. ~flushTimer' => SameLater(onDisk.data, entries)'  BY <1>1, <1>3, <1>6, <2>1 DEF SameLater
    <2> QED  BY <1>1, <1>3, <1>6, <2>2 DEF FlushInv
  <1> QED  BY <1>1, <1>5, <1>6 DEF TouchLaw

LEMMA FlushFlushes ==
  ASSUME StoreConstants, StoreTypeOK, FlushInv, Flush
  PROVE  FlushInv'
  <1>1. dirty /\ store # "cores" /\ loaded = "yes"  BY DEF Flush, FlushInv, StoreTypeOK
  <1>2. dirty' = FALSE /\ flushTimer' = FALSE /\ inWrite' = {[data |-> entries', given |-> given]}
        /\ UNCHANGED <<store, loaded, given, now>>
    BY <1>1 DEF Flush
  <1>3. \A x \in inWrite' : SameLater(x.data, entries)'  BY <1>2 DEF SameLater
  <1>4. inWrite' # {}  BY <1>2
  <1> QED  BY <1>1, <1>2, <1>3, <1>4 DEF FlushInv

LEMMA PersistFlushes ==
  ASSUME StoreConstants, StoreTypeOK, FlushInv, Persist
  PROVE  FlushInv'
  <1>1. UNCHANGED <<store, entries, cached, dirty, onDisk, calls, now, given, overlaid, missed, writeFailed, failures>>
        /\ store = "cores" /\ flushTimer /\ inWrite = {}
    BY DEF Persist
  <1>2. CASE loaded = "no"
    <2>1. loaded' = "reading" /\ UNCHANGED <<flushTimer, inWrite>>  BY <1>2 DEF Persist
    <2> QED  BY <1>1, <2>1 DEF FlushInv
  <1>3. CASE loaded # "no"
    <2>1. flushTimer' = FALSE /\ inWrite' = (IF dirty THEN {[data |-> entries, given |-> given]} ELSE {})
          /\ loaded' = loaded /\ loaded = "yes"
      BY <1>3 DEF Persist, StoreTypeOK
    <2>2. ~missed => inWrite' # {} /\ \A x \in inWrite' : SameLater(x.data, entries)'
      <3>1. ~missed => inWrite' = {[data |-> entries, given |-> given]}  BY <1>1, <2>1 DEF FlushInv
      <3>2. ASSUME NEW x \in inWrite', ~missed  PROVE SameLater(x.data, entries)'
        <4>1. x.data = entries  BY <3>1, <3>2
        <4> QED  BY <1>1, <4>1 DEF SameLater
      <3>3. ~missed => inWrite' # {}  BY <3>1
      <3> QED  BY <3>2, <3>3
    <2> QED  BY <1>1, <2>1, <2>2 DEF FlushInv
  <1> QED  BY <1>2, <1>3

LEMMA WriteFlushes ==
  ASSUME StoreConstants, StoreTypeOK, FlushInv, Written \/ WriteFails
  PROVE  FlushInv'
  <1>1. UNCHANGED <<store, loaded, entries, flushTimer, now, given, missed>> /\ inWrite # {} /\ inWrite' = {}
        /\ loaded = "yes" /\ (store # "cores" => dirty' = dirty)
    BY DEF Written, WriteFails, StoreTypeOK
  <1>2. CASE Written
    <2>1. onDisk' \in inWrite  BY <1>2 DEF Written
    <2>2. ~flushTimer /\ ~missed => SameLater(onDisk.data, entries)'
      BY <1>1, <2>1 DEF FlushInv, SameLater
    <2> QED  BY <1>1, <2>2 DEF FlushInv
  <1>3. CASE WriteFails
    <2>1. writeFailed' = TRUE  BY <1>3 DEF WriteFails
    <2> QED  BY <1>1, <2>1 DEF FlushInv
  <1> QED  BY <1>2, <1>3

LEMMA TickFlushes ==
  ASSUME StoreConstants, StoreTypeOK, FirstAsked, FlushInv, Tick
  PROVE  FlushInv'
  <1>1. UNCHANGED <<store, loaded, entries, dirty, flushTimer, inWrite, onDisk, given, missed, writeFailed>>
    BY DEF Tick
  <1>2. ASSUME NEW d \in [AllNames -> Kept(store)], SameLater(d, entries)
        PROVE  \A n \in AllNames : Prune(store, d[n], now') = Prune(store, entries[n], now')
    <2> DEFINE u == now'
    <2>1. u \in Nat /\ now <= u  BY TickTyped
    <2> HIDE DEF u
    <2>2. ASSUME NEW n \in AllNames  PROVE Prune(store, d[n], u) = Prune(store, entries[n], u)
      <3>1. d[n] \in Kept(store) /\ entries[n] \in Kept(store)  BY StoreFacts
      <3>2. Prune(store, Prune(store, d[n], now), u) = Prune(store, d[n], u)  BY <2>1, <3>1, StoreFacts, PruneLater
      <3>3. Prune(store, Prune(store, entries[n], now), u) = Prune(store, entries[n], u)
        BY <2>1, <3>1, StoreFacts, PruneLater
      <3>4. Prune(store, d[n], now) = Prune(store, entries[n], now)  BY <1>2 DEF SameLater
      <3> QED  BY <3>2, <3>3, <3>4
    <2> QED  BY <2>2 DEF u
  <1>3. SameLater(onDisk.data, entries) => SameLater(onDisk.data, entries)'
    BY <1>1, <1>2, LoadedTyped DEF SameLater
  <1>4. ASSUME NEW x \in inWrite, SameLater(x.data, entries)  PROVE SameLater(x.data, entries)'
    <2>1. x \in Files  BY StoreFacts
    <2>2. x.data \in [AllNames -> Kept(store)]  BY <2>1, FileTyped
    <2> QED  BY <1>1, <1>2, <1>4, <2>2 DEF SameLater
  <1> QED  BY <1>1, <1>3, <1>4 DEF FlushInv

LEMMA ReopenFlushes ==
  ASSUME Reopen
  PROVE  FlushInv'
  BY DEF Reopen, FlushInv

-----------------------------------------------------------------------------

StoreInv == StoreTypeOK /\ FirstAsked /\ KeepInv /\ FlushInv

LEMMA StoreStarts ==
  ASSUME StoreConstants
  PROVE  StoreInit => StoreInv
  <1> SUFFICES ASSUME StoreInit  PROVE StoreInv
    OBVIOUS
  <1>1. /\ store \in DOMAIN Entries /\ loaded = "no" /\ first = NoCall /\ entries = NoEntries /\ cached = NoEntries
        /\ dirty = FALSE /\ flushTimer = FALSE /\ inWrite = {} /\ onDisk = EmptyFile
        /\ calls = 0 /\ now = 1 /\ given = NoneGiven
        /\ overlaid = {} /\ missed = FALSE /\ writeFailed = FALSE /\ failures = 0 /\ store \in DOMAIN Given
    BY DEF StoreInit, StoreConstants
  <1>2. /\ NoEntries \in [AllNames -> Held] /\ NoneGiven \in [AllNames -> Seq(Gifts)]
        /\ EmptyFile \in Files
    BY DEF NoEntries, NoneGiven, EmptyFile, Held, Files
  <1>3. /\ NoCall \in [op : {"none", "put", "drop", "get", "prune", "persist"}, names : SUBSET AllNames,
                       value : Given[store] \cup {Absent}, at : 0..now]
        /\ NoCall.op = "none"
    BY <1>1 DEF NoCall
  <1>4. 0 \in 0..MaxCalls /\ 0 \in 0..MaxFailures  BY DEF StoreConstants
  <1>5. IsFiniteSet(inWrite) /\ Cardinality(inWrite) <= 1  BY <1>1, FS_EmptySet
  <1>6. StoreTypeOK
    <2>1. /\ first.op = "none" /\ loaded # "reading" /\ loaded # "yes" /\ loaded \in {"no", "reading", "yes"}
          /\ first \in [op : {"none", "put", "drop", "get", "prune", "persist"}, names : SUBSET AllNames,
                       value : Given[store] \cup {Absent}, at : 0..now]
      BY <1>1, <1>3
    <2>2. now \in Nat \ {0} /\ calls \in 0..MaxCalls /\ failures \in 0..MaxFailures  BY <1>1, <1>4
    <2>3. /\ entries \in [AllNames -> Held] /\ cached \in [AllNames -> Held]
          /\ given \in [AllNames -> Seq(Gifts)] /\ onDisk \in Files
      BY <1>1, <1>2
    <2>4. inWrite \subseteq Files /\ inWrite = {} /\ overlaid \subseteq AllNames  BY <1>1
    <2>5. dirty \in BOOLEAN /\ flushTimer \in BOOLEAN /\ missed \in BOOLEAN /\ writeFailed \in BOOLEAN
      BY <1>1
    <2> QED  BY <1>1, <1>5, <2>1, <2>2, <2>3, <2>4, <2>5 DEF StoreTypeOK
  <1>7. FirstAsked  BY <1>1 DEF FirstAsked
  <1>8. Keeps(store, Absent, <<>>, now) /\ Past(<<>>, now)  BY <1>1, NothingKept
  <1>9. \A n \in AllNames : /\ entries[n] = Absent /\ given[n] = <<>>
                            /\ onDisk.data[n] = Absent /\ onDisk.given[n] = <<>>
    BY <1>1 DEF NoEntries, NoneGiven, EmptyFile
  <1>10. UnreadKeep
    <2>1. <<>> \in Seq(Gifts) /\ <<>> = <<>> \o <<>>  OBVIOUS
    <2>2. \A n \in AllNames : Added(n)  BY <1>8, <1>9, <2>1 DEF Added
    <2> QED  BY <1>8, <1>9, <2>2 DEF UnreadKeep
  <1>11. GivenPast /\ FileKeeps(onDisk) /\ EntriesKeep
    BY <1>1, <1>8, <1>9 DEF GivenPast, FileKeeps, EntriesKeep
  <1>12. KeepInv  BY <1>1, <1>10, <1>11 DEF KeepInv
  <1>13. FlushInv  BY <1>1 DEF FlushInv, EmptyFile
  <1> QED  BY <1>6, <1>7, <1>12, <1>13 DEF StoreInv

LEMMA StoreSteps ==
  ASSUME StoreConstants
  PROVE  StoreInv /\ [StoreNext]_storeVars => StoreInv'
  <1> SUFFICES ASSUME StoreInv, [StoreNext]_storeVars  PROVE StoreInv'
    OBVIOUS
  <1>0. StoreTypeOK /\ FirstAsked /\ KeepInv /\ FlushInv  BY DEF StoreInv
  <1>1. ASSUME NEW c \in Calls, Call(c)  PROVE StoreInv'
    BY <1>0, <1>1, CallTyped, CallKeeps, CallFlushes DEF StoreInv
  <1>2. CASE Load  BY <1>0, <1>2, LoadTyped, LoadKeeps, LoadFlushes DEF StoreInv
  <1>3. CASE Flush  BY <1>0, <1>3, FlushTyped, FlushKeeps, FlushFlushes DEF StoreInv
  <1>4. CASE Persist  BY <1>0, <1>4, PersistTyped, PersistKeeps, PersistFlushes DEF StoreInv
  <1>5. CASE Written \/ WriteFails  BY <1>0, <1>5, WriteTyped, WriteKeeps, WriteFlushes DEF StoreInv
  <1>6. CASE Tick  BY <1>0, <1>6, TickTyped, TickKeeps, TickFlushes DEF StoreInv
  <1>7. CASE Reopen  BY <1>0, <1>7, ReopenTyped, ReopenKeeps, ReopenFlushes DEF StoreInv
  <1>8. CASE UNCHANGED storeVars
    <2>1. UNCHANGED <<store, loaded, first, entries, cached, dirty, flushTimer, inWrite, onDisk, calls, now,
                      given, overlaid, missed, writeFailed, failures>>
      BY <1>8 DEF storeVars
    <2>2. StoreTypeOK'  BY <1>0, <2>1, TypesStay DEF StoreTypeOK
    <2>3. FirstAsked'  BY <1>0, <2>1 DEF FirstAsked, AskedCall, Giving
    <2>4. KeepInv'
      <3>1. \A n \in AllNames : Added(n)' = Added(n)  BY <2>1, TypesStay DEF Added
      <3> QED  BY <1>0, <2>1, <3>1 DEF KeepInv, EntriesKeep, UnreadKeep, GivenPast, FileKeeps
    <2>5. FlushInv'  BY <1>0, <2>1 DEF FlushInv, SameLater
    <2> QED  BY <2>2, <2>3, <2>4, <2>5 DEF StoreInv
  <1> QED  BY <1>1, <1>2, <1>3, <1>4, <1>5, <1>6, <1>7, <1>8 DEF StoreNext

(* Every variable of a store has its type, whatever its constants are: no     *)
(* list of peers has one twice or is too long, and no entry has more leases   *)
(* than may be kept, through merges, the file and restarts.                   *)
THEOREM StoresTyped ==
  ASSUME StoreConstants
  PROVE  StoreSpec => []StoreTypeOK
  <1>1. StoreInit => StoreInv  BY StoreStarts
  <1>2. StoreInv /\ [StoreNext]_storeVars => StoreInv'  BY StoreSteps
  <1>3. StoreInv => StoreTypeOK  BY DEF StoreInv
  <1> QED  BY <1>1, <1>2, <1>3, PTL DEF StoreSpec

(* What a store was given under its names is what it answers, by either name  *)
(* or both, except under names that changed while the file was read: the      *)
(* newest route, token and topic, the peers, leases and references that were  *)
(* not crowded out.  Once no flush is pending and none failed, the file holds *)
(* what the store does.                                                       *)
THEOREM StoresKeepWhatTheyGet ==
  ASSUME StoreConstants
  PROVE  StoreSpec => []StoresKeep
  <1>1. StoreInit => StoreInv  BY StoreStarts
  <1>2. StoreInv /\ [StoreNext]_storeVars => StoreInv'  BY StoreSteps
  <1>3. StoreInv => StoresKeep
    <2> SUFFICES ASSUME StoreInv  PROVE StoresKeep
      OBVIOUS
    <2>1. StoreTypeOK /\ KeepInv /\ FlushInv /\ GivenPast /\ EntriesKeep  BY DEF StoreInv, KeepInv
    <2>2. ASSUME loaded = "yes", NEW names \in SUBSET (AllNames \ overlaid)
          PROVE  NewestRead(names) /\ NothingCrowdedOut(names)
      <3>1. \A n \in names : Keeps(store, entries[n], given[n], now)  BY <2>1, <2>2 DEF EntriesKeep
      <3>2. names \in SUBSET AllNames  OBVIOUS
      <3> QED  BY <2>1, <3>1, <3>2, AnswersRead
    <2>3. StoresDurable  BY <2>1 DEF FlushInv, SameLater, StoresDurable
    <2> QED  BY <2>2, <2>3 DEF StoresKeep, StoresAnswer
  <1> QED  BY <1>1, <1>2, <1>3, PTL DEF StoreSpec
===============================================================================
