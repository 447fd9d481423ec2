------------------------- MODULE Subsequences_proofs -------------------------
(* Lemmas about Subsequences, for the proofs about lists without doubles: a   *)
(* subsequence is as long as it has places, in their order, each once         *)
(* (NthFacts), so that Distinct leaves every element once (DistinctFacts).    *)
EXTENDS Subsequences, SequencesExt, FiniteSetTheorems, TLAPS

-----------------------------------------------------------------------------
(* Counting out.                                                              *)

Before(S, R, x) == {y \in S : <<y, x>> \in R}

StrictOrder(S, R) ==
  /\ \A x \in S : <<x, x>> \notin R
  /\ \A x, y, z \in S : <<x, y>> \in R /\ <<y, z>> \in R => <<x, z>> \in R
  /\ \A x, y \in S : x = y \/ <<x, y>> \in R \/ <<y, x>> \in R

Ranked(S, R) ==
  /\ \A x \in S : Cardinality(Before(S, R, x)) \in 0..(Cardinality(S) - 1)
  /\ \A x, y \in S : Cardinality(Before(S, R, x)) = Cardinality(Before(S, R, y)) => x = y
  /\ \A k \in 0..(Cardinality(S) - 1) : \E x \in S : Cardinality(Before(S, R, x)) = k

(* In a finite set with a strict order, every element has another number of   *)
(* elements before it, and these numbers leave no gap.                        *)
LEMMA Ranks ==
  ASSUME NEW S, IsFiniteSet(S), NEW R, StrictOrder(S, R)
  PROVE  Ranked(S, R)
  <1> DEFINE B(x) == Before(S, R, x)
             n == Cardinality(S)
             T == 0..(n - 1)
             rank == [x \in S |-> Cardinality(B(x))]
  <1>1. n \in Nat  BY FS_CardinalityType
  <1>2. ASSUME NEW x \in S  PROVE IsFiniteSet(B(x)) /\ Cardinality(B(x)) \in T
    <2>1. IsFiniteSet(S \ {x}) /\ Cardinality(S \ {x}) = n - 1  BY FS_RemoveElement
    <2>2. B(x) \in SUBSET (S \ {x})  BY DEF Before, StrictOrder
    <2> HIDE DEF B, n
    <2>3. IsFiniteSet(B(x)) /\ Cardinality(B(x)) <= n - 1  BY <2>1, <2>2, FS_Subset
    <2>4. Cardinality(B(x)) \in Nat  BY <2>3, FS_CardinalityType
    <2> QED  BY <1>1, <2>3, <2>4
  <1>3. ASSUME NEW x \in S, NEW y \in S, <<x, y>> \in R  PROVE Cardinality(B(x)) # Cardinality(B(y))
    <2>1. B(x) \in SUBSET B(y) /\ x \in B(y) /\ x \notin B(x)  BY <1>3 DEF Before, StrictOrder
    <2> HIDE DEF B
    <2> QED  BY <1>2, <2>1, FS_Subset
  <1>4. \A x, y \in S : Cardinality(B(x)) = Cardinality(B(y)) => x = y
    <2> HIDE DEF B
    <2> QED  BY <1>3 DEF StrictOrder
  <1>5. IsFiniteSet(T) /\ Cardinality(T) = n
    <2> HIDE DEF n
    <2> QED  BY <1>1, FS_Interval
  <1>6. rank \in Injection(S, T)
    <2> HIDE DEF B, T
    <2> QED  BY <1>2, <1>4 DEF Injection, IsInjective
  <1>7. rank \in Surjection(S, T)
    <2> HIDE DEF rank, T
    <2> QED  BY <1>5, <1>6, FS_Injection
  <1>8. \A k \in T : \E x \in S : Cardinality(B(x)) = k
    <2> HIDE DEF B, T
    <2> QED  BY <1>7 DEF Surjection
  <1> QED  BY <1>2, <1>4, <1>8 DEF Ranked

LEMMA NthFacts ==
  ASSUME NEW I, IsFiniteSet(I), I \subseteq Nat
  PROVE  /\ Cardinality(I) \in Nat
         /\ \A k \in 1..Cardinality(I) : Nth(I, k) \in I /\ Cardinality({j \in I : j <= Nth(I, k)}) = k
         /\ \A i \in I : /\ Cardinality({j \in I : j <= i}) \in 1..Cardinality(I)
                         /\ Nth(I, Cardinality({j \in I : j <= i})) = i
  <1> DEFINE R == {p \in Nat \X Nat : p[1] < p[2]}
             B(i) == Before(I, R, i)
             C(i) == {j \in I : j <= i}
             n == Cardinality(I)
  <1>1. n \in Nat  BY FS_CardinalityType
  <1>2. StrictOrder(I, R)  BY DEF StrictOrder
  <1>3. /\ \A x \in I : Cardinality(B(x)) \in 0..(n - 1)
        /\ \A x, y \in I : Cardinality(B(x)) = Cardinality(B(y)) => x = y
        /\ \A k \in 0..(n - 1) : \E x \in I : Cardinality(B(x)) = k
    <2> HIDE DEF R
    <2>1. Ranked(I, R)  BY <1>2, Ranks
    <2> QED  BY <2>1 DEF Ranked
  <1>4. ASSUME NEW i \in I  PROVE Cardinality(C(i)) = Cardinality(B(i)) + 1
    <2>0. ~(<<i, i>> \in R) /\ \A j \in I : j <= i <=> <<j, i>> \in R \/ j = i  OBVIOUS
    <2> HIDE DEF R
    <2>1. C(i) = B(i) \cup {i} /\ i \notin B(i) /\ B(i) \in SUBSET I  BY <2>0 DEF Before
    <2> HIDE DEF B, C
    <2>2. IsFiniteSet(B(i))  BY <2>1, FS_Subset
    <2> QED  BY <2>1, <2>2, FS_AddElement
  <1> HIDE DEF B, C, R
  <1>5. \A i \in I : Cardinality(C(i)) \in 1..n  BY <1>1, <1>3, <1>4
  <1>6. \A i, j \in I : Cardinality(C(i)) = Cardinality(C(j)) => i = j
    <2> SUFFICES ASSUME NEW i \in I, NEW j \in I, Cardinality(C(i)) = Cardinality(C(j))  PROVE i = j
      OBVIOUS
    <2>1. Cardinality(B(i)) \in Int /\ Cardinality(B(j)) \in Int  BY <1>3
    <2>2. Cardinality(B(i)) = Cardinality(B(j))  BY <1>4, <2>1
    <2> QED  BY <1>3, <2>2
  <1>7. ASSUME NEW k \in 1..n  PROVE \E i \in I : Cardinality(C(i)) = k
    <2>1. k - 1 \in 0..(n - 1)  BY <1>1
    <2>2. PICK i \in I : Cardinality(B(i)) = k - 1  BY <1>3, <2>1
    <2>3. Cardinality(C(i)) = k  BY <1>4, <2>2
    <2> QED  BY <2>3
  <1>8. ASSUME NEW k \in 1..n  PROVE Nth(I, k) \in I /\ Cardinality(C(Nth(I, k))) = k
    <2>1. Nth(I, k) = CHOOSE i \in I : Cardinality(C(i)) = k  BY DEF Nth, C
    <2> QED  BY <1>7, <2>1
  <1>9. \A i \in I : Nth(I, Cardinality(C(i))) = i
    BY <1>5, <1>6, <1>8
  <1> QED  BY <1>1, <1>5, <1>8, <1>9 DEF C

-----------------------------------------------------------------------------
(* Lists without doubles.                                                     *)

LEMMA DistinctFacts ==
  ASSUME NEW S, NEW s \in Seq(S)
  PROVE  /\ Distinct(s) \in Seq(S)
         /\ IsInjective(Distinct(s))
         /\ ToSet(Distinct(s)) = ToSet(s)
  <1> DEFINE I == {i \in DOMAIN s : \A j \in 1..(i - 1) : s[j] # s[i]}
             n == Cardinality(I)
             d == Subsequence(s, I)
  <1>1. Len(s) \in Nat /\ DOMAIN s = 1..Len(s) /\ \A i \in 1..Len(s) : s[i] \in S  OBVIOUS
  <1>2. I \in SUBSET (1..Len(s)) /\ I \subseteq Nat  BY <1>1
  <1>3. IsFiniteSet(I)
    <2>1. IsFiniteSet(1..Len(s))  BY <1>1, FS_Interval
    <2> HIDE DEF I
    <2> QED  BY <1>2, <2>1, FS_Subset
  <1>4. \A i, j \in I : s[i] = s[j] => i = j
    <2> SUFFICES ASSUME NEW i \in I, NEW j \in I, s[i] = s[j], i < j  PROVE FALSE
      BY <1>2
    <2> QED  BY <1>2
  <1>5. \A x \in ToSet(s) : \E i \in I : s[i] = x
    <2> SUFFICES ASSUME NEW x \in ToSet(s)  PROVE \E i \in I : s[i] = x
      OBVIOUS
    <2> DEFINE W == {i \in 1..Len(s) : s[i] = x}
    <2>1. W \subseteq Nat /\ W # {}  BY <1>1 DEF ToSet
    <2>2. PICK i \in W : \A j \in W : i <= j
      <3>1. IsFiniteSet(W)
        <4>1. W \in SUBSET (1..Len(s))  OBVIOUS
        <4>2. IsFiniteSet(1..Len(s))  BY <1>1, FS_Interval
        <4> HIDE DEF W
        <4> QED  BY <4>1, <4>2, FS_Subset
      <3> HIDE DEF W
      <3>2. Cardinality(W) \in Nat \ {0}  BY <2>1, <3>1, FS_CardinalityType, FS_EmptySet
      <3>3. PICK i \in W : Cardinality({j \in W : j <= i}) = 1
        <4>1. 1 \in 1..Cardinality(W)  BY <3>2
        <4> QED  BY <2>1, <3>1, <4>1, NthFacts
      <3>4. ASSUME NEW j \in W, ~(i <= j)  PROVE FALSE
        <4>1. {i, j} \in SUBSET {k \in W : k <= i} /\ i # j  BY <2>1, <3>4
        <4>2. IsFiniteSet({k \in W : k <= i})  BY <3>1, FS_Subset
        <4>3. Cardinality({i, j}) = 2
          <5>1. {i, j} = {i} \cup {j} /\ j \notin {i}  BY <4>1
          <5>2. IsFiniteSet({i}) /\ Cardinality({i}) = 1  BY FS_Singleton
          <5>3. Cardinality({i} \cup {j}) = 1 + 1  BY <5>1, <5>2, FS_AddElement
          <5>4. 1 + 1 = 2  OBVIOUS
          <5> QED  BY <5>1, <5>3, <5>4, Zenon
        <4>4. Cardinality({i, j}) <= Cardinality({k \in W : k <= i})  BY <4>1, <4>2, FS_Subset
        <4> QED  BY <3>3, <4>3, <4>4
      <3> QED  BY <3>4
    <2>3. i \in I
      BY <1>1, <2>2
    <2> QED  BY <2>3
  <1>6. /\ n \in Nat /\ \A k \in 1..n : Nth(I, k) \in I /\ Cardinality({j \in I : j <= Nth(I, k)}) = k
        /\ \A i \in I : Cardinality({j \in I : j <= i}) \in 1..n /\ Nth(I, Cardinality({j \in I : j <= i})) = i
    <2> HIDE DEF I
    <2> QED  BY <1>2, <1>3, NthFacts
  <1> HIDE DEF I
  <1>7. d = [k \in 1..n |-> s[Nth(I, k)]]  BY DEF Subsequence
  <1> HIDE DEF n, d
  <1>8. d \in Seq(S) /\ DOMAIN d = 1..n
    <2>1. \A k \in 1..n : s[Nth(I, k)] \in S  BY <1>1, <1>2, <1>6
    <2>2. d \in [1..n -> S]  BY <1>7, <2>1
    <2> QED  BY <1>6, <2>2
  <1>9. IsInjective(d)
    <2> SUFFICES ASSUME NEW k \in 1..n, NEW l \in 1..n, d[k] = d[l]  PROVE k = l
      BY <1>8 DEF IsInjective
    <2>1. Nth(I, k) = Nth(I, l)  BY <1>4, <1>6, <1>7
    <2> QED  BY <1>6, <2>1
  <1>10. ToSet(d) \subseteq ToSet(s)
    <2> SUFFICES ASSUME NEW k \in 1..n  PROVE d[k] \in ToSet(s)
      BY <1>8 DEF ToSet
    <2> QED  BY <1>1, <1>2, <1>6, <1>7 DEF ToSet
  <1>11. ToSet(s) \subseteq ToSet(d)
    <2> SUFFICES ASSUME NEW x \in ToSet(s)  PROVE x \in ToSet(d)
      OBVIOUS
    <2>1. PICK i \in I : s[i] = x  BY <1>5
    <2>2. PICK k \in 1..n : Nth(I, k) = i  BY <1>6
    <2>3. k \in DOMAIN d /\ d[k] = x  BY <1>7, <1>8, <2>1, <2>2
    <2> QED  BY <2>3 DEF ToSet
  <1>12. Distinct(s) = d  BY DEF Distinct, d, I
  <1> QED  BY <1>8, <1>9, <1>10, <1>11, <1>12

LEMMA Interval ==
  ASSUME NEW n \in Nat
  PROVE  IsFiniteSet(1..n) /\ Cardinality(1..n) = n
  BY FS_Interval

(* What comes first without doubles stays where it is.                        *)
LEMMA DistinctPrefix ==
  ASSUME NEW S, NEW a \in Seq(S), NEW b \in Seq(S), IsInjective(a)
  PROVE  /\ Len(a) <= Len(Distinct(a \o b))
         /\ \A k \in 1..Len(a) : Distinct(a \o b)[k] = a[k]
  <1> DEFINE s == a \o b
             I == {i \in DOMAIN s : \A j \in 1..(i - 1) : s[j] # s[i]}
             n == Cardinality(I)
             m == Len(a)
  <1>1. /\ m \in Nat /\ Len(b) \in Nat /\ DOMAIN a = 1..m /\ s \in Seq(S) /\ DOMAIN s = 1..(m + Len(b))
        /\ \A k \in 1..m : s[k] = a[k]
    OBVIOUS
  <1> HIDE DEF s, m
  <1>2. 1..m \subseteq I
    <2> SUFFICES ASSUME NEW i \in 1..m, NEW j \in 1..(i - 1), s[j] = s[i]  PROVE FALSE
      BY <1>1
    <2>1. j \in 1..m /\ a[j] = a[i]  BY <1>1
    <2>2. j = i  BY <1>1, <2>1 DEF IsInjective
    <2> QED  BY <1>1, <2>2
  <1>3. I \in SUBSET (1..(m + Len(b))) /\ I \subseteq Nat  BY <1>1
  <1>4. IsFiniteSet(I)
    <2>1. IsFiniteSet(1..(m + Len(b)))  BY <1>1, FS_Interval
    <2> HIDE DEF I
    <2> QED  BY <1>3, <2>1, FS_Subset
  <1>5. /\ n \in Nat /\ \A i \in I : Nth(I, Cardinality({j \in I : j <= i})) = i
    <2> HIDE DEF I
    <2> QED  BY <1>3, <1>4, NthFacts
  <1> HIDE DEF I
  <1>6. m <= n
    <2>1. IsFiniteSet(1..m) /\ Cardinality(1..m) = m  BY <1>1, FS_Interval
    <2>2. 1..m \in SUBSET I  BY <1>2
    <2> QED  BY <1>4, <2>1, <2>2, FS_Subset
  <1>7. ASSUME NEW k \in 1..m  PROVE Nth(I, k) = k
    <2>1. {j \in I : j <= k} = 1..k
      <3>1. \A j \in I : j \in 1..(m + Len(b))  BY <1>3
      <3>2. {j \in I : j <= k} \subseteq 1..k  BY <1>1, <3>1
      <3>3. \A j \in 1..k : j \in 1..m /\ j <= k  BY <1>1
      <3>4. 1..k \subseteq {j \in I : j <= k}  BY <1>2, <3>3
      <3> QED  BY <3>2, <3>4
    <2>2. Cardinality(1..k) = k
      <3>1. k \in Nat  BY <1>1
      <3> QED  BY <3>1, Interval
    <2>3. k \in I  BY <1>2
    <2> QED  BY <1>5, <2>1, <2>2, <2>3
  <1>8. Distinct(s) = [k \in 1..n |-> s[Nth(I, k)]]  BY DEF Distinct, Subsequence, I
  <1> HIDE DEF n
  <1>9. Len(Distinct(s)) = n /\ \A k \in 1..n : Distinct(s)[k] = s[Nth(I, k)]  BY <1>5, <1>8
  <1> QED  BY <1>1, <1>5, <1>6, <1>7, <1>9 DEF s, m

(* A sequence without doubles is as long as it has elements.                  *)
LEMMA InjectiveLength ==
  ASSUME NEW S, NEW s \in Seq(S), NEW T, NEW t \in Seq(T), IsInjective(s), ToSet(s) \subseteq ToSet(t)
  PROVE  Len(s) <= Len(t)
  <1>1. Len(s) \in Nat /\ Len(t) \in Nat /\ DOMAIN s = 1..Len(s) /\ DOMAIN t = 1..Len(t)
    OBVIOUS
  <1>2. t \in Surjection(1..Len(t), ToSet(t))
    BY <1>1 DEF Surjection, ToSet
  <1>3. IsFiniteSet(1..Len(t)) /\ Cardinality(1..Len(t)) = Len(t)  BY <1>1, Interval
  <1>4. IsFiniteSet(ToSet(t)) /\ Cardinality(ToSet(t)) <= Len(t)  BY <1>2, <1>3, FS_Surjection
  <1>5. s \in Injection(1..Len(s), ToSet(t))
    BY <1>1 DEF Injection, ToSet
  <1>6. Cardinality(1..Len(s)) <= Cardinality(ToSet(t))  BY <1>4, <1>5, FS_Injection
  <1>7. Cardinality(1..Len(s)) = Len(s)  BY <1>1, Interval
  <1>8. Cardinality(ToSet(t)) \in Nat  BY <1>4, FS_CardinalityType
  <1> QED  BY <1>1, <1>4, <1>6, <1>7, <1>8

LEMMA ConcatElements ==
  ASSUME NEW S, NEW a \in Seq(S), NEW b \in Seq(S)
  PROVE  a \o b \in Seq(S) /\ ToSet(a \o b) = ToSet(a) \cup ToSet(b)
  <1> DEFINE s == a \o b
  <1>1. /\ s \in Seq(S) /\ Len(a) \in Nat /\ Len(b) \in Nat
        /\ DOMAIN a = 1..Len(a) /\ DOMAIN b = 1..Len(b) /\ DOMAIN s = 1..(Len(a) + Len(b))
        /\ \A k \in 1..Len(a) : s[k] = a[k]
        /\ \A k \in 1..Len(b) : s[Len(a) + k] = b[k]
    OBVIOUS
  <1> HIDE DEF s
  <1>2. ToSet(a) \subseteq ToSet(s)
    <2> SUFFICES ASSUME NEW k \in 1..Len(a)  PROVE a[k] \in ToSet(s)
      BY <1>1 DEF ToSet
    <2>1. k \in DOMAIN s /\ s[k] = a[k]  BY <1>1
    <2> QED  BY <2>1 DEF ToSet
  <1>3. ToSet(b) \subseteq ToSet(s)
    <2> SUFFICES ASSUME NEW k \in 1..Len(b)  PROVE b[k] \in ToSet(s)
      BY <1>1 DEF ToSet
    <2>1. Len(a) + k \in DOMAIN s /\ s[Len(a) + k] = b[k]  BY <1>1
    <2> QED  BY <2>1 DEF ToSet
  <1>4. ToSet(s) \subseteq ToSet(a) \cup ToSet(b)
    <2> SUFFICES ASSUME NEW k \in 1..(Len(a) + Len(b))  PROVE s[k] \in ToSet(a) \cup ToSet(b)
      BY <1>1 DEF ToSet
    <2>1. CASE k \in 1..Len(a)  BY <1>1, <2>1 DEF ToSet
    <2>2. CASE k \notin 1..Len(a)
      <3>1. k - Len(a) \in 1..Len(b) /\ Len(a) + (k - Len(a)) = k  BY <1>1, <2>2
      <3>2. s[k] = b[k - Len(a)]  BY <1>1, <3>1
      <3> QED  BY <1>1, <3>1, <3>2 DEF ToSet
    <2> QED  BY <2>1, <2>2
  <1> QED  BY <1>1, <1>2, <1>3, <1>4 DEF s

LEMMA AppendElements ==
  ASSUME NEW S, NEW a \in Seq(S), NEW x \in S
  PROVE  Append(a, x) = a \o <<x>> /\ Append(a, x) \in Seq(S) /\ ToSet(Append(a, x)) = ToSet(a) \cup {x}
  <1>1. <<x>> \in Seq(S) /\ ToSet(<<x>>) = {x}  BY DEF ToSet
  <1>2. Append(a, x) = a \o <<x>>  OBVIOUS
  <1>3. a \o <<x>> \in Seq(S) /\ ToSet(a \o <<x>>) = ToSet(a) \cup ToSet(<<x>>)  BY <1>1, ConcatElements
  <1> QED  BY <1>1, <1>2, <1>3
=============================================================================
