-------------------------- MODULE SubsequenceProofs --------------------------
(***************************************************************************)
(* What At returns, and how many of its elements are of a kind.            *)
(***************************************************************************)
EXTENDS Subsequences, FiniteSetTheorems, TLAPS

\* Some places of a list of length n are counted by their ranks.
LEMMA RankFacts ==
    ASSUME NEW n \in Nat, NEW places \in SUBSET (1 .. n)
    PROVE  /\ IsFiniteSet(places) /\ Cardinality(places) \in Nat /\ Cardinality(places) <= n
           /\ \A i \in places : Rank(places, i) \in 1 .. Cardinality(places)
           /\ \A i, j \in places : i < j <=> Rank(places, i) < Rank(places, j)
<1> DEFINE upto(i) == {j \in places : j <= i}
<1>0. \A i \in places : i \in Nat
  OBVIOUS
<1>1. IsFiniteSet(1 .. n) /\ Cardinality(1 .. n) = n
  BY FS_Interval
<1>2. IsFiniteSet(places) /\ Cardinality(places) \in Nat /\ Cardinality(places) <= n
  BY <1>1, FS_Subset, FS_CardinalityType
<1>3. ASSUME NEW i \in places
      PROVE  /\ IsFiniteSet(upto(i)) /\ Cardinality(upto(i)) \in Nat
             /\ Rank(places, i) = Cardinality(upto(i))
             /\ Rank(places, i) \in 1 .. Cardinality(places)
  <2>1. upto(i) \in SUBSET places /\ i \in upto(i)
    OBVIOUS
  <2>2. Rank(places, i) = Cardinality(upto(i))
    BY DEF Rank
  <2> HIDE DEF upto
  <2>3. IsFiniteSet(upto(i)) /\ Cardinality(upto(i)) <= Cardinality(places)
        /\ Cardinality(upto(i)) \in Nat
    BY <1>2, <2>1, FS_Subset, FS_CardinalityType
  <2>4. Cardinality(upto(i)) # 0
    BY <2>1, <2>3, FS_EmptySet
  <2>. QED  BY <1>2, <2>2, <2>3, <2>4
<1>4. ASSUME NEW i \in places, NEW j \in places, i < j
      PROVE  Rank(places, i) < Rank(places, j)
  <2>0. /\ i \in Nat /\ j \in Nat /\ j <= j /\ ~(j <= i)
        /\ \A k \in places : k <= i => k <= j
    BY <1>0, <1>4
  <2>1. upto(i) \in SUBSET upto(j) /\ j \in upto(j) /\ j \notin upto(i)
    BY <2>0
  <2> HIDE DEF upto
  <2>2. Cardinality(upto(i)) <= Cardinality(upto(j)) /\ Cardinality(upto(i)) # Cardinality(upto(j))
    BY <1>3, <2>1, FS_Subset
  <2>. QED  BY <1>3, <2>2
<1>5. ASSUME NEW i \in places, NEW j \in places, Rank(places, i) < Rank(places, j)
      PROVE  i < j
  <2>1. i \in Nat /\ j \in Nat /\ Rank(places, i) \in Nat /\ Rank(places, j) \in Nat
    BY <1>0, <1>3
  <2>2. CASE j < i
    BY <1>4, <1>5, <2>1, <2>2
  <2>3. CASE j = i
    BY <1>5, <2>1, <2>3
  <2>. QED  BY <2>1, <2>2, <2>3
<1>. QED  BY <1>2, <1>3, <1>4, <1>5

\* Every rank belongs to a place, and At goes through the places in order.
LEMMA PlaceFacts ==
    ASSUME NEW n \in Nat, NEW places \in SUBSET (1 .. n)
    PROVE  /\ \A k \in 1 .. Cardinality(places) :
                 Place(places, k) \in places /\ Rank(places, Place(places, k)) = k
           /\ \A i \in places : Place(places, Rank(places, i)) = i
           /\ \A j, k \in 1 .. Cardinality(places) :
                 j < k <=> Place(places, j) < Place(places, k)
<1> DEFINE m == Cardinality(places)
           rank == [i \in places |-> Rank(places, i)]
<1>1. /\ IsFiniteSet(places) /\ m \in Nat
      /\ \A i \in places : Rank(places, i) \in 1 .. m
      /\ \A i, j \in places : i < j <=> Rank(places, i) < Rank(places, j)
      /\ \A i \in places : i \in Nat
  BY RankFacts
<1>2. \A i, j \in places : Rank(places, i) = Rank(places, j) => i = j
  <2> SUFFICES ASSUME NEW i \in places, NEW j \in places, Rank(places, i) = Rank(places, j)
               PROVE  i = j
    OBVIOUS
  <2>1. ~(i < j) /\ ~(j < i)
    BY <1>1
  <2>. QED  BY <1>1, <2>1
<1>3. rank \in Injection(places, 1 .. m)
  BY <1>1, <1>2 DEF Injection, IsInjective
<1>4. IsFiniteSet(1 .. m) /\ Cardinality(1 .. m) = m
  BY <1>1, FS_Interval
<1>5. rank \in Surjection(places, 1 .. m)
  <2> HIDE DEF rank
  <2>. QED  BY <1>3, <1>4, FS_Injection
<1>6. ASSUME NEW k \in 1 .. m
      PROVE  Place(places, k) \in places /\ Rank(places, Place(places, k)) = k
  <2>1. \E i \in places : Rank(places, i) = k
    BY <1>5 DEF Surjection
  <2>. QED  BY <2>1 DEF Place
<1>7. ASSUME NEW i \in places
      PROVE  Place(places, Rank(places, i)) = i
  <2>1. Rank(places, i) \in 1 .. m
    BY <1>1
  <2>. QED  BY <1>2, <1>6, <2>1
<1>8. ASSUME NEW j \in 1 .. m, NEW k \in 1 .. m
      PROVE  j < k <=> Place(places, j) < Place(places, k)
  <2>1. /\ Place(places, j) \in places /\ Rank(places, Place(places, j)) = j
        /\ Place(places, k) \in places /\ Rank(places, Place(places, k)) = k
    BY <1>6
  <2>2. \A a, b \in places : a < b <=> Rank(places, a) < Rank(places, b)
    BY <1>1
  <2>3. Place(places, j) < Place(places, k)
        <=> Rank(places, Place(places, j)) < Rank(places, Place(places, k))
    BY <2>1, <2>2
  <2>. QED  BY <2>1, <2>3
<1>. QED  BY <1>6, <1>7, <1>8

\* Some places have a first one: the step of an induction over a list.
LEMMA FirstPlace ==
    ASSUME NEW n \in Nat, NEW places \in SUBSET (1 .. n), places # {}
    PROVE  \E i \in places : \A j \in places : i <= j
<1>1. /\ IsFiniteSet(places) /\ Cardinality(places) \in Nat
      /\ \A i \in places : Rank(places, i) \in 1 .. Cardinality(places) /\ i \in Nat
      /\ \A i, j \in places : i < j <=> Rank(places, i) < Rank(places, j)
  BY RankFacts
<1>2. Cardinality(places) # 0
  BY <1>1, FS_EmptySet
<1>3. Place(places, 1) \in places /\ Rank(places, Place(places, 1)) = 1
  <2>1. 1 \in 1 .. Cardinality(places)
    BY <1>1, <1>2
  <2>. QED  BY <2>1, PlaceFacts
<1>4. ASSUME NEW j \in places  PROVE Place(places, 1) <= j
  <2> DEFINE first == Place(places, 1)
  <2>1. Rank(places, j) \in 1 .. Cardinality(places) /\ j \in Nat
    BY <1>1
  <2>2. first \in places /\ first \in Nat /\ Rank(places, first) = 1
    BY <1>1, <1>3
  <2>3. j < first <=> Rank(places, j) < Rank(places, first)
    BY <1>1, <2>2
  <2> HIDE DEF first
  <2>4. ~(j < first)
    BY <1>1, <2>1, <2>2, <2>3
  <2>. QED  BY <2>1, <2>2, <2>4 DEF first
<1>. QED  BY <1>3, <1>4

\* At returns the elements at the places, in order, and no others.
LEMMA AtFacts ==
    ASSUME NEW S, NEW s \in Seq(S), NEW places \in SUBSET DOMAIN s
    PROVE  /\ At(s, places) \in Seq(S)
           /\ Len(At(s, places)) = Cardinality(places)
           /\ Cardinality(places) \in Nat /\ Cardinality(places) <= Len(s)
           /\ \A k \in 1 .. Len(At(s, places)) :
                 /\ Place(places, k) \in places
                 /\ At(s, places)[k] = s[Place(places, k)]
           /\ \A j, k \in 1 .. Len(At(s, places)) :
                 j < k <=> Place(places, j) < Place(places, k)
           /\ \A i \in places :
                 /\ Rank(places, i) \in 1 .. Len(At(s, places))
                 /\ At(s, places)[Rank(places, i)] = s[i]
<1> DEFINE m == Cardinality(places)
<1>0. Len(s) \in Nat /\ DOMAIN s = 1 .. Len(s) /\ places \in SUBSET (1 .. Len(s))
  OBVIOUS
<1>1. /\ m \in Nat /\ m <= Len(s)
      /\ \A i \in places : Rank(places, i) \in 1 .. m
  BY <1>0, RankFacts
<1>2. /\ \A k \in 1 .. m : Place(places, k) \in places
      /\ \A i \in places : Place(places, Rank(places, i)) = i
      /\ \A j, k \in 1 .. m : j < k <=> Place(places, j) < Place(places, k)
  BY <1>0, PlaceFacts
<1>3. At(s, places) = [k \in 1 .. m |-> s[Place(places, k)]]
  BY DEF At
<1>4. \A k \in 1 .. m : s[Place(places, k)] \in S
  BY <1>2
<1> HIDE DEF m
<1>5. At(s, places) \in Seq(S) /\ Len(At(s, places)) = m
      /\ \A k \in 1 .. m : At(s, places)[k] = s[Place(places, k)]
  BY <1>1, <1>3, <1>4
<1>6. \A i \in places : At(s, places)[Rank(places, i)] = s[i]
  BY <1>1, <1>2, <1>5
<1>. QED  BY <1>1, <1>2, <1>5, <1>6 DEF m

\* The places from `low` on.
LEMMA AtSuffix ==
    ASSUME NEW S, NEW s \in Seq(S), NEW low \in Nat, low <= Len(s)
    PROVE  /\ Len(At(s, low + 1 .. Len(s))) = Len(s) - low
           /\ \A k \in 1 .. Len(s) - low : At(s, low + 1 .. Len(s))[k] = s[low + k]
<1> DEFINE places == low + 1 .. Len(s)
<1>1. places \in SUBSET DOMAIN s /\ Len(s) \in Nat
  OBVIOUS
<1>2. \A a, b \in Int : a <= b + 1 => Cardinality(a .. b) = b - a + 1
  BY FS_Interval
<1>3. Cardinality(places) = Len(s) - low
  <2>1. Cardinality(low + 1 .. Len(s)) = Len(s) - (low + 1) + 1
    BY <1>1, <1>2
  <2>. QED  BY <1>1, <2>1
<1>4. ASSUME NEW k \in 1 .. Len(s) - low
      PROVE  low + k \in places /\ Rank(places, low + k) = k
  <2> DEFINE upto == {j \in places : j <= low + k}
  <2>1. upto = low + 1 .. low + k
    BY <1>1
  <2>2. Cardinality(low + 1 .. low + k) = (low + k) - (low + 1) + 1
    BY <1>1, <1>2
  <2>3. Rank(places, low + k) = Cardinality(upto)
    BY DEF Rank
  <2> HIDE DEF upto
  <2>4. Rank(places, low + k) = k
    BY <1>1, <2>1, <2>2, <2>3
  <2>. QED  BY <1>1, <2>4
<1> HIDE DEF places
<1>5. Len(At(s, places)) = Cardinality(places)
      /\ \A i \in places : At(s, places)[Rank(places, i)] = s[i]
  BY <1>1, AtFacts
<1>. QED  BY <1>3, <1>4, <1>5 DEF places

\* All places give the whole list.
LEMMA AtAll ==
    ASSUME NEW S, NEW s \in Seq(S)
    PROVE  At(s, DOMAIN s) = s
<1>1. /\ Len(s) \in Nat /\ DOMAIN s = 1 .. Len(s) /\ DOMAIN s = 0 + 1 .. Len(s)
      /\ \A k \in 1 .. Len(s) : 0 + k = k
  OBVIOUS
<1>2. /\ Len(At(s, 0 + 1 .. Len(s))) = Len(s) - 0
      /\ \A k \in 1 .. Len(s) - 0 : At(s, 0 + 1 .. Len(s))[k] = s[0 + k]
  BY <1>1, AtSuffix
<1> DEFINE t == At(s, DOMAIN s)
<1>3. t \in Seq(S)
  BY AtFacts
<1>4. Len(t) = Len(s) /\ \A k \in 1 .. Len(s) : t[k] = s[k]
  BY <1>1, <1>2
<1> HIDE DEF t
<1>5. t = s
  BY <1>3, <1>4
<1>. QED  BY <1>5 DEF t

-----------------------------------------------------------------------------
(* Counting *)

\* How many elements of s are in Q.
Number(s, Q) == Cardinality({i \in DOMAIN s : s[i] \in Q})

LEMMA NumberType ==
    ASSUME NEW S, NEW s \in Seq(S), NEW Q
    PROVE  /\ IsFiniteSet({i \in DOMAIN s : s[i] \in Q})
           /\ Number(s, Q) \in Nat /\ Number(s, Q) <= Len(s)
           /\ (\A i \in DOMAIN s : s[i] \in Q) => Number(s, Q) = Len(s)
<1> DEFINE T == {i \in DOMAIN s : s[i] \in Q}
<1>1. T \in SUBSET (1 .. Len(s)) /\ Len(s) \in Nat
  OBVIOUS
<1>2. IsFiniteSet(1 .. Len(s)) /\ Cardinality(1 .. Len(s)) = Len(s)
  <2> DEFINE n == Len(s)
  <2>1. n \in Nat
    BY <1>1
  <2> HIDE DEF n
  <2>2. IsFiniteSet(1 .. n) /\ Cardinality(1 .. n) = n
    BY <2>1, FS_Interval
  <2>. QED  BY <2>2 DEF n
<1>3. (\A i \in DOMAIN s : s[i] \in Q) => T = 1 .. Len(s)
  OBVIOUS
<1>4. Number(s, Q) = Cardinality(T)
  BY DEF Number
<1> HIDE DEF T
<1>5. IsFiniteSet(T) /\ Cardinality(T) \in Nat /\ Cardinality(T) <= Len(s)
  BY <1>1, <1>2, FS_Subset, FS_CardinalityType
<1>6. (\A i \in DOMAIN s : s[i] \in Q) => Cardinality(T) = Len(s)
  BY <1>2, <1>3
<1>. QED  BY <1>4, <1>5, <1>6 DEF T

\* Fewer kinds, fewer elements.
LEMMA NumberMonotonic ==
    ASSUME NEW S, NEW s \in Seq(S), NEW Q, NEW R,
           \A i \in DOMAIN s : s[i] \in Q => s[i] \in R
    PROVE  Number(s, Q) <= Number(s, R)
<1> DEFINE T == {i \in DOMAIN s : s[i] \in Q}
           U == {i \in DOMAIN s : s[i] \in R}
<1>1. T \in SUBSET U
  OBVIOUS
<1>2. IsFiniteSet(U)
  BY NumberType
<1>3. Number(s, Q) = Cardinality(T) /\ Number(s, R) = Cardinality(U)
  BY DEF Number
<1> HIDE DEF T, U
<1>. QED  BY <1>1, <1>2, <1>3, FS_Subset

\* Two lists whose elements correspond.
LEMMA NumberSame ==
    ASSUME NEW s, NEW t, NEW Q, NEW R, DOMAIN s = DOMAIN t,
           \A i \in DOMAIN s : s[i] \in Q <=> t[i] \in R
    PROVE  Number(s, Q) = Number(t, R)
<1>1. {i \in DOMAIN s : s[i] \in Q} = {i \in DOMAIN t : t[i] \in R}
  OBVIOUS
<1>. QED  BY <1>1 DEF Number

LEMMA NumberAppend ==
    ASSUME NEW S, NEW s \in Seq(S), NEW x \in S, NEW Q
    PROVE  Number(Append(s, x), Q) = Number(s, Q) + (IF x \in Q THEN 1 ELSE 0)
<1> DEFINE T == {i \in DOMAIN s : s[i] \in Q}
           t == Append(s, x)
           U == {i \in DOMAIN t : t[i] \in Q}
<1>0. Len(s) \in Nat /\ DOMAIN s = 1 .. Len(s)
  OBVIOUS
<1>1. /\ t \in Seq(S) /\ Len(t) = Len(s) + 1
      /\ DOMAIN t = 1 .. Len(s) + 1
      /\ \A i \in 1 .. Len(s) : t[i] = s[i]
      /\ t[Len(s) + 1] = x
  OBVIOUS
<1> HIDE DEF t
<1>2. U = IF x \in Q THEN T \cup {Len(s) + 1} ELSE T
  BY <1>0, <1>1
<1>3. IsFiniteSet(T) /\ Number(s, Q) \in Nat
  BY NumberType
<1>4. Number(s, Q) = Cardinality(T) /\ Number(t, Q) = Cardinality(U)
  BY DEF Number
<1>6. Len(s) + 1 \notin T
  BY <1>0
<1> HIDE DEF T, U
<1>5. Cardinality(T \cup {Len(s) + 1}) = Cardinality(T) + 1
  BY <1>3, <1>6, FS_AddElement
<1>. QED  BY <1>2, <1>3, <1>4, <1>5 DEF t

\* Places that have all elements of a kind keep their number.
LEMMA NumberAt ==
    ASSUME NEW S, NEW s \in Seq(S), NEW places \in SUBSET DOMAIN s, NEW Q,
           \A i \in DOMAIN s : s[i] \in Q => i \in places
    PROVE  Number(At(s, places), Q) = Number(s, Q)
<1> DEFINE t == At(s, places)
           T == {i \in DOMAIN s : s[i] \in Q}
           U == {k \in DOMAIN t : t[k] \in Q}
           f == [i \in T |-> Rank(places, i)]
<1>1. /\ t \in Seq(S) /\ DOMAIN t = 1 .. Len(t)
      /\ \A k \in 1 .. Len(t) : Place(places, k) \in places /\ t[k] = s[Place(places, k)]
      /\ \A i \in places : Rank(places, i) \in 1 .. Len(t) /\ t[Rank(places, i)] = s[i]
  BY AtFacts
<1>2. /\ \A i \in places : Place(places, Rank(places, i)) = i
      /\ \A k \in 1 .. Len(t) : Rank(places, Place(places, k)) = k
  <2>1. Len(s) \in Nat /\ places \in SUBSET (1 .. Len(s)) /\ Len(t) = Cardinality(places)
    BY AtFacts
  <2> HIDE DEF t
  <2>. QED  BY <2>1, PlaceFacts
<1> HIDE DEF t
<1>3. f \in [T -> U]
  BY <1>1
<1>4. \A i, j \in T : f[i] = f[j] => i = j
  BY <1>2
<1>5. \A k \in U : \E i \in T : f[i] = k
  <2> TAKE k \in U
  <2>1. Place(places, k) \in T
    BY <1>1
  <2>. QED  BY <1>1, <1>2, <2>1
<1>6. IsFiniteSet(T)
  BY NumberType
<1>7. Number(s, Q) = Cardinality(T) /\ Number(t, Q) = Cardinality(U)
  BY DEF Number
<1> HIDE DEF T, U, f
<1>8. f \in Surjection(T, U) /\ f \in Injection(T, U)
  BY <1>3, <1>4, <1>5 DEF Surjection, Injection, IsInjective
<1>9. Cardinality(T) = Cardinality(U)
  BY <1>6, <1>8, FS_Surjection
<1>. QED  BY <1>7, <1>9 DEF t
=============================================================================
