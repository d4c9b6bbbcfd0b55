------------------------- MODULE SequenceFilterFacts --------------------------
(***************************************************************************)
(* Induction over the natural numbers, stated of sets so that it can be    *)
(* instantiated, and by it what SequenceFilter and the minimum of a set    *)
(* yield for every argument.                                               *)
(***************************************************************************)
EXTENDS SequenceFilter, SequencesExt, FiniteSetTheorems, TLAPS

(***************************************************************************)
(* Least elements.  The sets 0..x, ordered by inclusion, are finite, and   *)
(* finite sets are well-founded.                                           *)
(***************************************************************************)
LEMMA HasLeast ==
  ASSUME NEW S \in SUBSET Nat, S # {}
  PROVE  \E x \in S : \A y \in S : x <= y
<1> DEFINE T == {0..x : x \in S}
<1>1. IsWellFoundedOn(StrictSubsetOrdering(Nat), FiniteSubsetsOf(Nat))
  BY FS_StrictSubsetOrderingWellFounded
<1>2. T \subseteq FiniteSubsetsOf(Nat)
  <2>1. ASSUME NEW x \in S PROVE 0..x \in FiniteSubsetsOf(Nat)
    BY FS_Interval DEF FiniteSubsetsOf
  <2> QED BY <2>1
<1>3. T # {}
  OBVIOUS
<1> HIDE DEF T
<1>4. \E a \in T : \A b \in T : ~(<<b, a>> \in StrictSubsetOrdering(Nat))
  BY <1>1, <1>2, <1>3, WFMin
<1> USE DEF T
<1>5. PICK x \in S : \A y \in S : ~(<<0..y, 0..x>> \in StrictSubsetOrdering(Nat))
  BY <1>4
<1>6. ASSUME NEW y \in S, y < x PROVE FALSE
  <2>1. 0..y \subseteq 0..x /\ x \in 0..x /\ x \notin 0..y /\ 0..x \subseteq Nat
    BY <1>6
  <2>2. <<0..y, 0..x>> \in StrictSubsetOrdering(Nat)
    BY <2>1 DEF StrictSubsetOrdering
  <2> QED BY <2>2, <1>5
<1>7. \A y \in S : x <= y
  BY <1>6
<1> QED BY <1>7

LEMMA MinIs ==
  ASSUME NEW S \in SUBSET Nat, S # {}
  PROVE  Min(S) \in S /\ \A y \in S : Min(S) <= y
BY HasLeast DEF Min

\* Induction: a set that has 0 and the successors of its members has all numbers.
LEMMA InductiveSet ==
  ASSUME NEW S \in SUBSET Nat, 0 \in S, \A n \in S : n + 1 \in S
  PROVE  S = Nat
<1> SUFFICES ASSUME Nat \ S # {} PROVE FALSE
  OBVIOUS
<1>1. PICK x \in Nat \ S : \A y \in Nat \ S : x <= y
  BY HasLeast
<1>2. x # 0 /\ x - 1 \in Nat
  BY <1>1
<1>3. x - 1 \in S
  BY <1>1, <1>2
<1>4. (x - 1) + 1 = x
  BY <1>1
<1> QED BY <1>1, <1>3, <1>4

LEMMA MinPair ==
  ASSUME NEW a \in Int, NEW b \in Int
  PROVE  Min({a, b}) = IF a <= b THEN a ELSE b
<1>1. \E x \in {a, b} : \A y \in {a, b} : x <= y
  OBVIOUS
<1>2. Min({a, b}) \in {a, b} /\ \A y \in {a, b} : Min({a, b}) <= y
  BY <1>1 DEF Min
<1> QED BY <1>2

LEMMA MaxPair ==
  ASSUME NEW a \in Int, NEW b \in Int
  PROVE  Max({a, b}) = IF a >= b THEN a ELSE b
<1>1. \E x \in {a, b} : \A y \in {a, b} : x >= y
  OBVIOUS
<1>2. Max({a, b}) \in {a, b} /\ \A y \in {a, b} : Max({a, b}) >= y
  BY <1>1 DEF Max
<1> QED BY <1>2

\* A power of two is the number of subsets of a set.
LEMMA PowerOfTwo ==
  ASSUME NEW n \in Nat
  PROVE  2^n \in Nat /\ 2^n >= 1
<1>1. IsFiniteSet(1..n) /\ Cardinality(1..n) = n
  BY FS_Interval
<1>2. IsFiniteSet(SUBSET (1..n)) /\ Cardinality(SUBSET (1..n)) = 2^n
  BY <1>1, FS_SUBSET
<1>3. Cardinality(SUBSET (1..n)) \in Nat /\ Cardinality(SUBSET (1..n)) # 0
  BY <1>2, FS_CardinalityType, FS_EmptySet
<1> QED BY <1>2, <1>3

(***************************************************************************)
(* Kept exists.                                                            *)
(***************************************************************************)
\* What the recursion says of a function, at one of its arguments.
KeptBody(f, s, S, i) ==
  IF i = 0 THEN <<>> ELSE IF s[i] \in S THEN f[i - 1] ELSE Append(f[i - 1], s[i])

LEMMA KeptUpTo ==
  ASSUME NEW s, NEW S, NEW n \in Nat
  PROVE  \E f : f = [i \in 0..n |-> KeptBody(f, s, S, i)]
<1> DEFINE P == {m \in Nat : \E f : f = [i \in 0..m |-> KeptBody(f, s, S, i)]}
<1>1. 0 \in P
  <2> DEFINE f == [i \in 0..0 |-> <<>>]
  <2>1. f = [i \in 0..0 |-> KeptBody(f, s, S, i)]
    BY DEF KeptBody
  <2> QED BY <2>1
<1>2. ASSUME NEW m \in P PROVE m + 1 \in P
  <2>1. PICK f : f = [i \in 0..m |-> KeptBody(f, s, S, i)]
    OBVIOUS
  <2> DEFINE g == [i \in 0..(m + 1) |-> IF i = m + 1 THEN KeptBody(f, s, S, i) ELSE f[i]]
  <2>2. \A i \in 0..m : g[i] = f[i]
    OBVIOUS
  <2>3. ASSUME NEW i \in 0..(m + 1) PROVE g[i] = KeptBody(g, s, S, i)
    <3>1. i # 0 => i - 1 \in 0..m
      OBVIOUS
    <3>2. KeptBody(g, s, S, i) = KeptBody(f, s, S, i)
      BY <3>1, <2>2 DEF KeptBody
    <3>3. i # m + 1 => i \in 0..m
      OBVIOUS
    <3>4. i # m + 1 => f[i] = KeptBody(f, s, S, i)
      BY <3>3, <2>1
    <3>5. g[i] = IF i = m + 1 THEN KeptBody(f, s, S, i) ELSE f[i]
      OBVIOUS
    <3> QED BY <3>2, <3>4, <3>5
  <2>4. g = [i \in 0..(m + 1) |-> g[i]]
    OBVIOUS
  <2> HIDE DEF g
  <2>5. g = [i \in 0..(m + 1) |-> KeptBody(g, s, S, i)]
    BY <2>3, <2>4
  <2> QED BY <2>5
<1> HIDE DEF P
<1>3. P = Nat
  BY <1>1, <1>2, InductiveSet DEF P
<1> QED BY <1>3 DEF P

LEMMA KeptIs ==
  ASSUME NEW T, NEW s \in Seq(T), NEW S
  PROVE  Kept(s, S) = [i \in 0..Len(s) |-> KeptBody(Kept(s, S), s, S, i)]
<1>1. ASSUME NEW n \in Nat, n = Len(s)
      PROVE  \E f : f = [i \in 0..Len(s) |-> KeptBody(f, s, S, i)]
  BY <1>1, KeptUpTo
<1>2. \E f : f = [i \in 0..Len(s) |-> KeptBody(f, s, S, i)]
  BY <1>1
<1> QED BY <1>2 DEF Kept, KeptBody

\* An induction over the prefixes of a list.
LEMMA PrefixInduction ==
  ASSUME NEW n \in Nat, NEW S \in SUBSET (0..n), 0 \in S,
         \A i \in 0..(n - 1) : i \in S => i + 1 \in S
  PROVE  S = 0..n
<1> DEFINE Q == {i \in Nat : i <= n => i \in S}
<1>1. 0 \in Q
  OBVIOUS
<1>2. ASSUME NEW i \in Q PROVE i + 1 \in Q
  OBVIOUS
<1>3. Q = Nat
  <2> HIDE DEF Q
  <2>1. Q \in SUBSET Nat
    BY DEF Q
  <2> QED BY <1>1, <1>2, <2>1, InductiveSet
<1>4. ASSUME NEW i \in 0..n PROVE i \in S
  <2>1. i \in Q
    BY <1>3
  <2> QED BY <2>1
<1> QED BY <1>4

LEMMA KeptFirst ==
  ASSUME NEW T, NEW s \in Seq(T), NEW S
  PROVE  Kept(s, S)[0] = <<>>
<1>1. 0 \in 0..Len(s)
  OBVIOUS
<1> HIDE DEF Kept
<1> QED BY <1>1, KeptIs DEF KeptBody

LEMMA KeptNext ==
  ASSUME NEW T, NEW s \in Seq(T), NEW S, NEW i \in 0..(Len(s) - 1)
  PROVE  Kept(s, S)[i + 1] = IF s[i + 1] \in S THEN Kept(s, S)[i]
                                              ELSE Append(Kept(s, S)[i], s[i + 1])
<1>1. i + 1 \in 0..Len(s) /\ i + 1 # 0 /\ (i + 1) - 1 = i
  OBVIOUS
<1>2. Kept(s, S)[i + 1] = KeptBody(Kept(s, S), s, S, i + 1)
  BY <1>1, KeptIs
<1> QED BY <1>1, <1>2 DEF KeptBody

(***************************************************************************)
(* What Without yields.                                                    *)
(***************************************************************************)
LEMMA ToSetAppend ==
  ASSUME NEW T, NEW s \in Seq(T), NEW e \in T
  PROVE  ToSet(Append(s, e)) = ToSet(s) \cup {e}
<1>1. DOMAIN Append(s, e) = 1..(Len(s) + 1) /\ DOMAIN s = 1..Len(s)
  OBVIOUS
<1>2. \A m \in 1..Len(s) : Append(s, e)[m] = s[m]
  OBVIOUS
<1>3. Append(s, e)[Len(s) + 1] = e
  OBVIOUS
<1> QED BY <1>1, <1>2, <1>3 DEF ToSet

LEMMA ToSetConcat ==
  ASSUME NEW T, NEW s \in Seq(T), NEW t \in Seq(T)
  PROVE  ToSet(s \o t) = ToSet(s) \cup ToSet(t)
<1> DEFINE u == s \o t
<1>1. DOMAIN u = 1..(Len(s) + Len(t)) /\ DOMAIN s = 1..Len(s) /\ DOMAIN t = 1..Len(t)
  OBVIOUS
<1>2. /\ \A m \in 1..Len(s) : u[m] = s[m]
      /\ \A m \in 1..Len(t) : u[Len(s) + m] = t[m]
  OBVIOUS
<1>n. Len(s) \in Nat /\ Len(t) \in Nat
  OBVIOUS
<1> HIDE DEF u
<1>3. ASSUME NEW m \in DOMAIN u PROVE u[m] \in ToSet(s) \cup ToSet(t)
  <2>1. CASE m \in 1..Len(s)
    BY <1>1, <1>2, <2>1 DEF ToSet
  <2>2. CASE m \notin 1..Len(s)
    <3>1. m - Len(s) \in 1..Len(t) /\ Len(s) + (m - Len(s)) = m
      BY <1>1, <1>n, <2>2
    <3>2. u[m] = t[m - Len(s)]
      BY <1>2, <3>1
    <3> QED BY <1>1, <3>1, <3>2 DEF ToSet
  <2> QED BY <2>1, <2>2
<1>4. ASSUME NEW m \in 1..Len(s) PROVE s[m] \in ToSet(u)
  BY <1>1, <1>2, <1>n DEF ToSet
<1>5. ASSUME NEW m \in 1..Len(t) PROVE t[m] \in ToSet(u)
  <2>1. Len(s) + m \in DOMAIN u
    BY <1>1, <1>n
  <2> QED BY <1>2, <2>1 DEF ToSet
<1>6. ToSet(u) = ToSet(s) \cup ToSet(t)
  BY <1>1, <1>3, <1>4, <1>5 DEF ToSet
<1> QED BY <1>6 DEF u

\* Removing one element.
LEMMA RemoveAtType ==
  ASSUME NEW T, NEW s \in Seq(T), NEW i \in 1..Len(s)
  PROVE  /\ RemoveAt(s, i) \in Seq(T)
         /\ Len(RemoveAt(s, i)) = Len(s) - 1
         /\ ToSet(RemoveAt(s, i)) \subseteq ToSet(s)
<1> DEFINE a == SubSeq(s, 1, i - 1)
           b == SubSeq(s, i + 1, Len(s))
<1>1. a \in Seq(T) /\ Len(a) = i - 1 /\ \A k \in 1..(i - 1) : a[k] = s[k]
  OBVIOUS
<1>2. b \in Seq(T) /\ Len(b) = Len(s) - i /\ \A k \in 1..(Len(s) - i) : b[k] = s[i + k]
  OBVIOUS
<1>3. RemoveAt(s, i) = a \o b
  BY DEF RemoveAt
<1> HIDE DEF a, b
<1>4. ToSet(a) \subseteq ToSet(s) /\ ToSet(b) \subseteq ToSet(s)
  <2>1. ASSUME NEW k \in 1..(i - 1) PROVE a[k] \in ToSet(s)
    BY <1>1 DEF ToSet
  <2>2. ASSUME NEW k \in 1..(Len(s) - i) PROVE b[k] \in ToSet(s)
    <3>1. i + k \in DOMAIN s /\ b[k] = s[i + k]
      BY <1>2
    <3> QED BY <3>1 DEF ToSet
  <2>3. DOMAIN a = 1..(i - 1) /\ DOMAIN b = 1..(Len(s) - i)
    BY <1>1, <1>2
  <2> QED BY <2>1, <2>2, <2>3 DEF ToSet
<1>5. ASSUME NEW x \in Seq(T), NEW y \in Seq(T)
      PROVE  /\ x \o y \in Seq(T) /\ Len(x \o y) = Len(x) + Len(y)
             /\ ToSet(x \o y) = ToSet(x) \cup ToSet(y)
  BY ToSetConcat
<1>6. /\ a \o b \in Seq(T) /\ Len(a \o b) = Len(a) + Len(b)
      /\ ToSet(a \o b) = ToSet(a) \cup ToSet(b)
  BY <1>1, <1>2, <1>5
<1>7. Len(a \o b) = Len(s) - 1
  BY <1>1, <1>2, <1>6
<1> QED BY <1>3, <1>4, <1>6, <1>7

Before(s, i) == {s[k] : k \in 1..i}

LEMMA KeptType ==
  ASSUME NEW T, NEW s \in Seq(T), NEW S, NEW i \in 0..Len(s)
  PROVE  /\ Kept(s, S)[i] \in Seq(T)
         /\ Len(Kept(s, S)[i]) <= i
         /\ ToSet(Kept(s, S)[i]) = Before(s, i) \ S
<1> DEFINE k == Kept(s, S)
           P == {j \in 0..Len(s) : /\ k[j] \in Seq(T)
                                   /\ Len(k[j]) <= j
                                   /\ ToSet(k[j]) = Before(s, j) \ S}
<1>1. 0 \in P
  <2>1. k[0] = <<>>
    BY KeptFirst
  <2> HIDE DEF k
  <2>2. ToSet(<<>>) = {} /\ Before(s, 0) = {}
    BY DEF ToSet, Before
  <2>3. <<>> \in Seq(T) /\ Len(<<>>) = 0 /\ 0 \in 0..Len(s)
    OBVIOUS
  <2>4. k[0] \in Seq(T) /\ Len(k[0]) <= 0
    BY <2>1, <2>3
  <2>5. ToSet(k[0]) = Before(s, 0) \ S
    BY <2>1, <2>2
  <2> QED BY <2>3, <2>4, <2>5
<1>2. ASSUME NEW j \in 0..(Len(s) - 1), j \in P PROVE j + 1 \in P
  <2>1. k[j + 1] = IF s[j + 1] \in S THEN k[j] ELSE Append(k[j], s[j + 1])
    BY KeptNext
  <2>2. /\ k[j] \in Seq(T) /\ Len(k[j]) <= j
        /\ ToSet(k[j]) = Before(s, j) \ S
    BY <1>2
  <2> HIDE DEF k
  <2>3. s[j + 1] \in T /\ j + 1 \in 0..Len(s)
    OBVIOUS
  <2>4. Before(s, j + 1) = Before(s, j) \cup {s[j + 1]}
    BY DEF Before
  <2>5. CASE s[j + 1] \in S
    <3>1. k[j + 1] = k[j]
      BY <2>1, <2>5
    <3>2. Before(s, j + 1) \ S = Before(s, j) \ S
      BY <2>4, <2>5
    <3> QED BY <3>1, <3>2, <2>2, <2>3
  <2>6. CASE s[j + 1] \notin S
    <3>1. k[j + 1] = Append(k[j], s[j + 1])
      BY <2>1, <2>6
    <3>2. Before(s, j + 1) \ S = (Before(s, j) \ S) \cup {s[j + 1]}
      BY <2>4, <2>6
    <3>3. ToSet(k[j + 1]) = ToSet(k[j]) \cup {s[j + 1]}
      BY <3>1, <2>2, <2>3, ToSetAppend
    <3>4. k[j + 1] \in Seq(T) /\ Len(k[j + 1]) <= j + 1
      BY <3>1, <2>2, <2>3
    <3> QED BY <3>2, <3>3, <3>4, <2>2, <2>3
  <2> QED BY <2>5, <2>6
<1>3. P = 0..Len(s)
  <2>1. Len(s) \in Nat
    OBVIOUS
  <2> HIDE DEF P
  <2>2. P \in SUBSET (0..Len(s))
    BY DEF P
  <2> QED BY <1>1, <1>2, <2>1, <2>2, PrefixInduction
<1> HIDE DEF k
<1>4. i \in P
  BY <1>3
<1> QED BY <1>4 DEF k

LEMMA WithoutType ==
  ASSUME NEW T, NEW s \in Seq(T), NEW S
  PROVE  /\ Without(s, S) \in Seq(T)
         /\ Len(Without(s, S)) <= Len(s)
         /\ ToSet(Without(s, S)) = ToSet(s) \ S
<1>1. ASSUME NEW n \in 0..Len(s), n = Len(s)
      PROVE  /\ Kept(s, S)[n] \in Seq(T) /\ Len(Kept(s, S)[n]) <= n
             /\ ToSet(Kept(s, S)[n]) = ToSet(s) \ S
  <2>1. Before(s, n) = ToSet(s)
    BY <1>1 DEF ToSet, Before
  <2>2. /\ Kept(s, S)[n] \in Seq(T) /\ Len(Kept(s, S)[n]) <= n
        /\ ToSet(Kept(s, S)[n]) = Before(s, n) \ S
    BY KeptType
  <2> QED BY <2>1, <2>2
<1>2. Len(s) \in 0..Len(s)
  OBVIOUS
<1> HIDE DEF Kept
<1>3. /\ Kept(s, S)[Len(s)] \in Seq(T) /\ Len(Kept(s, S)[Len(s)]) <= Len(s)
      /\ ToSet(Kept(s, S)[Len(s)]) = ToSet(s) \ S
  BY <1>1, <1>2
<1> QED BY <1>3 DEF Without

\* Nothing to remove.
LEMMA WithoutNone ==
  ASSUME NEW T, NEW s \in Seq(T), NEW S, ToSet(s) \cap S = {}
  PROVE  Without(s, S) = s
<1> DEFINE k == Kept(s, S)
           P == {j \in 0..Len(s) : k[j] = SubSeq(s, 1, j)}
<1>1. 0 \in P
  <2>1. k[0] = <<>>
    BY KeptFirst
  <2> HIDE DEF k
  <2>2. SubSeq(s, 1, 0) = <<>> /\ 0 \in 0..Len(s)
    OBVIOUS
  <2> QED BY <2>1, <2>2
<1>2. ASSUME NEW j \in 0..(Len(s) - 1), j \in P PROVE j + 1 \in P
  <2>1. k[j + 1] = IF s[j + 1] \in S THEN k[j] ELSE Append(k[j], s[j + 1])
    BY KeptNext
  <2>2. s[j + 1] \notin S
    BY DEF ToSet
  <2> HIDE DEF k
  <2>3. k[j] = SubSeq(s, 1, j)
    BY <1>2
  <2>4. Append(SubSeq(s, 1, j), s[j + 1]) = SubSeq(s, 1, j + 1) /\ j + 1 \in 0..Len(s)
    OBVIOUS
  <2>5. k[j + 1] = SubSeq(s, 1, j + 1)
    BY <2>1, <2>2, <2>3, <2>4
  <2> QED BY <2>4, <2>5
<1>3. P = 0..Len(s)
  <2>1. Len(s) \in Nat
    OBVIOUS
  <2> HIDE DEF P
  <2>2. P \in SUBSET (0..Len(s))
    BY DEF P
  <2> QED BY <1>1, <1>2, <2>1, <2>2, PrefixInduction
<1> HIDE DEF k
<1>4. k[Len(s)] = SubSeq(s, 1, Len(s))
  BY <1>3
<1>5. SubSeq(s, 1, Len(s)) = s
  OBVIOUS
<1> QED BY <1>4, <1>5 DEF Without, k

\* Two lists, one after the other.
LEMMA WithoutConcat ==
  ASSUME NEW T, NEW s \in Seq(T), NEW t \in Seq(T), NEW S
  PROVE  Without(s \o t, S) = Without(s, S) \o Without(t, S)
<1> DEFINE u == s \o t
           k == Kept(u, S)
           a == Kept(s, S)
           b == Kept(t, S)
           P == {j \in 0..Len(s) : k[j] = a[j]}
           Q == {j \in 0..Len(t) : k[Len(s) + j] = a[Len(s)] \o b[j]}
<1>v. u \in Seq(T)
  OBVIOUS
<1>u. /\ Len(u) = Len(s) + Len(t)
      /\ \A j \in 1..Len(s) : u[j] = s[j]
      /\ \A j \in 1..Len(t) : u[Len(s) + j] = t[j]
  OBVIOUS
<1>n. Len(s) \in Nat /\ Len(t) \in Nat
  OBVIOUS
<1> HIDE DEF u
<1>1. 0 \in P
  <2>1. k[0] = <<>> /\ a[0] = <<>>
    BY <1>v, KeptFirst
  <2> HIDE DEF k, a
  <2> QED BY <2>1, <1>n
<1>2. ASSUME NEW j \in 0..(Len(s) - 1), j \in P PROVE j + 1 \in P
  <2>1. a[j + 1] = IF s[j + 1] \in S THEN a[j] ELSE Append(a[j], s[j + 1])
    BY KeptNext
  <2>2. j \in 0..(Len(u) - 1)
    BY <1>u, <1>n
  <2>3. k[j + 1] = IF u[j + 1] \in S THEN k[j] ELSE Append(k[j], u[j + 1])
    BY <1>v, <2>2, KeptNext
  <2> HIDE DEF k, a
  <2>4. k[j] = a[j] /\ u[j + 1] = s[j + 1] /\ j + 1 \in 0..Len(s)
    BY <1>2, <1>u, <1>n
  <2> QED BY <2>1, <2>3, <2>4
<1>3. P = 0..Len(s)
  <2> HIDE DEF P
  <2>1. P \in SUBSET (0..Len(s))
    BY DEF P
  <2> QED BY <1>n, <1>1, <1>2, <2>1, PrefixInduction
<1>a. a[Len(s)] \in Seq(T) /\ k[Len(s)] = a[Len(s)]
  <2>1. Len(s) \in 0..Len(s)
    BY <1>n
  <2>2. a[Len(s)] \in Seq(T)
    BY <2>1, KeptType
  <2> HIDE DEF a, k
  <2> QED BY <2>1, <2>2, <1>3
<1>4. 0 \in Q
  <2>1. b[0] = <<>>
    BY KeptFirst
  <2> HIDE DEF k, a, b
  <2>2. a[Len(s)] \o <<>> = a[Len(s)] /\ Len(s) + 0 = Len(s) /\ 0 \in 0..Len(t)
    BY <1>a, <1>n
  <2> QED BY <2>1, <2>2, <1>a
<1>5. ASSUME NEW j \in 0..(Len(t) - 1), j \in Q PROVE j + 1 \in Q
  <2>1. b[j + 1] = IF t[j + 1] \in S THEN b[j] ELSE Append(b[j], t[j + 1])
    BY KeptNext
  <2>2. b[j] \in Seq(T)
    BY <1>n, KeptType
  <2>3. Len(s) + j \in 0..(Len(u) - 1)
    BY <1>u, <1>n
  <2>4. k[(Len(s) + j) + 1] = IF u[(Len(s) + j) + 1] \in S THEN k[Len(s) + j]
                              ELSE Append(k[Len(s) + j], u[(Len(s) + j) + 1])
    BY <1>v, <2>3, KeptNext
  <2> HIDE DEF k, a, b
  <2>5. (Len(s) + j) + 1 = Len(s) + (j + 1) /\ j + 1 \in 1..Len(t)
    BY <1>n
  <2>6. u[Len(s) + (j + 1)] = t[j + 1] /\ t[j + 1] \in T
    BY <1>u, <2>5
  <2>7. k[Len(s) + j] = a[Len(s)] \o b[j]
    BY <1>5
  <2>8. Append(a[Len(s)] \o b[j], t[j + 1]) = a[Len(s)] \o Append(b[j], t[j + 1])
    <3>1. ASSUME NEW p \in Seq(T), NEW q \in Seq(T), NEW e \in T
          PROVE  Append(p \o q, e) = p \o Append(q, e)
      <4> DEFINE l == Append(p \o q, e)
                 r == p \o Append(q, e)
      <4>1. /\ l \in Seq(T) /\ Len(l) = Len(p) + Len(q) + 1
            /\ r \in Seq(T) /\ Len(r) = Len(p) + Len(q) + 1
        OBVIOUS
      <4>2. \A i \in 1..(Len(p) + Len(q) + 1) : l[i] = r[i]
        OBVIOUS
      <4> HIDE DEF l, r
      <4>3. l = r
        BY <4>1, <4>2
      <4> QED BY <4>3 DEF l, r
    <3>2. a[Len(s)] \in Seq(T) /\ b[j] \in Seq(T) /\ t[j + 1] \in T
      BY <1>a, <2>2, <2>6
    <3> QED BY <3>1, <3>2
  <2>9. k[Len(s) + (j + 1)] = IF t[j + 1] \in S THEN a[Len(s)] \o b[j]
                              ELSE Append(a[Len(s)] \o b[j], t[j + 1])
    BY <2>4, <2>5, <2>6, <2>7
  <2>10. k[Len(s) + (j + 1)] = a[Len(s)] \o b[j + 1]
    BY <2>1, <2>8, <2>9
  <2>11. j + 1 \in 0..Len(t)
    BY <2>5, <1>n
  <2> QED BY <2>10, <2>11
<1>6. Q = 0..Len(t)
  <2> HIDE DEF Q
  <2>1. Q \in SUBSET (0..Len(t))
    BY DEF Q
  <2> QED BY <1>n, <1>4, <1>5, <2>1, PrefixInduction
<1> HIDE DEF k, a, b
<1>7. k[Len(s) + Len(t)] = a[Len(s)] \o b[Len(t)]
  <2>1. Len(t) \in 0..Len(t)
    BY <1>n
  <2>2. Len(t) \in Q
    <3> HIDE DEF Q
    <3> QED BY <1>6, <2>1
  <2> QED BY <2>2
<1> QED BY <1>7, <1>u DEF Without, k, a, b, u

\* What occurs once still does.
LEMMA WithoutInjective ==
  ASSUME NEW T, NEW s \in Seq(T), NEW S,
         \A i, j \in DOMAIN s : s[i] = s[j] => i = j
  PROVE  \A i, j \in DOMAIN Without(s, S) : Without(s, S)[i] = Without(s, S)[j] => i = j
<1> DEFINE k == Kept(s, S)
           Once(q) == \A i, j \in DOMAIN q : q[i] = q[j] => i = j
           P == {j \in 0..Len(s) : Once(k[j])}
<1>1. 0 \in P
  <2>1. k[0] = <<>>
    BY KeptFirst
  <2> HIDE DEF k
  <2> QED BY <2>1
<1>2. ASSUME NEW j \in 0..(Len(s) - 1), j \in P PROVE j + 1 \in P
  <2>1. k[j + 1] = IF s[j + 1] \in S THEN k[j] ELSE Append(k[j], s[j + 1])
    BY KeptNext
  <2>2. k[j] \in Seq(T) /\ ToSet(k[j]) = Before(s, j) \ S
    <3>1. j \in 0..Len(s)
      OBVIOUS
    <3> QED BY <3>1, KeptType
  <2> HIDE DEF k
  <2>3. j + 1 \in DOMAIN s /\ j + 1 \in 0..Len(s) /\ s[j + 1] \in T
    OBVIOUS
  <2>4. s[j + 1] \notin ToSet(k[j])
    BY <2>2, <2>3 DEF Before
  <2>5. Once(k[j])
    BY <1>2
  <2>6. ASSUME NEW q \in Seq(T), NEW e \in T, Once(q), e \notin ToSet(q)
        PROVE  Once(Append(q, e))
    <3>1. DOMAIN Append(q, e) = 1..(Len(q) + 1) /\ DOMAIN q = 1..Len(q)
      OBVIOUS
    <3>2. \A m \in 1..Len(q) : Append(q, e)[m] = q[m] /\ q[m] # e
      BY <2>6 DEF ToSet
    <3>3. Append(q, e)[Len(q) + 1] = e
      OBVIOUS
    <3> QED BY <2>6, <3>1, <3>2, <3>3
  <2>7. Once(k[j + 1])
    BY <2>1, <2>2, <2>3, <2>4, <2>5, <2>6
  <2> QED BY <2>3, <2>7
<1>3. P = 0..Len(s)
  <2>1. Len(s) \in Nat
    OBVIOUS
  <2> HIDE DEF P
  <2>2. P \in SUBSET (0..Len(s))
    BY DEF P
  <2> QED BY <1>1, <1>2, <2>1, <2>2, PrefixInduction
<1> HIDE DEF k
<1>4. Once(k[Len(s)])
  BY <1>3
<1> QED BY <1>4 DEF Without, k
=============================================================================
