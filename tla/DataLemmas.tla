----------------------------- MODULE DataLemmas -----------------------------
(***************************************************************************)
(* Facts about the data of several models: the least and the greatest of a *)
(* set of numbers, which find a place in a sequence or keep a number above *)
(* zero, sequences that lose or gain a place, and sums over a finite set.  *)
(***************************************************************************)
EXTENDS Integers, SequencesExt, FiniteSetTheorems, SequenceTheorems, TLAPS

\* A set of natural numbers that is not empty has a least member.
LEMMA LeastMember ==
    ASSUME NEW S \in SUBSET Nat, S # {}
    PROVE  Min(S) \in S /\ \A n \in S : Min(S) <= n
<1>. DEFINE Family == {0 .. n : n \in S}
<1>1. \A n \in S : IsFiniteSet(0 .. n) /\ 0 .. n \in SUBSET Nat
  BY FS_Interval
<1>2. Family \subseteq FiniteSubsetsOf(Nat) /\ Family # {}
  BY <1>1 DEF FiniteSubsetsOf
<1>3. PICK X \in Family : \A Y \in Family : ~ (<<Y, X>> \in StrictSubsetOrdering(Nat))
  <2>. HIDE DEF Family
  <2>. QED
    BY <1>2, WFMin, FS_StrictSubsetOrderingWellFounded
<1>4. PICK least \in S : X = 0 .. least
  OBVIOUS
<1>5. ASSUME NEW n \in S, n < least
      PROVE  FALSE
  <2>1. 0 .. n \subseteq 0 .. least /\ 0 .. n # 0 .. least
    BY <1>5
  <2>2. 0 .. n \in SUBSET Nat /\ 0 .. least \in SUBSET Nat
    OBVIOUS
  <2>3. <<0 .. n, 0 .. least>> \in StrictSubsetOrdering(Nat)
    BY <2>1, <2>2 DEF StrictSubsetOrdering
  <2>. QED
    BY <2>3, <1>3, <1>4
<1>6. \A n \in S : least <= n
  BY <1>5
<1>. QED
  BY <1>6 DEF Min

\* And a set of numbers up to n a greatest one.
LEMMA GreatestMember ==
    ASSUME NEW n \in Nat, NEW S \in SUBSET (0 .. n), S # {}
    PROVE  Max(S) \in S /\ \A k \in S : k <= Max(S)
<1> DEFINE Bounds == {b \in 0 .. n : \A k \in S : k <= b}
<1>1. n \in Bounds /\ Bounds \in SUBSET Nat
  OBVIOUS
<1>2. PICK b \in Bounds : \A c \in Bounds : b <= c
  <2> HIDE DEF Bounds
  <2> QED
    BY <1>1, LeastMember
<1>3. b \in S
  <2> SUFFICES ASSUME b \notin S PROVE FALSE
    OBVIOUS
  <2>1. \A k \in S : k <= b - 1
    BY <1>2
  <2>2. b \in 0 .. n /\ b - 1 >= 0
    <3>1. PICK k \in S : k \in 0 .. n
      OBVIOUS
    <3> QED
      BY <2>1, <3>1
  <2>3. b - 1 \in Bounds
    BY <2>1, <2>2
  <2> HIDE DEF Bounds
  <2> QED
    BY <1>2, <2>2, <2>3
<1> QED
  BY <1>2, <1>3 DEF Max

\* A number kept at zero or above.
LEMMA MaxWithZero == ASSUME NEW n \in Int PROVE Max({0, n}) = IF n > 0 THEN n ELSE 0
  BY DEF Max

\* A sequence without one of its places.
LEMMA RemovedAt ==
    ASSUME NEW S, NEW s \in Seq(S), NEW i \in 1 .. Len(s)
    PROVE  /\ RemoveAt(s, i) \in Seq(S)
           /\ Len(RemoveAt(s, i)) = Len(s) - 1
           /\ \A n \in 1 .. Len(s) - 1 : RemoveAt(s, i)[n] = IF n < i THEN s[n] ELSE s[n + 1]
           /\ Range(RemoveAt(s, i)) \subseteq Range(s)
<1> DEFINE before == SubSeq(s, 1, i - 1)
           after == SubSeq(s, i + 1, Len(s))
           rest == before \o after
<1>1. Len(s) \in Nat /\ \A n \in 1 .. Len(s) : s[n] \in S
  BY LenProperties, ElementOfSeq
<1>2. /\ before \in Seq(S) /\ Len(before) = i - 1
      /\ \A n \in 1 .. i - 1 : before[n] = s[n]
  <2>1. i - 1 \in Int /\ 1 \in Int /\ \A n \in 1 .. i - 1 : s[n] \in S
    BY <1>1
  <2>2. /\ before \in Seq(S) /\ Len(before) = IF 1 <= i - 1 THEN i - 1 - 1 + 1 ELSE 0
        /\ \A n \in 1 .. i - 1 - 1 + 1 : before[n] = s[1 + n - 1]
    BY <2>1, SubSeqProperties
  <2> HIDE DEF before
  <2> QED
    BY <1>1, <2>2
<1>3. /\ after \in Seq(S) /\ Len(after) = Len(s) - i
      /\ \A n \in 1 .. Len(s) - i : after[n] = s[i + n]
  <2>1. i + 1 \in Int /\ Len(s) \in Int /\ \A n \in i + 1 .. Len(s) : s[n] \in S
    BY <1>1
  <2>2. /\ after \in Seq(S) /\ Len(after) = IF i + 1 <= Len(s) THEN Len(s) - (i + 1) + 1 ELSE 0
        /\ \A n \in 1 .. Len(s) - (i + 1) + 1 : after[n] = s[i + 1 + n - 1]
    BY <2>1, SubSeqProperties
  <2> HIDE DEF after
  <2> QED
    BY <1>1, <2>2
<1> HIDE DEF before, after
<1>4. /\ rest \in Seq(S) /\ Len(rest) = Len(before) + Len(after)
      /\ \A n \in 1 .. Len(before) + Len(after) :
            rest[n] = IF n <= Len(before) THEN before[n] ELSE after[n - Len(before)]
  BY <1>2, <1>3, ConcatProperties
<1> HIDE DEF rest
<1>5. ASSUME NEW n \in 1 .. Len(s) - 1
      PROVE  rest[n] = IF n < i THEN s[n] ELSE s[n + 1]
  <2>1. CASE n < i
    BY <1>1, <1>2, <1>3, <1>4, <2>1
  <2>2. CASE n >= i
    <3>1. n - (i - 1) \in 1 .. Len(s) - i /\ n + 1 \in 1 .. Len(s) /\ i + (n - (i - 1)) = n + 1
      BY <1>1, <2>2
    <3>2. n \in 1 .. Len(before) + Len(after) /\ ~ (n <= Len(before)) /\ n - Len(before) = n - (i - 1)
      BY <1>1, <1>2, <1>3, <2>2
    <3>3. rest[n] = after[n - (i - 1)]
      BY <1>4, <3>2
    <3>4. after[n - (i - 1)] = s[n + 1]
      BY <1>3, <3>1
    <3> QED
      BY <1>1, <2>2, <3>3, <3>4
  <2> QED
    BY <1>1, <2>1, <2>2
<1>6. Len(rest) = Len(s) - 1
  BY <1>1, <1>2, <1>3, <1>4
<1>7. Range(rest) \subseteq Range(s)
  <2>1. \A n \in 1 .. Len(s) - 1 : n \in 1 .. Len(s) /\ n + 1 \in 1 .. Len(s)
    BY <1>1
  <2>2. DOMAIN rest = 1 .. Len(s) - 1 /\ DOMAIN s = 1 .. Len(s)
    BY <1>4, <1>6, LenProperties
  <2>3. \A n \in 1 .. Len(s) - 1 : \E k \in 1 .. Len(s) : rest[n] = s[k]
    BY <1>5, <2>1
  <2> QED
    BY <2>2, <2>3 DEF Range
<1>8. rest = RemoveAt(s, i)
  BY DEF RemoveAt, rest, before, after
<1> QED
  BY <1>4, <1>5, <1>6, <1>7, <1>8

\* A sequence of different members without one of them.
LEMMA RemovedFrom ==
    ASSUME NEW S, NEW s \in Seq(S), IsInjective(s), NEW x \in Range(s)
    PROVE  LET rest == RemoveAt(s, CHOOSE i \in DOMAIN s : s[i] = x)
           IN  rest \in Seq(S) /\ IsInjective(rest) /\ Range(rest) = Range(s) \ {x}
<1>1. Len(s) \in Nat /\ DOMAIN s = 1 .. Len(s)
  BY LenProperties
<1>2. PICK i \in 1 .. Len(s) : i = (CHOOSE n \in DOMAIN s : s[n] = x) /\ s[i] = x
  BY <1>1 DEF Range
<1> DEFINE rest == RemoveAt(s, i)
<1>3. /\ rest \in Seq(S) /\ Len(rest) = Len(s) - 1
      /\ \A n \in 1 .. Len(s) - 1 : rest[n] = IF n < i THEN s[n] ELSE s[n + 1]
      /\ Range(rest) \subseteq Range(s)
  BY <1>2, RemovedAt
<1> HIDE DEF rest
<1>4. DOMAIN rest = 1 .. Len(s) - 1
  BY <1>3, LenProperties
<1> DEFINE back(n) == IF n < i THEN n ELSE n + 1
<1>5. \A n \in DOMAIN rest : back(n) \in 1 .. Len(s) \ {i} /\ rest[n] = s[back(n)]
  <2> SUFFICES ASSUME NEW n \in 1 .. Len(s) - 1
               PROVE  back(n) \in 1 .. Len(s) \ {i} /\ rest[n] = s[back(n)]
    BY <1>4
  <2>1. n \in 1 .. Len(s) /\ n + 1 \in 1 .. Len(s) /\ n + 1 # n /\ i \in Nat /\ n \in Nat
    BY <1>1, <1>2
  <2>2. n < i => n # i
    BY <2>1
  <2>3. ~ (n < i) => n + 1 # i
    BY <2>1
  <2> QED
    BY <1>3, <2>1, <2>2, <2>3
<1>6. \A n, m \in DOMAIN rest : back(n) = back(m) => n = m
  <2>1. \A n, m \in 1 .. Len(s) - 1 : back(n) = back(m) => n = m
    BY <1>1, <1>2
  <2> QED
    BY <1>4, <2>1
<1>7. \A k \in 1 .. Len(s) \ {i} : \E n \in DOMAIN rest : rest[n] = s[k]
  <2> SUFFICES ASSUME NEW k \in 1 .. Len(s) \ {i}
               PROVE  \E n \in DOMAIN rest : rest[n] = s[k]
    OBVIOUS
  <2>1. CASE k < i
    <3>1. k \in 1 .. Len(s) - 1
      BY <1>1, <1>2, <2>1
    <3> QED
      BY <1>3, <1>4, <2>1, <3>1
  <2>2. CASE k > i
    <3>1. k - 1 \in 1 .. Len(s) - 1 /\ ~ (k - 1 < i) /\ k - 1 + 1 = k
      BY <1>1, <1>2, <2>2
    <3> QED
      BY <1>3, <1>4, <3>1
  <2> QED
    BY <1>1, <1>2, <2>1, <2>2
<1> HIDE DEF back
<1>8. IsInjective(rest)
  BY <1>1, <1>5, <1>6 DEF IsInjective
<1>9. Range(rest) = Range(s) \ {x}
  BY <1>1, <1>2, <1>5, <1>7 DEF Range, IsInjective
<1> QED
  BY <1>2, <1>3, <1>8, <1>9 DEF rest

\* And with one more.
LEMMA AppendedTo ==
    ASSUME NEW S, NEW s \in Seq(S), NEW x \in S
    PROVE  /\ Append(s, x) \in Seq(S) /\ Range(Append(s, x)) = Range(s) \union {x}
           /\ IsInjective(s) /\ x \notin Range(s) => IsInjective(Append(s, x))
<1> DEFINE more == Append(s, x)
<1>1. /\ more \in Seq(S) /\ Len(more) = Len(s) + 1
      /\ \A i \in 1 .. Len(s) : more[i] = s[i]
      /\ more[Len(s) + 1] = x
  BY AppendProperties
<1> HIDE DEF more
<1>2. Len(s) \in Nat /\ DOMAIN s = 1 .. Len(s) /\ DOMAIN more = 1 .. Len(s) + 1
  BY <1>1, LenProperties
<1>3. \A i \in 1 .. Len(s) + 1 : i \in 1 .. Len(s) \/ i = Len(s) + 1
  BY <1>2
<1>4. Len(s) + 1 \in 1 .. Len(s) + 1 /\ 1 .. Len(s) \subseteq 1 .. Len(s) + 1
  BY <1>2
<1>5. Range(more) = Range(s) \union {x}
  BY <1>1, <1>2, <1>3, <1>4 DEF Range
<1>6. IsInjective(s) /\ x \notin Range(s) => IsInjective(more)
  BY <1>1, <1>2, <1>3, <1>4 DEF Range, IsInjective
<1> QED
  BY <1>1, <1>5, <1>6 DEF more

-----------------------------------------------------------------------------
(* Sums over a finite set, as SumFunctionOnSet of the community modules     *)
(* computes them.                                                          *)

\* The numbers f gives to the members of a finite set are summed one by one, in
\* some order: sums holds the sum over every set of D, or every subset of S.
Picked(T) == CHOOSE x \in T : TRUE
SumsOver(f, D, sums) == sums = [T \in D |-> IF T = {} THEN 0 ELSE f[Picked(T)] + sums[T \ {Picked(T)}]]
SubsetSums(f, S, sums) == SumsOver(f, SUBSET S, sums)

\* A finite set without one of its members has one less.
LEMMA FewerWithout ==
    ASSUME NEW T, IsFiniteSet(T), NEW x \in T
    PROVE  /\ IsFiniteSet(T \ {x}) /\ T \ {x} \in SUBSET T
           /\ Cardinality(T) \in Nat /\ Cardinality(T \ {x}) \in Nat
           /\ Cardinality(T \ {x}) = Cardinality(T) - 1
  BY FS_RemoveElement, FS_CardinalityType

\* There are such sums, by the number of members.
LEMMA SumsExist ==
    ASSUME NEW f, NEW S, IsFiniteSet(S)
    PROVE  \E sums : SumsOver(f, SUBSET S, sums)
<1> DEFINE UpTo(n) == {T \in SUBSET S : Cardinality(T) <= n}
           Bad == {n \in Nat : ~ \E sums : SumsOver(f, UpTo(n), sums)}
<1>1. \A T \in SUBSET S : IsFiniteSet(T) /\ Cardinality(T) \in Nat
  BY FS_Subset, FS_CardinalityType
<1>2. Bad = {}
  <2> SUFFICES ASSUME Bad # {}
               PROVE  FALSE
    OBVIOUS
  <2>1. PICK n \in Bad : \A m \in Bad : n <= m
    <3>1. Bad \in SUBSET Nat
      OBVIOUS
    <3> HIDE DEF Bad
    <3> QED
      BY <3>1, LeastMember
  <2>2. n \in Nat /\ ~ \E sums : SumsOver(f, UpTo(n), sums)
    BY <2>1
  <2>3. CASE n = 0
    <3>1. \A T \in UpTo(n) : T = {}
      BY <1>1, <2>3, FS_EmptySet
    <3> DEFINE zero == [T \in UpTo(n) |-> 0]
    <3>2. SumsOver(f, UpTo(n), zero)
      BY <3>1 DEF SumsOver
    <3> QED
      BY <2>2, <3>2
  <2>4. CASE n # 0
    <3>1. n - 1 \in Nat /\ ~ (n <= n - 1)
      BY <2>2, <2>4
    <3>2. PICK sums : SumsOver(f, UpTo(n - 1), sums)
      BY <2>1, <3>1
    <3> DEFINE more == [T \in UpTo(n) |-> IF T = {} THEN 0 ELSE f[Picked(T)] + sums[T \ {Picked(T)}]]
    <3>3. ASSUME NEW T \in UpTo(n), T # {}
          PROVE  more[T \ {Picked(T)}] = sums[T \ {Picked(T)}]
      <4>1. Picked(T) \in T
        BY <3>3 DEF Picked
      <4> DEFINE R == T \ {Picked(T)}
      <4>2. R \in UpTo(n - 1) /\ R \in UpTo(n)
        BY <1>1, <2>2, <3>1, <4>1, FewerWithout
      <4>3. sums[R] = IF R = {} THEN 0 ELSE f[Picked(R)] + sums[R \ {Picked(R)}]
        BY <3>2, <4>2 DEF SumsOver
      <4> QED
        BY <4>2, <4>3
    <3>4. more = [T \in UpTo(n) |-> IF T = {} THEN 0 ELSE f[Picked(T)] + more[T \ {Picked(T)}]]
      <4> DEFINE again == [T \in UpTo(n) |-> IF T = {} THEN 0 ELSE f[Picked(T)] + more[T \ {Picked(T)}]]
      <4>1. \A T \in UpTo(n) : more[T] = again[T]
        BY <3>3
      <4>2. more = [T \in UpTo(n) |-> more[T]] /\ again = [T \in UpTo(n) |-> again[T]]
        OBVIOUS
      <4> HIDE DEF more, again
      <4>3. more = again
        BY <4>1, <4>2
      <4> QED
        BY <4>3 DEF again
    <3> HIDE DEF more
    <3>5. SumsOver(f, UpTo(n), more)
      BY <3>4 DEF SumsOver
    <3> QED
      BY <2>2, <3>5
  <2> QED
    BY <2>3, <2>4
<1>3. Cardinality(S) \in Nat /\ UpTo(Cardinality(S)) = SUBSET S
  <2>1. \A T \in SUBSET S : Cardinality(T) <= Cardinality(S)
    BY FS_Subset
  <2> QED
    BY <1>1, <2>1
<1>4. \E sums : SumsOver(f, UpTo(Cardinality(S)), sums)
  BY <1>2, <1>3
<1> QED
  BY <1>3, <1>4

\* A finite set has, of any of its subsets, one that is bad with no bad subset
\* one member smaller.
LEMMA SmallestSubset ==
    ASSUME NEW T, IsFiniteSet(T), NEW Bad \in SUBSET (SUBSET T), Bad # {}
    PROVE  \E U \in Bad : IsFiniteSet(U) /\ \A x \in U : U \ {x} \notin Bad
<1>1. \A U \in SUBSET T : IsFiniteSet(U) /\ Cardinality(U) \in Nat
  BY FS_Subset, FS_CardinalityType
<1> DEFINE sizes == {Cardinality(U) : U \in Bad}
<1>2. PICK n \in sizes : \A m \in sizes : n <= m
  <2>1. sizes \in SUBSET Nat /\ sizes # {}
    BY <1>1
  <2> HIDE DEF sizes
  <2> QED
    BY <2>1, LeastMember
<1>3. PICK U \in Bad : n = Cardinality(U)
  BY <1>2
<1>4. ASSUME NEW x \in U, U \ {x} \in Bad
      PROVE  FALSE
  <2>1. n \in Nat /\ Cardinality(U \ {x}) = n - 1
    BY <1>1, <1>3, FewerWithout
  <2>2. n <= n - 1
    BY <1>2, <1>4, <2>1
  <2> QED
    BY <2>1, <2>2
<1> QED
  BY <1>1, <1>3, <1>4

\* Sums of what is the same are the same.
LEMMA SumsAgree ==
    ASSUME NEW S, NEW T \in SUBSET S, IsFiniteSet(T), NEW f, NEW g, \A x \in T : f[x] = g[x],
           NEW a, SubsetSums(f, S, a), NEW b, SubsetSums(g, T, b)
    PROVE  a[T] = b[T]
<1> DEFINE Bad == {U \in SUBSET T : a[U] # b[U]}
<1> SUFFICES ASSUME Bad # {}
             PROVE  FALSE
  OBVIOUS
<1>1. PICK U \in Bad : \A x \in U : U \ {x} \notin Bad
  <2>1. Bad \in SUBSET (SUBSET T)
    OBVIOUS
  <2> HIDE DEF Bad
  <2> QED
    BY <2>1, SmallestSubset
<1>2. /\ a[U] = IF U = {} THEN 0 ELSE f[Picked(U)] + a[U \ {Picked(U)}]
      /\ b[U] = IF U = {} THEN 0 ELSE g[Picked(U)] + b[U \ {Picked(U)}]
  BY DEF SubsetSums, SumsOver
<1>3. U # {} => Picked(U) \in U /\ U \ {Picked(U)} \in SUBSET T
  BY DEF Picked
<1>4. U # {} => a[U \ {Picked(U)}] = b[U \ {Picked(U)}]
  BY <1>1, <1>3
<1>5. U # {} => f[Picked(U)] = g[Picked(U)]
  BY <1>3
<1> QED
  BY <1>2, <1>4, <1>5

\* What SumFunctionOnSet computes.
LEMMA SumUnfolds ==
    ASSUME NEW f, NEW S, IsFiniteSet(S)
    PROVE  \E a : SubsetSums(f, S, a) /\ SumFunctionOnSet(f, S) = a[S]
<1> DEFINE a == CHOOSE sums : SubsetSums(f, S, sums)
<1>1. SubsetSums(f, S, a)
  <2>1. PICK sums : SubsetSums(f, S, sums)
    BY SumsExist DEF SubsetSums
  <2> QED
    BY <2>1
<1>2. SumFunctionOnSet(f, S) = a[S]
  BY DEF SumFunctionOnSet, FoldFunctionOnSet, MapThenFoldSet, SubsetSums, SumsOver, Picked
<1> QED
  BY <1>1, <1>2

\* A sum depends on nothing but the numbers summed.
LEMMA SumCongruent ==
    ASSUME NEW T, IsFiniteSet(T), NEW f, NEW g, \A x \in T : f[x] = g[x]
    PROVE  SumFunctionOnSet(f, T) = SumFunctionOnSet(g, T)
<1>1. PICK a : SubsetSums(f, T, a) /\ SumFunctionOnSet(f, T) = a[T]
  BY SumUnfolds
<1>2. PICK b : SubsetSums(g, T, b) /\ SumFunctionOnSet(g, T) = b[T]
  BY SumUnfolds
<1>3. a[T] = b[T]
  <2>1. T \in SUBSET T /\ SubsetSums(f, T, a) /\ SubsetSums(g, T, b)
    BY <1>1, <1>2
  <2> QED
    BY <2>1, SumsAgree
<1> QED
  BY <1>1, <1>2, <1>3

\* One member after the other, in the order they are picked ...
LEMMA SumPicks ==
    ASSUME NEW f, NEW T, IsFiniteSet(T)
    PROVE  SumFunctionOnSet(f, T) =
             IF T = {} THEN 0 ELSE f[Picked(T)] + SumFunctionOnSet(f, T \ {Picked(T)})
<1>1. PICK a : SubsetSums(f, T, a) /\ SumFunctionOnSet(f, T) = a[T]
  BY SumUnfolds
<1>2. a[T] = IF T = {} THEN 0 ELSE f[Picked(T)] + a[T \ {Picked(T)}]
  BY <1>1 DEF SubsetSums, SumsOver
<1>3. CASE T # {}
  <2>1. PICK R : R = T \ {Picked(T)}
    OBVIOUS
  <2>2. IsFiniteSet(R) /\ R \subseteq T
    BY <2>1, FS_Subset
  <2>3. PICK b : SubsetSums(f, R, b) /\ SumFunctionOnSet(f, R) = b[R]
    BY <2>2, SumUnfolds
  <2>4. a[R] = b[R]
    <3>1. PICK g : SubsetSums(g, R, b) /\ \A x \in R : f[x] = g[x]
      BY <2>3
    <3>2. SubsetSums(f, T, a) /\ IsFiniteSet(R) /\ R \in SUBSET T
      BY <1>1, <2>2
    <3> QED
      BY <3>1, <3>2, SumsAgree
  <2> QED
    BY <1>1, <1>2, <1>3, <2>1, <2>3, <2>4
<1> QED
  BY <1>1, <1>2, <1>3

\* The sum of integers is one.
LEMMA SumType ==
    ASSUME NEW f, NEW T, IsFiniteSet(T), \A x \in T : f[x] \in Int
    PROVE  SumFunctionOnSet(f, T) \in Int
<1> DEFINE Bad == {U \in SUBSET T : SumFunctionOnSet(f, U) \notin Int}
<1> SUFFICES ASSUME Bad # {}
             PROVE  FALSE
  OBVIOUS
<1>1. PICK U \in Bad : IsFiniteSet(U) /\ \A x \in U : U \ {x} \notin Bad
  <2>1. Bad \in SUBSET (SUBSET T)
    OBVIOUS
  <2> HIDE DEF Bad
  <2> QED
    BY <2>1, SmallestSubset
<1>2. SumFunctionOnSet(f, U) =
        IF U = {} THEN 0 ELSE f[Picked(U)] + SumFunctionOnSet(f, U \ {Picked(U)})
  BY <1>1, SumPicks
<1>3. U # {} => Picked(U) \in U /\ U \ {Picked(U)} \in SUBSET T
  BY DEF Picked
<1>4. U # {} => SumFunctionOnSet(f, U \ {Picked(U)}) \in Int /\ f[Picked(U)] \in Int
  BY <1>1, <1>3
<1> QED
  BY <1>2, <1>4

\* ... and so in any order.
LEMMA SumWithout ==
    ASSUME NEW f, NEW T, IsFiniteSet(T), \A x \in T : f[x] \in Int, NEW z \in T
    PROVE  SumFunctionOnSet(f, T) = f[z] + SumFunctionOnSet(f, T \ {z})
<1> DEFINE Sum(U) == SumFunctionOnSet(f, U)
           Bad == {U \in SUBSET T : \E x \in U : Sum(U) # f[x] + Sum(U \ {x})}
<1> SUFFICES ASSUME Bad # {}
             PROVE  FALSE
  OBVIOUS
<1>1. PICK U \in Bad : IsFiniteSet(U) /\ \A x \in U : U \ {x} \notin Bad
  <2>1. Bad \in SUBSET (SUBSET T)
    OBVIOUS
  <2> HIDE DEF Bad
  <2> QED
    BY <2>1, SmallestSubset
<1>2. PICK x \in U : Sum(U) # f[x] + Sum(U \ {x})
  OBVIOUS
<1>3. PICK p \in U : p = Picked(U)
  BY DEF Picked
<1>4. Sum(U) = f[p] + Sum(U \ {p})
  <2>1. U # {} /\ IsFiniteSet(U)
    BY <1>1
  <2> QED
    BY <1>3, <2>1, SumPicks
<1>5. x # p
  BY <1>2, <1>4
<1>6. \A V \in SUBSET T : IsFiniteSet(V) /\ \A y \in V : f[y] \in Int
  BY FS_Subset
<1>7. \A V \in SUBSET T : Sum(V) \in Int
  BY <1>6, SumType
<1>8. PICK R : R = (U \ {p}) \ {x} /\ R = (U \ {x}) \ {p}
  OBVIOUS
<1>9. Sum(U \ {p}) = f[x] + Sum(R)
  BY <1>1, <1>5, <1>8
<1>10. Sum(U \ {x}) = f[p] + Sum(R)
  BY <1>1, <1>5, <1>8
<1>11. f[x] \in Int /\ f[p] \in Int /\ Sum(R) \in Int
  <2>1. R \in SUBSET T
    BY <1>8
  <2> QED
    BY <1>7, <2>1
<1> HIDE DEF Sum
<1> QED
  BY <1>2, <1>4, <1>9, <1>10, <1>11

\* What is zero adds nothing.
LEMMA SumRestricted ==
    ASSUME NEW f, NEW T, IsFiniteSet(T), \A x \in T : f[x] \in Int,
           NEW R \in SUBSET T, \A x \in T \ R : f[x] = 0
    PROVE  SumFunctionOnSet(f, T) = SumFunctionOnSet(f, R)
<1> DEFINE Sum(U) == SumFunctionOnSet(f, U)
           Bad == {U \in SUBSET T : R \subseteq U /\ Sum(U) # Sum(R)}
<1> SUFFICES ASSUME Bad # {}
             PROVE  FALSE
  OBVIOUS
<1>1. PICK U \in Bad : IsFiniteSet(U) /\ \A x \in U : U \ {x} \notin Bad
  <2>1. Bad \in SUBSET (SUBSET T)
    OBVIOUS
  <2> HIDE DEF Bad
  <2> QED
    BY <2>1, SmallestSubset
<1>2. R \subseteq U /\ Sum(U) # Sum(R) /\ U \subseteq T
  OBVIOUS
<1>3. PICK x \in U \ R : TRUE
  <2> SUFFICES ASSUME U \ R = {} PROVE FALSE
    OBVIOUS
  <2>1. U = R
    BY <1>2
  <2> QED
    BY <1>2, <2>1
<1>4. Sum(U \ {x}) = Sum(R)
  BY <1>1, <1>2, <1>3
<1>5. Sum(U) = f[x] + Sum(U \ {x})
  BY <1>1, <1>2, <1>3, SumWithout
<1>6. f[x] = 0 /\ Sum(R) \in Int
  BY <1>2, <1>3, SumType, FS_Subset
<1> HIDE DEF Sum
<1> QED
  BY <1>2, <1>4, <1>5, <1>6

\* A sum of zeros is zero, whatever it is over.
LEMMA SumOfZeros ==
    ASSUME NEW f, NEW T, IsFiniteSet(T), \A x \in T : f[x] = 0
    PROVE  SumFunctionOnSet(f, T) = 0
<1>1. SumFunctionOnSet(f, T) = SumFunctionOnSet(f, {})
  <2>1. {} \in SUBSET T /\ (\A x \in T : f[x] \in Int) /\ \A x \in T \ {} : f[x] = 0
    OBVIOUS
  <2> QED
    BY <2>1, SumRestricted
<1> QED
  BY <1>1, SumPicks, FS_EmptySet

\* The sum over one member is its number.
LEMMA SumOfOne ==
    ASSUME NEW f, NEW x, f[x] \in Int
    PROVE  SumFunctionOnSet(f, {x}) = f[x]
<1>1. IsFiniteSet({x}) /\ IsFiniteSet({}) /\ {x} \ {x} = {}
  BY FS_Singleton, FS_EmptySet
<1>2. SumFunctionOnSet(f, {x}) = f[x] + SumFunctionOnSet(f, {x} \ {x})
  BY <1>1, SumWithout
<1>3. SumFunctionOnSet(f, {}) = 0
  BY <1>1, SumPicks
<1> QED
  BY <1>1, <1>2, <1>3

\* Sums add up.
LEMMA SumsAdd ==
    ASSUME NEW f, NEW g, NEW h, NEW T, IsFiniteSet(T),
           \A x \in T : g[x] \in Int /\ h[x] \in Int /\ f[x] = g[x] + h[x]
    PROVE  SumFunctionOnSet(f, T) = SumFunctionOnSet(g, T) + SumFunctionOnSet(h, T)
<1> DEFINE F(U) == SumFunctionOnSet(f, U)
           G(U) == SumFunctionOnSet(g, U)
           H(U) == SumFunctionOnSet(h, U)
           Bad == {U \in SUBSET T : F(U) # G(U) + H(U)}
<1> SUFFICES ASSUME Bad # {}
             PROVE  FALSE
  OBVIOUS
<1>1. PICK U \in Bad : IsFiniteSet(U) /\ \A x \in U : U \ {x} \notin Bad
  <2>1. Bad \in SUBSET (SUBSET T)
    OBVIOUS
  <2> HIDE DEF Bad
  <2> QED
    BY <2>1, SmallestSubset
<1>2. F(U) # G(U) + H(U) /\ U \subseteq T
  OBVIOUS
<1>3. U # {}
  <2>1. F({}) = 0 /\ G({}) = 0 /\ H({}) = 0
    BY SumPicks, FS_EmptySet
  <2> QED
    BY <1>2, <2>1
<1>4. PICK x \in U : TRUE
  BY <1>3
<1>5. \A y \in U : f[y] \in Int /\ g[y] \in Int /\ h[y] \in Int
  BY <1>2
<1>6. F(U) = f[x] + F(U \ {x}) /\ G(U) = g[x] + G(U \ {x}) /\ H(U) = h[x] + H(U \ {x})
  BY <1>1, <1>5, SumWithout
<1>7. F(U \ {x}) = G(U \ {x}) + H(U \ {x})
  BY <1>1, <1>2
<1>8. G(U \ {x}) \in Int /\ H(U \ {x}) \in Int
  BY <1>1, <1>5, SumType, FS_Subset
<1>9. f[x] = g[x] + h[x] /\ g[x] \in Int /\ h[x] \in Int
  BY <1>2
<1> HIDE DEF F, G, H
<1> QED
  BY <1>2, <1>6, <1>7, <1>8, <1>9

=============================================================================
