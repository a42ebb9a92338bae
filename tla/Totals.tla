-------------------------------- MODULE Totals --------------------------------
(***************************************************************************)
(* Lemmas about sums over finite sets, as FiniteSetsExt!MapThenSumSet       *)
(* defines them: by a function chosen to satisfy a recursion.  That there   *)
(* is one, and what it says, is shown by least counterexamples: were there  *)
(* a set the claim is false of, there would be one it is true of without    *)
(* any one of its elements, and a step of the recursion leads from there.   *)
(***************************************************************************)
EXTENDS FiniteSetsExt, FiniteSetTheorems, WellFoundedInduction, TLAPS

\* The sum of f over the finite set S.
SumOf(f, S) == MapThenSumSet(LAMBDA x : f[x], S)

\* The element of s the library adds first.
Pick(s) == CHOOSE x \in s : TRUE

\* g[s] sums f over s, for every set s of D: what MapThenSumSet chooses.
IsSum(g, f, D) == g = [s \in D |-> IF s = {} THEN 0 ELSE f[Pick(s)] + g[s \ {Pick(s)}]]

\* g sums f over every subset of the finite set S.
Adds(g, f, S) == IsFiniteSet(S) /\ IsSum(g, f, SUBSET S)

\* f is an integer everywhere on S.
IntegersOn(f, S) == \A x \in S : f[x] \in Int

\* f and e agree on S.
SameOn(f, e, S) == \A x \in S : f[x] = e[x]

\* The elements of s whose key is t, and the sum of f over each such group.
Group(k, s, t) == {x \in s : k[x] = t}
GroupSums(f, k, s, T) == [t \in T |-> SumOf(f, Group(k, s, t))]

\* The subsets of S of at most n elements.
UpTo(S, n) == {s \in SUBSET S : Cardinality(s) <= n}

\* Every set of natural numbers that is not empty has a least one.
LEMMA LeastNat ==
  ASSUME NEW T \in SUBSET Nat, T # {}
  PROVE  \E n \in T : \A m \in T : ~ (m < n)
  <1>1. \E n \in T : \A m \in T : ~ (<<m, n>> \in OpToRel(<, Nat))
    BY NatLessThanWellFounded, WFMin
  <1> QED BY <1>1 DEF OpToRel

\* What is picked from a set is in it.
LEMMA PickIn == ASSUME NEW s, s # {} PROVE Pick(s) \in s
  BY DEF Pick

\* A subset of a finite set is finite, and smaller without an element.
LEMMA Smaller ==
  ASSUME NEW S, IsFiniteSet(S), NEW s \in SUBSET S, NEW x \in s
  PROVE  /\ IsFiniteSet(s) /\ IsFiniteSet(s \ {x})
         /\ s \ {x} \in SUBSET S
         /\ Cardinality(s) \in Nat \ {0}
         /\ Cardinality(s \ {x}) = Cardinality(s) - 1
  <1>1. IsFiniteSet(s) BY FS_Subset
  <1>2. IsFiniteSet(s \ {x}) /\ Cardinality(s \ {x}) = Cardinality(s) - 1
    BY <1>1, FS_RemoveElement
  <1>3. Cardinality(s) \in Nat /\ Cardinality(s \ {x}) \in Nat BY <1>1, <1>2, FS_CardinalityType
  <1> QED BY <1>1, <1>2, <1>3

\* There is a function that sums f over every subset of a finite set.  If there
\* were none for the sets of at most n elements, for a least such n, then the one
\* for n - 1 would extend to n.
LEMMA SumExists ==
  ASSUME NEW f, NEW S, IsFiniteSet(S)
  PROVE  \E g : IsSum(g, f, SUBSET S)
  <1> DEFINE Bad == {n \in Nat : ~ \E g : IsSum(g, f, UpTo(S, n))}
  <1>1. ASSUME NEW n \in Bad, \A m \in Bad : ~ (m < n)
        PROVE  FALSE
    <2>1. CASE n = 0
      <3> DEFINE g == [s \in UpTo(S, 0) |-> 0]
      <3>1. \A s \in UpTo(S, 0) : s = {}
        <4> SUFFICES ASSUME NEW s \in UpTo(S, 0), NEW x \in s PROVE FALSE
          OBVIOUS
        <4>1. Cardinality(s) <= 0 /\ s \in SUBSET S BY DEF UpTo
        <4>2. Cardinality(s) \in Nat \ {0} BY <4>1, Smaller
        <4> QED BY <4>1, <4>2
      <3>2. IsSum(g, f, UpTo(S, 0)) BY <3>1 DEF IsSum
      <3> QED BY <3>2, <2>1
    <2>2. CASE n # 0
      <3>1. n - 1 \in Nat /\ n - 1 < n BY <2>2
      <3>2. PICK h : IsSum(h, f, UpTo(S, n - 1)) BY <3>1, <1>1
      <3> DEFINE g == [s \in UpTo(S, n) |-> IF s = {} THEN 0 ELSE f[Pick(s)] + h[s \ {Pick(s)}]]
      <3>3. \A s \in UpTo(S, n - 1) : s \in UpTo(S, n)
        <4> SUFFICES ASSUME NEW s \in UpTo(S, n - 1) PROVE Cardinality(s) <= n
          BY DEF UpTo
        <4>1. Cardinality(s) \in Nat BY FS_Subset, FS_CardinalityType DEF UpTo
        <4> QED BY <4>1, <3>1 DEF UpTo
      <3>4. \A s \in UpTo(S, n - 1) : g[s] = h[s] BY <3>2, <3>3 DEF IsSum
      <3>5. \A s \in UpTo(S, n) : s # {} => s \ {Pick(s)} \in UpTo(S, n - 1)
        <4> SUFFICES ASSUME NEW s \in UpTo(S, n), s # {} PROVE s \ {Pick(s)} \in UpTo(S, n - 1)
          OBVIOUS
        <4>1. Pick(s) \in s BY PickIn
        <4>2. s \ {Pick(s)} \in SUBSET S /\ Cardinality(s \ {Pick(s)}) = Cardinality(s) - 1
              /\ Cardinality(s) \in Nat
          BY <4>1, Smaller DEF UpTo
        <4> QED BY <4>2 DEF UpTo
      <3>6. \A s \in UpTo(S, n) : g[s] = IF s = {} THEN 0 ELSE f[Pick(s)] + g[s \ {Pick(s)}]
        BY <3>4, <3>5
      <3>7. IsSum(g, f, UpTo(S, n)) BY <3>6 DEF IsSum
      <3> QED BY <3>7
    <2> QED BY <2>1, <2>2
  <1>2. Bad = {} BY <1>1, LeastNat
  <1>3. Cardinality(S) \in Nat BY FS_CardinalityType
  <1>4. UpTo(S, Cardinality(S)) = SUBSET S BY FS_Subset DEF UpTo
  <1>5. Cardinality(S) \notin Bad BY <1>2
  <1> QED BY <1>3, <1>4, <1>5

\* SumOf is what such a function says of the whole set.
LEMMA SumOfDef ==
  ASSUME NEW f, NEW S, IsFiniteSet(S)
  PROVE  \E g : Adds(g, f, S) /\ SumOf(f, S) = g[S]
  <1>1. SumOf(f, S) = (CHOOSE g : IsSum(g, f, SUBSET S))[S]
    BY DEF SumOf, MapThenSumSet, MapThenFoldSet, IsSum, Pick
  <1> QED BY <1>1, SumExists DEF Adds

\* A property that fails of some subset of a finite set fails of one of which it
\* holds again whichever element is taken away.  The sums below are proved by it.
LEMMA LeastSet ==
  ASSUME NEW S, IsFiniteSet(S), NEW B \in SUBSET (SUBSET S), B # {}
  PROVE  \E s \in B : \A x \in s : s \ {x} \notin B
  <1> DEFINE T == {Cardinality(s) : s \in B}
  <1>1. T \in SUBSET Nat /\ T # {} BY FS_Subset, FS_CardinalityType
  <1>2. PICK n \in T : \A m \in T : ~ (m < n) BY <1>1, LeastNat
  <1>3. PICK s \in B : n = Cardinality(s) OBVIOUS
  <1>4. ASSUME NEW x \in s, s \ {x} \in B PROVE FALSE
    <2>1. Cardinality(s \ {x}) = n - 1 /\ n \in Nat BY <1>3, Smaller
    <2> QED BY <2>1, <1>2, <1>4
  <1> QED BY <1>4

\* Sums of integers are integers.
LEMMA SumInt ==
  ASSUME NEW f, NEW S, NEW g, Adds(g, f, S), IntegersOn(f, S)
  PROVE  \A s \in SUBSET S : g[s] \in Int
  <1> USE DEF Adds, IntegersOn
  <1> DEFINE B == {s \in SUBSET S : g[s] \notin Int}
  <1>1. ASSUME NEW s \in B, \A x \in s : s \ {x} \notin B PROVE FALSE
    <2>1. CASE s = {} BY <2>1 DEF IsSum
    <2>2. CASE s # {}
      <3>1. Pick(s) \in s BY <2>2, PickIn
      <3>2. g[s \ {Pick(s)}] \in Int BY <3>1, <1>1
      <3>3. g[s] = f[Pick(s)] + g[s \ {Pick(s)}] BY <2>2 DEF IsSum
      <3> QED BY <3>1, <3>2, <3>3
    <2> QED BY <2>1, <2>2
  <1> QED BY <1>1, LeastSet

\* Whichever element is taken away first, the sum is the same.
LEMMA SumRemoves ==
  ASSUME NEW f, NEW S, NEW g, Adds(g, f, S), IntegersOn(f, S)
  PROVE  \A s \in SUBSET S : \A x \in s : g[s] = f[x] + g[s \ {x}]
  <1> DEFINE B == {s \in SUBSET S : \E x \in s : g[s] # f[x] + g[s \ {x}]}
  <1>1. ASSUME NEW s \in B, \A x \in s : s \ {x} \notin B PROVE FALSE
    <2>1. PICK x \in s : g[s] # f[x] + g[s \ {x}] OBVIOUS
    <2> DEFINE y == Pick(s)
    <2>2. y \in s BY <2>1, PickIn
    <2>3. g[s] = f[y] + g[s \ {y}] BY <2>1 DEF Adds, IsSum
    <2>4. x # y BY <2>1, <2>3
    <2>5. g[s \ {y}] = f[x] + g[(s \ {y}) \ {x}] BY <1>1, <2>1, <2>2, <2>4
    <2>6. g[s \ {x}] = f[y] + g[(s \ {x}) \ {y}] BY <1>1, <2>1, <2>2, <2>4
    <2>7. (s \ {y}) \ {x} = (s \ {x}) \ {y} OBVIOUS
    <2>8. g[(s \ {y}) \ {x}] \in Int /\ f[x] \in Int /\ f[y] \in Int
      BY SumInt, <2>2 DEF IntegersOn
    <2>9. g[s] = f[y] + (f[x] + g[(s \ {y}) \ {x}]) BY <2>3, <2>5
    <2>10. g[s \ {x}] = f[y] + g[(s \ {y}) \ {x}] BY <2>6, <2>7
    <2> HIDE DEF y
    <2>11. g[s] = f[x] + (f[y] + g[(s \ {y}) \ {x}]) BY <2>8, <2>9
    <2> QED BY <2>1, <2>10, <2>11
  <1> QED BY <1>1, LeastSet DEF Adds

\* Functions that agree on T have the same sum over T.
LEMMA SumAgrees ==
  ASSUME NEW f, NEW S, NEW g, Adds(g, f, S),
         NEW e, NEW T \in SUBSET S, NEW h, Adds(h, e, T), SameOn(f, e, T)
  PROVE  g[T] = h[T]
  <1> USE DEF Adds, SameOn
  <1> DEFINE B == {s \in SUBSET T : g[s] # h[s]}
  <1>1. ASSUME NEW s \in B, \A x \in s : s \ {x} \notin B PROVE FALSE
    <2>1. CASE s = {} BY <2>1 DEF IsSum
    <2>2. CASE s # {}
      <3>1. Pick(s) \in s BY <2>2, PickIn
      <3>2. g[s \ {Pick(s)}] = h[s \ {Pick(s)}] BY <3>1, <1>1
      <3>3. g[s] = f[Pick(s)] + g[s \ {Pick(s)}] BY <2>2 DEF IsSum
      <3>4. h[s] = e[Pick(s)] + h[s \ {Pick(s)}] BY <2>2 DEF IsSum
      <3> QED BY <3>1, <3>2, <3>3, <3>4
    <2> QED BY <2>1, <2>2
  <1> QED BY <1>1, LeastSet

\* Nothing adds up to 0.
LEMMA TotalOfNone == ASSUME NEW f PROVE SumOf(f, {}) = 0
  <1>1. IsFiniteSet({}) BY FS_EmptySet
  <1> QED BY <1>1, SumOfDef DEF Adds, IsSum

\* A sum of integers is an integer.
LEMMA TotalInt ==
  ASSUME NEW f, NEW S, IsFiniteSet(S), IntegersOn(f, S)
  PROVE  SumOf(f, S) \in Int
  <1>1. PICK g : Adds(g, f, S) /\ SumOf(f, S) = g[S] BY SumOfDef
  <1> QED BY <1>1, SumInt

\* Functions that agree on a set have the same sum over it.
LEMMA TotalSame ==
  ASSUME NEW f, NEW e, NEW S, IsFiniteSet(S), SameOn(f, e, S)
  PROVE  SumOf(f, S) = SumOf(e, S)
  <1>1. PICK g : Adds(g, f, S) /\ SumOf(f, S) = g[S] BY SumOfDef
  <1>2. PICK h : Adds(h, e, S) /\ SumOf(e, S) = h[S] BY SumOfDef
  <1>3. S \in SUBSET S OBVIOUS
  <1>4. g[S] = h[S] BY <1>1, <1>2, <1>3, SumAgrees
  <1> QED BY <1>1, <1>2, <1>4

\* SumOf is what any function that adds says of the whole set.
LEMMA TotalIs ==
  ASSUME NEW f, NEW S, NEW g, Adds(g, f, S)
  PROVE  g[S] = SumOf(f, S)
  <1>1. PICK h : Adds(h, f, S) /\ SumOf(f, S) = h[S] BY SumOfDef DEF Adds
  <1>2. S \in SUBSET S /\ SameOn(f, f, S) BY DEF SameOn
  <1>3. g[S] = h[S] BY <1>1, <1>2, SumAgrees
  <1> QED BY <1>1, <1>3

\* Taking an element away takes its value away.
LEMMA TotalRemoves ==
  ASSUME NEW f, NEW S, IsFiniteSet(S), IntegersOn(f, S), NEW x \in S
  PROVE  SumOf(f, S) = f[x] + SumOf(f, S \ {x})
  <1> DEFINE R == S \ {x}
  <1>1. PICK g : Adds(g, f, S) /\ SumOf(f, S) = g[S] BY SumOfDef
  <1>2. IsFiniteSet(R) /\ R \in SUBSET S BY FS_Subset
  <1>3. PICK h : Adds(h, f, R) /\ SumOf(f, R) = h[R] BY <1>2, SumOfDef
  <1>4. g[R] = h[R]
    <2>1. SameOn(f, f, R) BY DEF SameOn
    <2> HIDE DEF R
    <2> QED BY <1>1, <1>2, <1>3, <2>1, SumAgrees
  <1>5. g[S] = f[x] + g[R] BY <1>1, SumRemoves
  <1> QED BY <1>1, <1>3, <1>4, <1>5

\* Adding an element adds its value.
LEMMA TotalAdds ==
  ASSUME NEW f, NEW S, IsFiniteSet(S), NEW x, x \notin S, IntegersOn(f, S \cup {x})
  PROVE  SumOf(f, S \cup {x}) = f[x] + SumOf(f, S)
  <1>1. IsFiniteSet(S \cup {x}) BY FS_AddElement
  <1>2. (S \cup {x}) \ {x} = S OBVIOUS
  <1> QED BY <1>1, <1>2, TotalRemoves

\* Changing one value changes the sum by the difference.
LEMMA TotalUpdates ==
  ASSUME NEW f, NEW e, NEW S, IsFiniteSet(S), IntegersOn(f, S), IntegersOn(e, S),
         NEW x \in S, SameOn(e, f, S \ {x})
  PROVE  SumOf(e, S) = SumOf(f, S) - f[x] + e[x]
  <1>1. IsFiniteSet(S \ {x}) BY FS_Subset
  <1>2. SumOf(e, S \ {x}) = SumOf(f, S \ {x}) BY <1>1, TotalSame
  <1>3. SumOf(f, S) = f[x] + SumOf(f, S \ {x}) BY TotalRemoves
  <1>4. SumOf(e, S) = e[x] + SumOf(e, S \ {x}) BY TotalRemoves
  <1>5. SumOf(f, S \ {x}) \in Int BY <1>1, TotalInt DEF IntegersOn
  <1>6. f[x] \in Int /\ e[x] \in Int BY DEF IntegersOn
  <1> QED BY <1>2, <1>3, <1>4, <1>5, <1>6

\* A sum of natural numbers is a natural number.
LEMMA TotalNat ==
  ASSUME NEW f, NEW S, IsFiniteSet(S), \A x \in S : f[x] \in Nat
  PROVE  SumOf(f, S) \in Nat
  <1> DEFINE B == {s \in SUBSET S : SumOf(f, s) \notin Nat}
  <1>1. ASSUME NEW s \in B, \A x \in s : s \ {x} \notin B PROVE FALSE
    <2>1. CASE s = {} BY <2>1, TotalOfNone
    <2>2. CASE s # {}
      <3>1. PICK x \in s : TRUE BY <2>2
      <3>2. IsFiniteSet(s) BY Smaller
      <3>3. IntegersOn(f, s) BY DEF IntegersOn
      <3>4. SumOf(f, s) = f[x] + SumOf(f, s \ {x}) BY <3>2, <3>3, TotalRemoves
      <3>5. SumOf(f, s \ {x}) \in Nat /\ f[x] \in Nat BY <1>1
      <3> QED BY <3>4, <3>5
    <2> QED BY <2>1, <2>2
  <1> QED BY <1>1, LeastSet

\* A set and the rest of it add up to the whole.
LEMMA TotalSplits ==
  ASSUME NEW f, NEW S, IsFiniteSet(S), IntegersOn(f, S), NEW T \in SUBSET S
  PROVE  SumOf(f, S) = SumOf(f, T) + SumOf(f, S \ T)
  <1> DEFINE B == {s \in SUBSET T : SumOf(f, S) # SumOf(f, s) + SumOf(f, S \ s)}
  <1>1. ASSUME NEW s \in B, \A x \in s : s \ {x} \notin B PROVE FALSE
    <2>1. CASE s = {}
      <3>1. SumOf(f, s) = 0 /\ S \ s = S BY <2>1, TotalOfNone
      <3>2. SumOf(f, S) \in Int BY TotalInt
      <3>3. SumOf(f, S) # SumOf(f, s) + SumOf(f, S \ s) OBVIOUS
      <3> HIDE DEF B
      <3>4. SumOf(f, S) # 0 + SumOf(f, S) BY <3>1, <3>3
      <3> QED BY <3>2, <3>4
    <2>2. CASE s # {}
      <3>1. PICK x \in s : TRUE BY <2>2
      <3> DEFINE r == s \ {x}
      <3>2. IsFiniteSet(s) /\ IsFiniteSet(r) /\ IsFiniteSet(S \ r) /\ IsFiniteSet(S \ s) BY FS_Subset
      <3>3. IntegersOn(f, s) /\ IntegersOn(f, r) /\ IntegersOn(f, S \ r) /\ IntegersOn(f, S \ s)
        BY DEF IntegersOn
      <3>4. SumOf(f, s) = f[x] + SumOf(f, r) BY <3>2, <3>3, TotalRemoves
      <3>5. (S \ r) \ {x} = S \ s /\ x \in S \ r OBVIOUS
      <3>6. SumOf(f, S \ r) = f[x] + SumOf(f, (S \ r) \ {x})
        BY <3>2, <3>3, <3>5, TotalRemoves
      <3>10. SumOf(f, S \ r) = f[x] + SumOf(f, S \ s) BY <3>5, <3>6
      <3>7. SumOf(f, S) = SumOf(f, r) + SumOf(f, S \ r) BY <1>1
      <3>8. SumOf(f, r) \in Int /\ SumOf(f, S \ s) \in Int /\ f[x] \in Int
        BY <3>2, <3>3, TotalInt DEF IntegersOn
      <3>9. SumOf(f, S) # SumOf(f, s) + SumOf(f, S \ s) OBVIOUS
      <3> HIDE DEF r, B
      <3>11. SumOf(f, S) = SumOf(f, r) + (f[x] + SumOf(f, S \ s)) BY <3>7, <3>10
      <3>12. SumOf(f, S) # (f[x] + SumOf(f, r)) + SumOf(f, S \ s) BY <3>4, <3>9
      <3> QED BY <3>8, <3>11, <3>12
    <2> QED BY <2>1, <2>2
  <1>2. IsFiniteSet(T) BY FS_Subset
  <1> QED BY <1>1, <1>2, LeastSet

\* A part of natural numbers is at most the whole.
LEMMA TotalGrows ==
  ASSUME NEW f, NEW S, IsFiniteSet(S), \A x \in S : f[x] \in Nat, NEW T \in SUBSET S
  PROVE  SumOf(f, T) <= SumOf(f, S)
  <1>1. IsFiniteSet(T) /\ IsFiniteSet(S \ T) BY FS_Subset
  <1>2. SumOf(f, T) \in Nat /\ SumOf(f, S \ T) \in Nat BY <1>1, TotalNat
  <1>3. SumOf(f, S) = SumOf(f, T) + SumOf(f, S \ T) BY TotalSplits DEF IntegersOn
  <1> QED BY <1>2, <1>3

\* The sum of sums is the sum of the two.
LEMMA TotalOfSums ==
  ASSUME NEW f, NEW e, NEW h, NEW S, IsFiniteSet(S), IntegersOn(f, S), IntegersOn(e, S),
         \A x \in S : h[x] = f[x] + e[x]
  PROVE  SumOf(h, S) = SumOf(f, S) + SumOf(e, S)
  <1> DEFINE B == {s \in SUBSET S : SumOf(h, s) # SumOf(f, s) + SumOf(e, s)}
  <1>1. ASSUME NEW s \in B, \A x \in s : s \ {x} \notin B PROVE FALSE
    <2>1. CASE s = {} BY <2>1, TotalOfNone
    <2>2. CASE s # {}
      <3>1. PICK x \in s : TRUE BY <2>2
      <3> DEFINE r == s \ {x}
      <3>2. IsFiniteSet(s) /\ IsFiniteSet(r) BY Smaller
      <3>3. IntegersOn(f, s) /\ IntegersOn(e, s) /\ IntegersOn(h, s) /\ IntegersOn(f, r) /\ IntegersOn(e, r)
        BY DEF IntegersOn
      <3>4. SumOf(f, s) = f[x] + SumOf(f, r) /\ SumOf(e, s) = e[x] + SumOf(e, r)
            /\ SumOf(h, s) = h[x] + SumOf(h, r)
        BY <3>2, <3>3, TotalRemoves
      <3>5. SumOf(h, r) = SumOf(f, r) + SumOf(e, r) BY <1>1
      <3>6. SumOf(f, r) \in Int /\ SumOf(e, r) \in Int BY <3>2, <3>3, TotalInt
      <3>7. f[x] \in Int /\ e[x] \in Int /\ h[x] = f[x] + e[x] BY DEF IntegersOn
      <3>8. SumOf(h, s) # SumOf(f, s) + SumOf(e, s) OBVIOUS
      <3> HIDE DEF r, B
      <3> QED BY <3>4, <3>5, <3>6, <3>7, <3>8
    <2> QED BY <2>1, <2>2
  <1> QED BY <1>1, LeastSet

\* Zeros add up to 0.
LEMMA TotalOfZeros ==
  ASSUME NEW f, NEW S, IsFiniteSet(S), \A x \in S : f[x] = 0
  PROVE  SumOf(f, S) = 0
  <1> DEFINE B == {s \in SUBSET S : SumOf(f, s) # 0}
  <1>1. ASSUME NEW s \in B, \A x \in s : s \ {x} \notin B PROVE FALSE
    <2>1. CASE s = {} BY <2>1, TotalOfNone
    <2>2. CASE s # {}
      <3>1. PICK x \in s : TRUE BY <2>2
      <3>2. IsFiniteSet(s) BY Smaller
      <3>3. \A y \in s : f[y] = 0 OBVIOUS
      <3>4. IntegersOn(f, s) BY <3>3 DEF IntegersOn
      <3>5. SumOf(f, s) = f[x] + SumOf(f, s \ {x}) BY <3>2, <3>4, TotalRemoves
      <3>6. SumOf(f, s \ {x}) = 0 BY <1>1
      <3> QED BY <3>3, <3>5, <3>6
    <2> QED BY <2>1, <2>2
  <1> QED BY <1>1, LeastSet

\* What comes in less what goes out is the sum of what each brings.
LEMMA TotalOfBalance ==
  ASSUME NEW a, NEW h, NEW S, IsFiniteSet(S), IntegersOn(a, S), NEW In \in SUBSET S, NEW Out \in SUBSET S,
         In \cap Out = {},
         \A x \in S : h[x] = IF x \in In THEN a[x] ELSE IF x \in Out THEN 0 - a[x] ELSE 0
  PROVE  SumOf(h, S) = SumOf(a, In) - SumOf(a, Out)
  <1> DEFINE B == {s \in SUBSET S : SumOf(h, s) # SumOf(a, In \cap s) - SumOf(a, Out \cap s)}
  <1>1. ASSUME NEW s \in B, \A x \in s : s \ {x} \notin B PROVE FALSE
    <2>1. CASE s = {}
      <3>1. In \cap s = {} /\ Out \cap s = {} BY <2>1
      <3>2. SumOf(h, s) # SumOf(a, In \cap s) - SumOf(a, Out \cap s) OBVIOUS
      <3> HIDE DEF B
      <3>3. SumOf(h, {}) # SumOf(a, {}) - SumOf(a, {}) BY <2>1, <3>1, <3>2
      <3>4. SumOf(h, {}) = 0 /\ SumOf(a, {}) = 0 BY TotalOfNone
      <3> QED BY <3>3, <3>4
    <2>2. CASE s # {}
      <3>1. PICK x \in s : TRUE BY <2>2
      <3> DEFINE r == s \ {x}  i == In \cap s  o == Out \cap s  j == In \cap r  p == Out \cap r
      <3>2. IsFiniteSet(s) /\ IsFiniteSet(r) /\ IsFiniteSet(i) /\ IsFiniteSet(o) /\ IsFiniteSet(j) /\ IsFiniteSet(p)
        BY FS_Subset
      <3>3. /\ IntegersOn(a, i) /\ IntegersOn(a, o) /\ IntegersOn(a, j) /\ IntegersOn(a, p)
            /\ IntegersOn(h, s) /\ IntegersOn(h, r)
        BY DEF IntegersOn
      <3>4. SumOf(h, s) = h[x] + SumOf(h, r) BY <3>2, <3>3, TotalRemoves
      <3>5. SumOf(h, r) = SumOf(a, j) - SumOf(a, p) BY <1>1
      <3>6. SumOf(h, s) # SumOf(a, i) - SumOf(a, o) OBVIOUS
      <3>7. SumOf(a, j) \in Int /\ SumOf(a, p) \in Int /\ a[x] \in Int BY <3>2, <3>3, TotalInt DEF IntegersOn
      <3>8. SumOf(a, i) = (IF x \in In THEN a[x] ELSE 0) + SumOf(a, j)
        <4>1. CASE x \in In
          <5>1. x \in i /\ i \ {x} = j BY <4>1
          <5>2. SumOf(a, i) = a[x] + SumOf(a, i \ {x}) BY <3>2, <3>3, <5>1, TotalRemoves
          <5> QED BY <4>1, <5>1, <5>2
        <4>2. CASE x \notin In
          <5>1. i = j BY <4>2
          <5> HIDE DEF i, o, j, p, B
          <5>2. SumOf(a, i) = SumOf(a, j) BY <5>1
          <5> QED BY <3>7, <4>2, <5>2
        <4> QED BY <4>1, <4>2
      <3>9. SumOf(a, o) = (IF x \in Out THEN a[x] ELSE 0) + SumOf(a, p)
        <4>1. CASE x \in Out
          <5>1. x \in o /\ o \ {x} = p BY <4>1
          <5>2. SumOf(a, o) = a[x] + SumOf(a, o \ {x}) BY <3>2, <3>3, <5>1, TotalRemoves
          <5> QED BY <4>1, <5>1, <5>2
        <4>2. CASE x \notin Out
          <5>1. o = p BY <4>2
          <5> HIDE DEF i, o, j, p, B
          <5>2. SumOf(a, o) = SumOf(a, p) BY <5>1
          <5> QED BY <3>7, <4>2, <5>2
        <4> QED BY <4>1, <4>2
      <3>10. h[x] = (IF x \in In THEN a[x] ELSE 0) - (IF x \in Out THEN a[x] ELSE 0)
        <4>1. h[x] = (IF x \in In THEN a[x] ELSE IF x \in Out THEN 0 - a[x] ELSE 0) /\ ~ (x \in In /\ x \in Out)
          <5>1. x \in S OBVIOUS
          <5> HIDE DEF B, r, i, o, j, p
          <5> QED BY <5>1
        <4> HIDE DEF B, r, i, o, j, p
        <4> QED BY <3>7, <4>1
      <3> HIDE DEF r, B, i, o, j, p
      <3> QED BY <3>4, <3>5, <3>6, <3>7, <3>8, <3>9, <3>10
    <2> QED BY <2>1, <2>2
  <1>2. SumOf(h, S) = SumOf(a, In \cap S) - SumOf(a, Out \cap S) BY <1>1, LeastSet
  <1>3. In \cap S = In /\ Out \cap S = Out OBVIOUS
  <1> QED BY <1>2, <1>3

\* The sum over groups of the sums within each is the sum of all.
LEMMA TotalGrouped ==
  ASSUME NEW f, NEW S, IsFiniteSet(S), IntegersOn(f, S), NEW T, IsFiniteSet(T),
         NEW k, \A x \in S : k[x] \in T
  PROVE  SumOf(GroupSums(f, k, S, T), T) = SumOf(f, S)
  <1> DEFINE B == {s \in SUBSET S : SumOf(GroupSums(f, k, s, T), T) # SumOf(f, s)}
  <1>1. ASSUME NEW s \in SUBSET S, NEW t \in T
        PROVE  /\ IsFiniteSet(Group(k, s, t)) /\ IntegersOn(f, Group(k, s, t))
               /\ SumOf(f, Group(k, s, t)) \in Int
               /\ GroupSums(f, k, s, T)[t] = SumOf(f, Group(k, s, t))
    <2>1. Group(k, s, t) \in SUBSET S BY DEF Group
    <2>2. IsFiniteSet(Group(k, s, t)) /\ IntegersOn(f, Group(k, s, t)) BY <2>1, FS_Subset DEF IntegersOn
    <2> QED BY <2>2, TotalInt DEF GroupSums
  <1>2. ASSUME NEW s \in B, \A x \in s : s \ {x} \notin B PROVE FALSE
    <2>1. CASE s = {}
      <3>1. \A t \in T : GroupSums(f, k, s, T)[t] = 0
        <4> SUFFICES ASSUME NEW t \in T PROVE GroupSums(f, k, s, T)[t] = 0 OBVIOUS
        <4>1. Group(k, s, t) = {} BY <2>1 DEF Group
        <4> QED BY <1>1, <4>1, TotalOfNone
      <3>2. SumOf(GroupSums(f, k, s, T), T) = 0 BY <3>1, TotalOfZeros
      <3>3. SumOf(f, s) = 0 BY <2>1, TotalOfNone
      <3> QED BY <3>2, <3>3
    <2>2. CASE s # {}
      <3>1. PICK x \in s : TRUE BY <2>2
      <3> DEFINE r == s \ {x}  y == k[x]  g == GroupSums(f, k, s, T)  h == GroupSums(f, k, r, T)
      <3>2. IsFiniteSet(s) /\ IsFiniteSet(r) /\ IntegersOn(f, s) /\ IntegersOn(f, r) /\ r \in SUBSET S
        BY Smaller DEF IntegersOn
      <3>3. SumOf(f, s) = f[x] + SumOf(f, r) BY <3>2, TotalRemoves
      <3>4. SumOf(h, T) = SumOf(f, r) BY <1>2
      <3>5. SumOf(g, T) # SumOf(f, s) OBVIOUS
      <3>6. y \in T OBVIOUS
      <3>7. Group(k, r, y) = Group(k, s, y) \ {x} /\ x \in Group(k, s, y) BY DEF Group
      <3>9. \A t \in T \ {y} : Group(k, s, t) = Group(k, r, t) BY DEF Group
      <3>14. SumOf(f, r) \in Int BY <3>2, TotalInt
      <3>15. f[x] \in Int BY DEF IntegersOn
      <3>16. s \in SUBSET S OBVIOUS
      <3> HIDE DEF r, y, B
      <3>8. SumOf(f, Group(k, s, y)) = f[x] + SumOf(f, Group(k, r, y))
        <4>1. IsFiniteSet(Group(k, s, y)) /\ IntegersOn(f, Group(k, s, y)) BY <1>1, <3>6, <3>16
        <4> QED BY <3>7, <4>1, TotalRemoves
      <3>10. SameOn(g, h, T \ {y}) BY <3>9 DEF SameOn, GroupSums
      <3>11. IntegersOn(g, T) /\ IntegersOn(h, T) BY <1>1, <3>2, <3>16 DEF IntegersOn
      <3>12. g[y] = f[x] + h[y] /\ h[y] \in Int BY <1>1, <3>2, <3>6, <3>8, <3>16
      <3> HIDE DEF g, h
      <3>13. SumOf(g, T) = SumOf(h, T) - h[y] + g[y] BY <3>6, <3>10, <3>11, TotalUpdates
      <3> QED BY <3>3, <3>4, <3>5, <3>12, <3>13, <3>14, <3>15
    <2> QED BY <2>1, <2>2
  <1> QED BY <1>2, LeastSet

\* A set without two different elements has at most one.
LEMMA AtMostOne ==
  ASSUME NEW S, \A x, y \in S : x = y
  PROVE  IsFiniteSet(S) /\ Cardinality(S) <= 1
  <1>1. CASE S = {} BY <1>1, FS_EmptySet
  <1>2. CASE S # {}
    <2>1. PICK x : S = {x} BY <1>2
    <2>2. Cardinality({x}) = 1 /\ IsFiniteSet({x}) BY FS_Singleton
    <2> QED BY <2>1, <2>2
  <1> QED BY <1>1, <1>2
===============================================================================
