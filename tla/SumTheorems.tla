---------------------------- MODULE SumTheorems ----------------------------
(***************************************************************************)
(* Sums over finite sets, for the proofs about what the contracts hold and *)
(* what the books of the service add up to.  SumFunctionOnSet(f, S) of the *)
(* community module Functions is defined by choosing a family of partial   *)
(* sums; that there is one and only one is proved here from the well-      *)
(* foundedness of the natural numbers, by a smallest counterexample, and   *)
(* everything else follows by the induction on subsets that it gives.      *)
(***************************************************************************)
EXTENDS Integers, Functions, FiniteSetTheorems, TLAPS

\* A set of natural numbers that is not empty has a least member.
LEMMA Least ==
  ASSUME NEW N \in SUBSET Nat, N # {}
  PROVE  \E n \in N : \A m \in N : n <= m
<1> DEFINE R == {ss \in Nat \X Nat : ss[1] < ss[2]}
<1>1. IsWellFoundedOn(R, Nat)
  BY NatLessThanWellFounded DEF OpToRel
<1>2. PICK n \in N : \A m \in N : <<m, n>> \notin R
  <2> HIDE DEF R
  <2> QED BY <1>1, WFMin
<1>3. ASSUME NEW m \in N PROVE n <= m
  <2>1. <<m, n>> \notin R /\ m \in Nat /\ n \in Nat BY <1>2
  <2>2. ~(m < n) BY <2>1
  <2> QED BY <2>1, <2>2
<1>4. QED BY <1>3

\* A family of finite sets that is not empty has a smallest member.
LEMMA Smallest ==
  ASSUME NEW Bad, Bad # {}, \A T \in Bad : IsFiniteSet(T)
  PROVE  \E T \in Bad : \A U \in Bad : Cardinality(T) <= Cardinality(U)
<1> DEFINE N == {Cardinality(T) : T \in Bad}
<1>1. N \in SUBSET Nat /\ N # {}
  BY FS_CardinalityType
<1>2. PICK n \in N : \A m \in N : n <= m
  <2> HIDE DEF N
  <2> QED BY <1>1, Least
<1>3. PICK T \in Bad : Cardinality(T) = n
  OBVIOUS
<1>4. QED BY <1>2, <1>3

-----------------------------------------------------------------------------
\* The element that the definition of a sum takes out of a set first.
FirstOf(T) == CHOOSE x \in T : TRUE

\* What a family F of sums makes of T when f is added up.
AddsUp(F, f, T) == IF T = {} THEN 0 ELSE f[FirstOf(T)] + F[T \ {FirstOf(T)}]

\* Taking out the element that the definition of a sum takes out.
LEMMA TakeFirst ==
  ASSUME NEW S, IsFiniteSet(S), NEW T \in SUBSET S, T # {}
  PROVE  /\ FirstOf(T) \in T /\ T \ {FirstOf(T)} \in SUBSET S
         /\ IsFiniteSet(T) /\ IsFiniteSet(T \ {FirstOf(T)})
         /\ Cardinality(T) \in Nat /\ Cardinality(T \ {FirstOf(T)}) = Cardinality(T) - 1
<1>1. FirstOf(T) \in T BY DEF FirstOf
<1>2. IsFiniteSet(T) BY FS_Subset
<1>3. QED BY <1>1, <1>2, FS_RemoveElement, FS_CardinalityType

\* The definition of a sum, expanded once.
LEMMA SumUnfolds ==
  ASSUME NEW f, NEW S
  PROVE  SumFunctionOnSet(f, S) = (CHOOSE F : F = [T \in SUBSET S |-> AddsUp(F, f, T)])[S]
BY Zenon DEF SumFunctionOnSet, FoldFunctionOnSet, MapThenFoldSet, AddsUp, FirstOf

\* There are partial sums of the subsets of a finite set ...
LEMMA PartialSums ==
  ASSUME NEW f, NEW S, IsFiniteSet(S)
  PROVE  \E F : F = [T \in SUBSET S |-> AddsUp(F, f, T)]
<1> DEFINE Upto(n, F) == /\ F = [T \in SUBSET S |-> F[T]]
                         /\ \A T \in SUBSET S : Cardinality(T) <= n => F[T] = AddsUp(F, f, T)
           N == {n \in Nat : ~ \E F : Upto(n, F)}
<1>1. N = {}
  <2> SUFFICES ASSUME N # {} PROVE FALSE OBVIOUS
  <2>1. PICK n \in N : \A m \in N : n <= m
    <3> HIDE DEF Upto
    <3>1. N \in SUBSET Nat OBVIOUS
    <3> HIDE DEF N
    <3> QED BY <3>1, Least
  <2>2. CASE n = 0
    <3> DEFINE F == [T \in SUBSET S |-> 0]
    <3>1. ASSUME NEW T \in SUBSET S, Cardinality(T) <= 0 PROVE F[T] = AddsUp(F, f, T)
      <4>1. T = {} BY <3>1, FS_Subset, FS_EmptySet, FS_CardinalityType
      <4> QED BY <4>1 DEF AddsUp
    <3>2. Upto(0, F) BY <3>1
    <3> QED BY <2>2, <3>2
  <2>3. CASE n # 0
    <3>1. n - 1 \in Nat /\ n \in Nat BY <2>3
    <3>2. n - 1 \notin N
      <4> HIDE DEF N
      <4> QED BY <2>1, <3>1
    <3>3. PICK F : Upto(n - 1, F) BY <3>1, <3>2
    <3> DEFINE G == [T \in SUBSET S |-> AddsUp(F, f, T)]
    <3>4. ASSUME NEW T \in SUBSET S, Cardinality(T) <= n PROVE G[T] = AddsUp(G, f, T)
      <4>1. CASE T = {} BY <4>1 DEF AddsUp
      <4>2. CASE T # {}
        <5>1. /\ T \ {FirstOf(T)} \in SUBSET S /\ Cardinality(T) \in Nat
              /\ Cardinality(T \ {FirstOf(T)}) = Cardinality(T) - 1
          BY <4>2, TakeFirst
        <5>2. F[T \ {FirstOf(T)}] = AddsUp(F, f, T \ {FirstOf(T)})
          <6>1. Cardinality(T \ {FirstOf(T)}) <= n - 1 BY <3>1, <3>4, <5>1
          <6> QED BY <3>3, <5>1, <6>1
        <5>3. G[T \ {FirstOf(T)}] = F[T \ {FirstOf(T)}] BY <5>1, <5>2
        <5> QED BY <4>2, <5>3 DEF AddsUp
      <4> QED BY <4>1, <4>2
    <3>5. G = [T \in SUBSET S |-> G[T]] OBVIOUS
    <3>6. Upto(n, G) BY <3>4, <3>5
    <3> QED BY <3>6
  <2> QED BY <2>2, <2>3
<1>2. Cardinality(S) \in Nat BY FS_CardinalityType
<1>3. PICK F : Upto(Cardinality(S), F) BY <1>1, <1>2
<1>4. \A T \in SUBSET S : Cardinality(T) <= Cardinality(S) BY FS_Subset
<1>5. \A T \in SUBSET S : F[T] = AddsUp(F, f, T) BY <1>3, <1>4
<1>6. F = [T \in SUBSET S |-> AddsUp(F, f, T)] BY <1>3, <1>5
<1>7. QED BY <1>6

\* F is a family of sums over the subsets of S.
SumsUp(F, f, S) == \A T \in SUBSET S : F[T] = AddsUp(F, f, T)

\* ... and only one family of them.
LEMMA OnePartialSum ==
  ASSUME NEW f, NEW S, IsFiniteSet(S), NEW F, NEW G, SumsUp(F, f, S), SumsUp(G, f, S)
  PROVE  \A T \in SUBSET S : F[T] = G[T]
<1> DEFINE Bad == {T \in SUBSET S : F[T] # G[T]}
<1>1. SUFFICES ASSUME Bad # {} PROVE FALSE OBVIOUS
<1>2. PICK T \in Bad : \A U \in Bad : Cardinality(T) <= Cardinality(U)
  <2>1. \A T \in Bad : IsFiniteSet(T) BY FS_Subset
  <2> HIDE DEF Bad
  <2> QED BY <1>1, <2>1, Smallest
<1>3. T # {} BY DEF AddsUp, SumsUp
<1>4. /\ T \ {FirstOf(T)} \in SUBSET S /\ Cardinality(T) \in Nat
      /\ Cardinality(T \ {FirstOf(T)}) = Cardinality(T) - 1
  BY <1>3, TakeFirst
<1>5. T \ {FirstOf(T)} \notin Bad
  <2>1. ~(Cardinality(T) <= Cardinality(T \ {FirstOf(T)})) BY <1>4
  <2> HIDE DEF Bad
  <2> QED BY <1>2, <2>1
<1>6. F[T \ {FirstOf(T)}] = G[T \ {FirstOf(T)}] BY <1>4, <1>5
<1>7. QED BY <1>3, <1>6 DEF AddsUp, SumsUp

\* A sum unfolds: nothing, or one value and the sum of the rest.
LEMMA SumStep ==
  ASSUME NEW f, NEW S, IsFiniteSet(S), NEW T \in SUBSET S
  PROVE  SumFunctionOnSet(f, T)
           = IF T = {} THEN 0 ELSE f[FirstOf(T)] + SumFunctionOnSet(f, T \ {FirstOf(T)})
<1> DEFINE C(R) == CHOOSE F : F = [U \in SUBSET R |-> AddsUp(F, f, U)]
<1>1. ASSUME NEW R \in SUBSET S
      PROVE  C(R) = [U \in SUBSET R |-> AddsUp(C(R), f, U)]
  <2>1. IsFiniteSet(R) BY FS_Subset
  <2>2. \E F : F = [U \in SUBSET R |-> AddsUp(F, f, U)] BY <2>1, PartialSums, Zenon
  <2> QED BY <2>2, Zenon
<1>2. ASSUME NEW R \in SUBSET S PROVE SumFunctionOnSet(f, R) = C(S)[R]
  <2>1. SumFunctionOnSet(f, R) = C(R)[R] BY SumUnfolds
  <2>2. SumsUp(C(R), f, R)
    <3> DEFINE c == C(R)
    <3>1. c = [U \in SUBSET R |-> AddsUp(c, f, U)] BY <1>1
    <3> HIDE DEF c
    <3>2. SumsUp(c, f, R) BY <3>1 DEF SumsUp
    <3> QED BY <3>2 DEF c
  <2>3. SumsUp(C(S), f, R)
    <3> DEFINE c == C(S)
    <3>1. c = [U \in SUBSET S |-> AddsUp(c, f, U)] BY <1>1
    <3> HIDE DEF c
    <3>2. SumsUp(c, f, R) BY <3>1 DEF SumsUp
    <3> QED BY <3>2 DEF c
  <2>4. C(R)[R] = C(S)[R]
    <3> DEFINE c == C(R)  d == C(S)
    <3>1. SumsUp(c, f, R) /\ SumsUp(d, f, R) BY <2>2, <2>3
    <3>2. IsFiniteSet(R) BY FS_Subset
    <3> HIDE DEF c, d
    <3>3. \A U \in SUBSET R : c[U] = d[U] BY <3>1, <3>2, OnePartialSum
    <3>4. c[R] = d[R] BY <3>3
    <3> QED BY <3>4 DEF c, d
  <2> QED BY <2>1, <2>4
<1>3. C(S)[T] = AddsUp(C(S), f, T)
  <2> DEFINE c == C(S)
  <2>1. c = [U \in SUBSET S |-> AddsUp(c, f, U)] BY <1>1
  <2> HIDE DEF c
  <2>2. c[T] = AddsUp(c, f, T) BY <2>1
  <2> QED BY <2>2 DEF c
<1> DEFINE s(R) == SumFunctionOnSet(f, R)  d(R) == C(S)[R]
<1>4. s(T) = d(T) /\ s(T \ {FirstOf(T)}) = d(T \ {FirstOf(T)}) BY <1>2
<1>5. d(T) = IF T = {} THEN 0 ELSE f[FirstOf(T)] + d(T \ {FirstOf(T)}) BY <1>3 DEF AddsUp
<1> HIDE DEF d
<1>6. QED BY <1>4, <1>5

-----------------------------------------------------------------------------
\* Induction on the subsets of a finite set: a set of them that holds the empty one, and
\* every one of which it holds all that have an element less, holds them all.
LEMMA SubsetInduction ==
  ASSUME NEW S, IsFiniteSet(S), NEW Good, {} \in Good,
         \A T \in SUBSET S : T # {} /\ (\A x \in T : T \ {x} \in Good) => T \in Good
  PROVE  S \in Good
<1> DEFINE Bad == {T \in SUBSET S : T \notin Good}
<1>1. SUFFICES ASSUME Bad # {} PROVE FALSE
  OBVIOUS
<1>2. PICK T \in Bad : \A U \in Bad : Cardinality(T) <= Cardinality(U)
  <2>1. \A T \in Bad : IsFiniteSet(T) BY FS_Subset
  <2> HIDE DEF Bad
  <2> QED BY <1>1, <2>1, Smallest
<1>3. T \in SUBSET S /\ T \notin Good /\ T # {}
  OBVIOUS
<1>4. PICK x \in T : T \ {x} \notin Good
  BY <1>3
<1>5. IsFiniteSet(T) /\ T \ {x} \in Bad
  BY <1>3, <1>4, FS_Subset
<1>6. Cardinality(T) \in Nat /\ Cardinality(T \ {x}) = Cardinality(T) - 1
  BY <1>5, FS_RemoveElement, FS_CardinalityType
<1>7. ~(Cardinality(T) <= Cardinality(T \ {x}))
  BY <1>6
<1> HIDE DEF Bad
<1> QED BY <1>2, <1>5, <1>7

\* A sum of nothing is 0.
THEOREM SumEmpty ==
  ASSUME NEW f
  PROVE  SumFunctionOnSet(f, {}) = 0
<1>1. {} \in SUBSET {} /\ IsFiniteSet({})
  BY FS_EmptySet
<1> QED BY <1>1, SumStep

\* A sum of zeros is 0.
THEOREM SumZero ==
  ASSUME NEW S, IsFiniteSet(S), NEW f, \A x \in S : f[x] = 0
  PROVE  SumFunctionOnSet(f, S) = 0
<1> DEFINE sum(T) == SumFunctionOnSet(f, T)
           Good == {T \in SUBSET S : sum(T) = 0}
<1>1. {} \in Good
  BY SumEmpty
<1>2. ASSUME NEW T \in SUBSET S, T # {}, \A x \in T : T \ {x} \in Good
      PROVE  T \in Good
  <2>1. FirstOf(T) \in T /\ sum(T) = f[FirstOf(T)] + sum(T \ {FirstOf(T)})
    BY <1>2, TakeFirst, SumStep
  <2> HIDE DEF sum
  <2>2. f[FirstOf(T)] = 0 /\ sum(T \ {FirstOf(T)}) = 0
    BY <1>2, <2>1
  <2> QED BY <2>1, <2>2
<1>3. S \in Good
  <2> HIDE DEF Good
  <2> QED BY <1>1, <1>2, SubsetInduction
<1> QED BY <1>3

\* A sum of integers is an integer.
THEOREM SumInt ==
  ASSUME NEW S, IsFiniteSet(S), NEW f, \A x \in S : f[x] \in Int
  PROVE  SumFunctionOnSet(f, S) \in Int
<1> DEFINE sum(T) == SumFunctionOnSet(f, T)
           Good == {T \in SUBSET S : sum(T) \in Int}
<1>1. {} \in Good
  BY SumEmpty
<1>2. ASSUME NEW T \in SUBSET S, T # {}, \A x \in T : T \ {x} \in Good
      PROVE  T \in Good
  <2>1. FirstOf(T) \in T /\ sum(T) = f[FirstOf(T)] + sum(T \ {FirstOf(T)})
    BY <1>2, TakeFirst, SumStep
  <2> HIDE DEF sum
  <2> QED BY <1>2, <2>1
<1>3. S \in Good
  <2> HIDE DEF Good
  <2> QED BY <1>1, <1>2, SubsetInduction
<1> QED BY <1>3

\* Whichever element is taken out, a sum is its value and the sum of the rest.
THEOREM SumRemove ==
  ASSUME NEW S, IsFiniteSet(S), NEW f, \A x \in S : f[x] \in Int, NEW y \in S
  PROVE  SumFunctionOnSet(f, S) = f[y] + SumFunctionOnSet(f, S \ {y})
<1> DEFINE sum(T) == SumFunctionOnSet(f, T)
           Good == {T \in SUBSET S : \A x \in T : sum(T) = f[x] + sum(T \ {x})}
<1>0. \A T \in SUBSET S : sum(T) \in Int
  <2>1. ASSUME NEW T \in SUBSET S PROVE IsFiniteSet(T) /\ \A x \in T : f[x] \in Int
    BY FS_Subset
  <2> QED BY <2>1, SumInt
<1>s. \A T \in SUBSET S : T # {} => FirstOf(T) \in T /\ sum(T) = f[FirstOf(T)] + sum(T \ {FirstOf(T)})
  BY TakeFirst, SumStep
<1> HIDE DEF sum
<1>1. {} \in Good
  OBVIOUS
<1>2. ASSUME NEW T \in SUBSET S, T # {}, \A x \in T : T \ {x} \in Good
      PROVE  T \in Good
  <2> DEFINE p == FirstOf(T)
  <2>1. p \in T /\ sum(T) = f[p] + sum(T \ {p})
    BY <1>2, <1>s
  <2> HIDE DEF p
  <2>2. ASSUME NEW x \in T, x # p PROVE sum(T) = f[x] + sum(T \ {x})
    <3> DEFINE U == (T \ {p}) \ {x}
    <3>1. sum(T \ {p}) = f[x] + sum(U)
      BY <1>2, <2>1, <2>2
    <3>2. sum(T \ {x}) = f[p] + sum(U)
      <4>1. U = (T \ {x}) \ {p} /\ p \in T \ {x}
        BY <2>1, <2>2
      <4> HIDE DEF U
      <4>2. T \ {x} \in Good
        BY <1>2
      <4> QED BY <4>1, <4>2
    <3>3. U \in SUBSET S
      OBVIOUS
    <3> HIDE DEF U
    <3>4. sum(U) \in Int /\ f[x] \in Int /\ f[p] \in Int
      BY <1>0, <2>1, <3>3
    <3> HIDE DEF Good
    <3> QED BY <2>1, <3>1, <3>2, <3>4
  <2>3. \A x \in T : sum(T) = f[x] + sum(T \ {x})
    BY <2>1, <2>2
  <2> QED BY <2>3
<1>3. S \in Good
  <2> HIDE DEF Good
  <2> QED BY <1>1, <1>2, SubsetInduction
<1>4. sum(S) = f[y] + sum(S \ {y})
  BY <1>3
<1> QED BY <1>4 DEF sum

\* Functions that agree on a set have the same sum over it.
THEOREM SumAgree ==
  ASSUME NEW S, IsFiniteSet(S), NEW f, NEW g, \A x \in S : f[x] = g[x]
  PROVE  SumFunctionOnSet(f, S) = SumFunctionOnSet(g, S)
<1> DEFINE sf(T) == SumFunctionOnSet(f, T)
           sg(T) == SumFunctionOnSet(g, T)
           Good == {T \in SUBSET S : sf(T) = sg(T)}
<1>1. {} \in Good
  BY SumEmpty
<1>2. ASSUME NEW T \in SUBSET S, T # {}, \A x \in T : T \ {x} \in Good
      PROVE  T \in Good
  <2>1. /\ FirstOf(T) \in T
        /\ sf(T) = f[FirstOf(T)] + sf(T \ {FirstOf(T)})
        /\ sg(T) = g[FirstOf(T)] + sg(T \ {FirstOf(T)})
    BY <1>2, TakeFirst, SumStep
  <2> HIDE DEF sf, sg
  <2>2. sf(T \ {FirstOf(T)}) = sg(T \ {FirstOf(T)})
    BY <1>2, <2>1
  <2> QED BY <2>1, <2>2
<1>3. S \in Good
  <2> HIDE DEF Good
  <2> QED BY <1>1, <1>2, SubsetInduction
<1> QED BY <1>3

\* A sum of natural numbers is a natural number.
THEOREM SumNat ==
  ASSUME NEW S, IsFiniteSet(S), NEW f, \A x \in S : f[x] \in Nat
  PROVE  SumFunctionOnSet(f, S) \in Nat
<1> DEFINE sum(T) == SumFunctionOnSet(f, T)
           Good == {T \in SUBSET S : sum(T) \in Nat}
<1>1. {} \in Good
  BY SumEmpty
<1>2. ASSUME NEW T \in SUBSET S, T # {}, \A x \in T : T \ {x} \in Good
      PROVE  T \in Good
  <2>1. FirstOf(T) \in T /\ sum(T) = f[FirstOf(T)] + sum(T \ {FirstOf(T)})
    BY <1>2, TakeFirst, SumStep
  <2> HIDE DEF sum
  <2> QED BY <1>2, <2>1
<1>3. S \in Good
  <2> HIDE DEF Good
  <2> QED BY <1>1, <1>2, SubsetInduction
<1> QED BY <1>3

\* When one value changes, the sum changes by the difference.
THEOREM SumChange ==
  ASSUME NEW S, IsFiniteSet(S), NEW f, NEW g, NEW y \in S,
         \A x \in S : f[x] \in Int /\ g[x] \in Int,
         \A x \in S \ {y} : f[x] = g[x]
  PROVE  SumFunctionOnSet(g, S) = SumFunctionOnSet(f, S) - f[y] + g[y]
<1> DEFINE rest(h) == SumFunctionOnSet(h, S \ {y})
           sum(h) == SumFunctionOnSet(h, S)
<1>1. IsFiniteSet(S \ {y})
  BY FS_RemoveElement
<1>2. rest(f) = rest(g) /\ rest(f) \in Int
  BY <1>1, SumAgree, SumInt
<1>3. sum(f) = f[y] + rest(f) /\ sum(g) = g[y] + rest(g)
  BY SumRemove
<1> HIDE DEF rest, sum
<1>4. sum(g) = sum(f) - f[y] + g[y]
  BY <1>2, <1>3
<1> QED BY <1>4 DEF sum

\* An element that is added adds its value.
THEOREM SumAdd ==
  ASSUME NEW S, IsFiniteSet(S), NEW f, NEW y, y \notin S,
         \A x \in S \cup {y} : f[x] \in Int
  PROVE  SumFunctionOnSet(f, S \cup {y}) = f[y] + SumFunctionOnSet(f, S)
<1>1. IsFiniteSet(S \cup {y}) /\ (S \cup {y}) \ {y} = S
  BY FS_AddElement
<1> DEFINE U == S \cup {y}
<1>2. y \in U /\ IsFiniteSet(U) /\ U \ {y} = S
  BY <1>1
<1> HIDE DEF U
<1>3. SumFunctionOnSet(f, U) = f[y] + SumFunctionOnSet(f, S)
  BY <1>2, SumRemove DEF U
<1> QED BY <1>3 DEF U

\* Elements that count for nothing may be left out.
THEOREM SumSupport ==
  ASSUME NEW S, IsFiniteSet(S), NEW f, \A x \in S : f[x] \in Int,
         NEW R \in SUBSET S, \A x \in S \ R : f[x] = 0
  PROVE  SumFunctionOnSet(f, S) = SumFunctionOnSet(f, R)
<1> DEFINE sum(T) == SumFunctionOnSet(f, T)
           Good == {T \in SUBSET (S \ R) : sum(R \cup T) = sum(R)}
<1>0. IsFiniteSet(R) /\ IsFiniteSet(S \ R)
  BY FS_Subset
<1>1. {} \in Good
  OBVIOUS
<1>2. ASSUME NEW T \in SUBSET (S \ R), T # {}, \A x \in T : T \ {x} \in Good
      PROVE  T \in Good
  <2>1. PICK x \in T : TRUE
    BY <1>2
  <2> DEFINE U == R \cup (T \ {x})
  <2>2. IsFiniteSet(U) /\ x \notin U /\ R \cup T = U \cup {x}
    BY <2>1, FS_Subset
  <2>3. sum(U \cup {x}) = f[x] + sum(U)
    <3>1. \A z \in U \cup {x} : f[z] \in Int
      BY <2>1
    <3> HIDE DEF U
    <3> QED BY <2>2, <3>1, SumAdd
  <2>4. sum(U) = sum(R) /\ f[x] = 0
    BY <1>2, <2>1
  <2>5. sum(R) \in Int
    BY <1>0, SumInt
  <2> HIDE DEF sum, U
  <2>6. f[x] + sum(U) = sum(R)
    BY <2>4, <2>5
  <2>7. sum(R \cup T) = sum(U \cup {x})
    BY <2>2
  <2>8. sum(R \cup T) = sum(R)
    BY <2>3, <2>6, <2>7
  <2> QED BY <2>8
<1>3. S \ R \in Good
  <2> HIDE DEF Good
  <2> QED BY <1>0, <1>1, <1>2, SubsetInduction
<1>4. R \cup (S \ R) = S
  OBVIOUS
<1> QED BY <1>3, <1>4

\* A part of natural numbers adds up to no more than the whole.
THEOREM SumPart ==
  ASSUME NEW S, IsFiniteSet(S), NEW f, \A x \in S : f[x] \in Nat, NEW R \in SUBSET S
  PROVE  SumFunctionOnSet(f, R) <= SumFunctionOnSet(f, S)
<1> DEFINE sum(T) == SumFunctionOnSet(f, T)
           Good == {T \in SUBSET (S \ R) : sum(R) <= sum(R \cup T)}
<1>0. /\ IsFiniteSet(R) /\ IsFiniteSet(S \ R) /\ sum(R) \in Nat
      /\ \A T \in SUBSET S : sum(T) \in Nat
  <2>1. ASSUME NEW T \in SUBSET S PROVE IsFiniteSet(T) /\ \A x \in T : f[x] \in Nat
    BY FS_Subset
  <2> QED BY <2>1, SumNat, FS_Subset
<1>1. {} \in Good
  <2> HIDE DEF sum
  <2>1. R \cup {} = R /\ sum(R) <= sum(R)
    BY <1>0
  <2> QED BY <2>1
<1>2. ASSUME NEW T \in SUBSET (S \ R), T # {}, \A x \in T : T \ {x} \in Good
      PROVE  T \in Good
  <2>1. PICK x \in T : TRUE
    BY <1>2
  <2> DEFINE U == R \cup (T \ {x})
  <2>2. IsFiniteSet(U) /\ x \notin U /\ R \cup T = U \cup {x}
    BY <2>1, FS_Subset
  <2>3. sum(U \cup {x}) = f[x] + sum(U)
    <3>1. \A z \in U \cup {x} : f[z] \in Int
      BY <2>1
    <3> HIDE DEF U
    <3> QED BY <2>2, <3>1, SumAdd
  <2>4. sum(R) <= sum(U) /\ f[x] \in Nat /\ sum(U) \in Nat
    BY <1>0, <1>2, <2>1
  <2> HIDE DEF sum, U
  <2>5. sum(R) <= sum(R \cup T)
    BY <1>0, <2>2, <2>3, <2>4
  <2> QED BY <2>5
<1>3. S \ R \in Good
  <2> HIDE DEF Good
  <2> QED BY <1>0, <1>1, <1>2, SubsetInduction
<1>4. R \cup (S \ R) = S
  OBVIOUS
<1> QED BY <1>3, <1>4
=============================================================================
