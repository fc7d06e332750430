----------------------------- MODULE Recursion -----------------------------
(***************************************************************************)
(* Induction and recursion, for the proofs about functions that are        *)
(* defined by recursion and about the folds of the community modules.      *)
(***************************************************************************)
EXTENDS Integers, Sequences, FiniteSets, SequencesExt, FiniteSetTheorems, WellFoundedInduction, TLAPS

----------------------------------------------------------------------------
(* Induction and recursion along a walk that ends.                         *)

\* From every member of D, steps of p lead to root.
Grounded(D, root, p) ==
  /\ root \in D
  /\ \A x \in D \ {root} : p[x] \in D
  /\ \A S \in SUBSET D : S # {} => \E x \in S : x = root \/ p[x] \notin S

\* What holds at the root, and of a member whenever it holds of the next one
\* on the walk, holds of all.
LEMMA WalkInduction ==
  ASSUME NEW D, NEW root, NEW p, Grounded(D, root, p),
         NEW S, root \in S,
         \A x \in D \ {root} : p[x] \in S => x \in S
  PROVE  D \subseteq S
<1> SUFFICES ASSUME D \ S # {} PROVE FALSE
  OBVIOUS
<1>1. PICK x \in D \ S : x = root \/ p[x] \notin D \ S
  BY DEF Grounded
<1> QED
  BY <1>1 DEF Grounded

\* G makes a value for a member of D out of the value of the next one.
IsRule(G, D, V) == \A x \in D : \A v \in V : G[x][v] \in V

\* A value at the root and a rule for every other member define a function.
LEMMA WalkRecursion ==
  ASSUME NEW D, NEW root, NEW p, Grounded(D, root, p),
         NEW V, NEW e \in V,
         NEW G, IsRule(G, D, V)
  PROVE  \E f \in [D -> V] :
           \A x \in D : f[x] = IF x = root THEN e ELSE G[x][f[p[x]]]
<1> DEFINE Closed(R) ==
             /\ <<root, e>> \in R
             /\ \A x \in D \ {root} : \A v \in V :
                  <<p[x], v>> \in R => <<x, G[x][v]>> \in R
           M == {r \in D \X V : \A R \in SUBSET (D \X V) : Closed(R) => r \in R}
<1>1. root \in D /\ \A x \in D \ {root} : p[x] \in D
  BY DEF Grounded
<1>2. \A x \in D : \A v \in V : G[x][v] \in V
  BY DEF IsRule
<1>3. Closed(M)
  <2>1. <<root, e>> \in M
    BY <1>1
  <2>2. ASSUME NEW x \in D \ {root}, NEW v \in V, <<p[x], v>> \in M
        PROVE  <<x, G[x][v]>> \in M
    BY <1>2, <2>2
  <2> QED
    BY <2>1, <2>2
<1>4. \A x \in D : \E v \in V : <<x, v>> \in M
  <2> DEFINE S == {x \in D : \E v \in V : <<x, v>> \in M}
  <2>1. root \in S
    BY <1>1, <1>3
  <2>2. ASSUME NEW x \in D \ {root}, p[x] \in S PROVE x \in S
    <3>1. PICK v \in V : <<p[x], v>> \in M
      BY <2>2
    <3>2. <<x, G[x][v]>> \in M
      BY <1>3, <3>1
    <3> QED
      BY <1>2, <3>2
  <2> HIDE DEF S, M
  <2>3. D \subseteq S
    BY <2>1, <2>2, WalkInduction
  <2> QED
    BY <2>3 DEF S
<1>5. \A x \in D : \A v, w \in V : <<x, v>> \in M /\ <<x, w>> \in M => v = w
  <2> DEFINE S == {x \in D : \A v, w \in V :
                               <<x, v>> \in M /\ <<x, w>> \in M => v = w}
  <2>0. ASSUME NEW r \in M, Closed(M \ {r}) PROVE FALSE
    <3>1. M \ {r} \in SUBSET (D \X V)
      OBVIOUS
    <3> QED
      BY <2>0, <3>1
  <2>1. root \in S
    <3> SUFFICES ASSUME NEW w \in V, <<root, w>> \in M PROVE w = e
      BY <1>1
    <3>1. w # e => Closed(M \ {<<root, w>>})
      BY <1>3
    <3> QED
      BY <2>0, <3>1
  <2>2. ASSUME NEW x \in D \ {root}, p[x] \in S PROVE x \in S
    <3>1. PICK v \in V : <<p[x], v>> \in M
      BY <1>1, <1>4
    <3>2. \A w \in V : <<p[x], w>> \in M => w = v
      BY <2>2, <3>1
    <3>3. ASSUME NEW w \in V, <<x, w>> \in M, w # G[x][v] PROVE FALSE
      <4> DEFINE N == M \ {<<x, w>>}
      <4>1. <<root, e>> \in N
        BY <1>3
      <4>2. ASSUME NEW y \in D \ {root}, NEW u \in V, <<p[y], u>> \in N
            PROVE  <<y, G[y][u]>> \in N
        <5>1. <<y, G[y][u]>> \in M
          BY <1>3, <4>2
        <5>2. <<y, G[y][u]>> # <<x, w>>
          BY <3>2, <3>3, <4>2
        <5> QED
          BY <5>1, <5>2
      <4>3. Closed(N)
        BY <4>1, <4>2
      <4> QED
        BY <2>0, <3>3, <4>3
    <3> QED
      BY <3>3
  <2> HIDE DEF S, M
  <2>3. D \subseteq S
    BY <2>1, <2>2, WalkInduction
  <2> QED
    BY <2>3 DEF S
<1> DEFINE f == [x \in D |-> CHOOSE v \in V : <<x, v>> \in M]
<1>6. \A x \in D : f[x] \in V /\ <<x, f[x]>> \in M
  BY <1>4
<1>7. ASSUME NEW x \in D PROVE f[x] = IF x = root THEN e ELSE G[x][f[p[x]]]
  <2>1. CASE x = root
    BY <1>3, <1>5, <1>6, <2>1
  <2>2. CASE x # root
    <3>1. p[x] \in D /\ f[p[x]] \in V /\ <<p[x], f[p[x]]>> \in M
      BY <1>1, <1>6, <2>2
    <3>2. <<x, G[x][f[p[x]]]>> \in M
      BY <1>3, <2>2, <3>1
    <3>3. G[x][f[p[x]]] \in V
      BY <1>2, <3>1
    <3> HIDE DEF f, M
    <3> QED
      BY <1>5, <1>6, <2>2, <3>2, <3>3
  <2> QED
    BY <2>1, <2>2
<1>8. f \in [D -> V]
  BY <1>6
<1> QED
  BY <1>7, <1>8

\* A set of numbers that is not empty has a least one.
LEMMA LeastNumber ==
  ASSUME NEW T, T \subseteq Nat, T # {}
  PROVE  \E n \in T : \A m \in T : n <= m
<1> DEFINE R == {ss \in Nat \X Nat : ss[1] < ss[2]}
<1>1. IsWellFoundedOn(R, Nat)
  BY NatLessThanWellFounded, Zenon DEF OpToRel
<1>2. PICK n \in T : \A m \in T : <<m, n>> \notin R
  BY <1>1, WFMin
<1>3. \A m \in T : ~ (m < n)
  <2> SUFFICES ASSUME NEW m \in T, m < n PROVE FALSE
    OBVIOUS
  <2>1. <<m, n>> \in Nat \X Nat /\ <<m, n>>[1] = m /\ <<m, n>>[2] = n
    OBVIOUS
  <2> QED
    BY <1>2, <2>1
<1> QED
  BY <1>3

\* Counting down from n ends at 0.
LEMMA CountdownGrounded ==
  ASSUME NEW n \in Nat
  PROVE  Grounded(0..n, 0, [i \in 0..n |-> i - 1])
<1> DEFINE p == [i \in 0..n |-> i - 1]
<1>1. ASSUME NEW S \in SUBSET (0..n), S # {} PROVE \E x \in S : x = 0 \/ p[x] \notin S
  <2>0. S \subseteq Nat
    OBVIOUS
  <2>1. PICK x \in S : \A m \in S : x <= m
    BY <1>1, <2>0, LeastNumber
  <2>2. CASE x # 0
    <3>1. x \in 1..n /\ p[x] = x - 1
      BY <2>2
    <3>2. x - 1 \notin S
      BY <2>1, <3>1
    <3> QED
      BY <3>1, <3>2
  <2> QED
    BY <2>2
<1>2. 0 \in 0..n /\ \A x \in (0..n) \ {0} : p[x] \in 0..n
  OBVIOUS
<1> QED
  BY <1>1, <1>2 DEF Grounded

\* What holds of 0 and of i + 1 whenever of i < n holds up to n.
LEMMA CountInduction ==
  ASSUME NEW n \in Nat, NEW S, 0 \in S,
         \A i \in 1..n : i - 1 \in S => i \in S
  PROVE  0..n \subseteq S
<1> DEFINE p == [i \in 0..n |-> i - 1]
<1>1. \A x \in (0..n) \ {0} : p[x] \in S => x \in S
  OBVIOUS
<1>2. Grounded(0..n, 0, p)
  BY CountdownGrounded
<1> HIDE DEF p
<1> QED
  BY <1>1, <1>2, WalkInduction

----------------------------------------------------------------------------
(* Folds take one element after another out of a finite set.               *)

\* Taking elements out of a finite set ends with the empty set.
LEMMA SubsetsGrounded ==
  ASSUME NEW S, IsFiniteSet(S), NEW pick, \A s \in SUBSET S : s # {} => pick[s] \in s
  PROVE  Grounded(SUBSET S, {}, [s \in SUBSET S |-> s \ {pick[s]}])
<1> DEFINE D == SUBSET S
           p == [s \in D |-> s \ {pick[s]}]
<1>1. ASSUME NEW T \in SUBSET D, T # {} PROVE \E x \in T : x = {} \/ p[x] \notin T
  <2> DEFINE R == StrictSubsetOrdering(S)
  <2>1. IsWellFoundedOn(R, FiniteSubsetsOf(S))
    BY FS_StrictSubsetOrderingWellFounded
  <2>2. T \subseteq FiniteSubsetsOf(S)
    BY FS_Subset DEF FiniteSubsetsOf
  <2>3. PICK x \in T : \A y \in T : <<y, x>> \notin R
    <3> HIDE DEF R
    <3> QED
      BY <1>1, <2>1, <2>2, WFMin
  <2>4. CASE x # {}
    <3>1. p[x] = x \ {pick[x]} /\ pick[x] \in x
      BY <2>4
    <3>2. p[x] \subseteq x /\ p[x] # x /\ x \subseteq S
      BY <3>1
    <3>3. p[x] \in T => <<p[x], x>> \in R
      <4> SUFFICES ASSUME p[x] \in T PROVE <<p[x], x>> \in R
        OBVIOUS
      <4> HIDE DEF p
      <4> QED
        BY <3>2 DEF StrictSubsetOrdering
    <3> QED
      BY <3>3, <2>3
  <2> QED
    BY <2>4
<1>2. {} \in D /\ \A x \in D \ {{}} : p[x] \in D
  OBVIOUS
<1> QED
  BY <1>1, <1>2 DEF Grounded

\* A choice of an element from every subset, and the function that takes the
\* elements of a set one by one, each with its rule.
Picks(pick, S) == \A s \in SUBSET S : s # {} => pick[s] \in s
IsFold(f, S, pick, e, G) ==
  \A s \in SUBSET S : f[s] = IF s = {} THEN e ELSE G[pick[s]][f[s \ {pick[s]}]]

\* A value for the empty set and a rule for each element define a function of
\* the subsets.
LEMMA SetRecursion ==
  ASSUME NEW S, IsFiniteSet(S), NEW pick, Picks(pick, S),
         NEW V, NEW e \in V, NEW G, IsRule(G, S, V)
  PROVE  \E f \in [SUBSET S -> V] : IsFold(f, S, pick, e, G)
<1> USE DEF Picks, IsFold
<1> DEFINE D == SUBSET S
           p == [s \in D |-> s \ {pick[s]}]
           H == [s \in D |-> [v \in V |-> IF s = {} THEN v ELSE G[pick[s]][v]]]
           none == {}
<1>1. Grounded(D, none, p)
  BY SubsetsGrounded
<1>2. IsRule(H, D, V)
  BY DEF IsRule
<1>3. PICK f \in [D -> V] : \A s \in D : f[s] = IF s = none THEN e ELSE H[s][f[p[s]]]
  <2> HIDE DEF D, p, H, none
  <2> QED
    BY <1>1, <1>2, WalkRecursion
<1>4. ASSUME NEW s \in D, s # {}
      PROVE  f[s] = G[pick[s]][f[s \ {pick[s]}]]
  <2>1. p[s] = s \ {pick[s]} /\ p[s] \in D
    OBVIOUS
  <2>2. f[p[s]] \in V
    BY <2>1
  <2>3. H[s][f[p[s]]] = G[pick[s]][f[p[s]]]
    BY <1>4, <2>2
  <2> HIDE DEF D, p, H
  <2> QED
    BY <1>3, <1>4, <2>1, <2>3
<1>5. f[{}] = e
  BY <1>3
<1> QED
  BY <1>4, <1>5

\* The greatest number of a set up to n, and of an interval.
LEMMA MaxIs ==
  ASSUME NEW n \in Nat
  PROVE  /\ \A s \in SUBSET (1..n) : s # {} => Max(s) \in s
         /\ \A k \in 1..n : Max(1..k) = k /\ (1..k) \ {k} = 1..(k - 1) /\ 1..k # {}
<1>1. ASSUME NEW s \in SUBSET (1..n), s # {} PROVE Max(s) \in s
  <2> DEFINE T == {n - i : i \in s}
  <2>1. T \subseteq Nat /\ T # {}
    <3>1. \A i \in s : n - i \in Nat
      OBVIOUS
    <3>2. PICK i \in s : TRUE
      BY <1>1
    <3> QED
      BY <3>1, <3>2
  <2>2. PICK m \in T : \A j \in T : m <= j
    <3> HIDE DEF T
    <3> QED
      BY <2>1, LeastNumber
  <2>3. PICK i \in s : m = n - i
    BY <2>2
  <2>4. \A j \in s : n - i <= n - j
    BY <2>2, <2>3
  <2>5. \A j \in s : i >= j
    BY <2>4
  <2> QED
    BY <2>5 DEF Max
<1>2. ASSUME NEW k \in 1..n PROVE Max(1..k) = k /\ (1..k) \ {k} = 1..(k - 1) /\ 1..k # {}
  <2>1. k \in 1..k /\ \A j \in 1..k : k >= j
    OBVIOUS
  <2>2. \A x \in 1..k : (\A j \in 1..k : x >= j) => x = k
    BY <2>1
  <2>3. Max(1..k) = k
    BY <2>1, <2>2 DEF Max
  <2> QED
    BY <2>1, <2>3
<1> QED
  BY <1>1, <1>2

\* What a fold from the left computes, element by element.
IsFoldLeft(f, n, e, G) ==
  \A s \in SUBSET (1..n) : f[s] = IF s = {} THEN e ELSE G[Max(s)][f[s \ {Max(s)}]]

LEMMA FoldRecursion ==
  ASSUME NEW n \in Nat, NEW V, NEW e \in V, NEW G, IsRule(G, 1..n, V)
  PROVE  \E f \in [SUBSET (1..n) -> V] : IsFoldLeft(f, n, e, G)
<1> DEFINE N == 1..n
           D == SUBSET N
           pick == [s \in D |-> Max(s)]
<1>1. IsFiniteSet(N) /\ IsRule(G, N, V)
  BY FS_Interval
<1>2. Picks(pick, N)
  BY MaxIs DEF Picks
<1>3. PICK f \in [SUBSET N -> V] : IsFold(f, N, pick, e, G)
  <2> HIDE DEF N, D, pick
  <2> QED
    BY <1>1, <1>2, SetRecursion
<1>4. \A s \in D : f[s] = IF s = {} THEN e ELSE G[pick[s]][f[s \ {pick[s]}]]
  <2> HIDE DEF pick
  <2> QED
    BY <1>3 DEF IsFold
<1>5. \A s \in D : pick[s] = Max(s)
  OBVIOUS
<1>6. IsFoldLeft(f, n, e, G)
  <2> HIDE DEF pick
  <2> QED
    BY <1>4, <1>5 DEF IsFoldLeft
<1> QED
  BY <1>6

\* What every turn keeps holds to the end.
LEMMA FoldStays ==
  ASSUME NEW n \in Nat, NEW V, NEW h, h[1..0] \in V,
         \A k \in 1..n : h[1..(k - 1)] \in V => h[1..k] \in V
  PROVE  \A k \in 0..n : h[1..k] \in V
<1> DEFINE T == {k \in 0..n : h[1..k] \in V}
<1>1. 0 \in T /\ \A k \in 1..n : k - 1 \in T => k \in T
  OBVIOUS
<1>2. 0..n \subseteq T
  <2> HIDE DEF T
  <2> QED
    BY <1>1, CountInduction
<1> QED
  BY <1>2

----------------------------------------------------------------------------
(* Sums over finite sets.                                                   *)

\* What holds of a set when it holds of all its smaller subsets, holds of all.
LEMMA SubsetInduction ==
  ASSUME NEW S, IsFiniteSet(S), NEW Good,
         \A s \in SUBSET S : (\A t \in SUBSET s : t # s => t \in Good) => s \in Good
  PROVE  SUBSET S \subseteq Good
<1> DEFINE T == (SUBSET S) \ Good
           R == StrictSubsetOrdering(S)
<1> SUFFICES ASSUME T # {} PROVE FALSE
  OBVIOUS
<1>1. IsWellFoundedOn(R, FiniteSubsetsOf(S))
  BY FS_StrictSubsetOrderingWellFounded
<1>2. T \subseteq FiniteSubsetsOf(S)
  BY FS_Subset DEF FiniteSubsetsOf
<1>3. PICK s \in T : \A t \in T : <<t, s>> \notin R
  <2> HIDE DEF R, T
  <2> QED
    BY <1>1, <1>2, WFMin
<1>4. \A t \in SUBSET s : t # s => t \in Good
  <2> SUFFICES ASSUME NEW t \in SUBSET s, t # s, t \notin Good PROVE FALSE
    OBVIOUS
  <2>1. t \in T /\ t \subseteq S /\ s \subseteq S
    OBVIOUS
  <2>2. <<t, s>> \notin R
    BY <1>3, <2>1
  <2> HIDE DEF T
  <2> QED
    BY <2>1, <2>2 DEF StrictSubsetOrdering
<1> QED
  BY <1>4

\* The image of a finite set.
LEMMA ImageIsFinite ==
  ASSUME NEW S, IsFiniteSet(S), NEW f
  PROVE  IsFiniteSet({f[x] : x \in S})
<1> DEFINE T == {f[x] : x \in S}
           g == [x \in S |-> f[x]]
<1>1. g \in [S -> T] /\ \A y \in T : \E x \in S : g[x] = y
  OBVIOUS
<1>2. g \in Surjection(S, T)
  <2> HIDE DEF g, T
  <2> QED
    BY <1>1 DEF Surjection
<1> HIDE DEF g, T
<1>3. IsFiniteSet(T)
  BY <1>2, FS_Surjection
<1> QED
  BY <1>3 DEF T

\* A finite set of integers that is not empty has a least one and a greatest one.
LEMMA LeastInteger ==
  ASSUME NEW S, S \subseteq Int, IsFiniteSet(S)
  PROVE  S # {} => \E x \in S : \A y \in S : x <= y
<1> DEFINE Good == {s \in SUBSET S : s # {} => \E x \in s : \A y \in s : x <= y}
<1>1. ASSUME NEW s \in SUBSET S, \A t \in SUBSET s : t # s => t \in Good
      PROVE  s \in Good
  <2> SUFFICES ASSUME s # {} PROVE \E x \in s : \A y \in s : x <= y
    OBVIOUS
  <2>1. PICK a \in s : TRUE
    OBVIOUS
  <2>2. s \ {a} \in Good
    BY <1>1, <2>1
  <2>3. CASE s \ {a} = {}
    <3>1. \A y \in s : y = a
      BY <2>3
    <3> QED
      BY <2>1, <3>1
  <2>4. CASE s \ {a} # {}
    <3>1. PICK x \in s \ {a} : \A y \in s \ {a} : x <= y
      BY <2>2, <2>4
    <3>2. a \in Int /\ x \in Int /\ \A y \in s : y \in Int
      BY <2>1, <3>1
    <3>3. CASE a <= x
      BY <2>1, <3>1, <3>2, <3>3
    <3>4. CASE x <= a
      BY <2>1, <3>1, <3>2, <3>4
    <3> QED
      BY <3>2, <3>3, <3>4
  <2> QED
    BY <2>3, <2>4
<1>2. SUBSET S \subseteq Good
  <2> HIDE DEF Good
  <2> QED
    BY <1>1, SubsetInduction
<1> QED
  BY <1>2

LEMMA GreatestInteger ==
  ASSUME NEW S, S \subseteq Int, IsFiniteSet(S), S # {}
  PROVE  \E x \in S : \A y \in S : y <= x
<1> DEFINE minus == [x \in S |-> -x]
           Minus == {minus[x] : x \in S}
<1>1. IsFiniteSet(Minus)
  <2> HIDE DEF minus
  <2> QED
    BY ImageIsFinite
<1>2. Minus \subseteq Int /\ Minus # {}
  <2>1. \A x \in S : minus[x] \in Int
    OBVIOUS
  <2>2. PICK x \in S : TRUE
    OBVIOUS
  <2>3. minus[x] \in Minus
    OBVIOUS
  <2> QED
    BY <2>1, <2>3
<1>3. PICK m \in Minus : \A y \in Minus : m <= y
  <2> HIDE DEF Minus
  <2> QED
    BY <1>1, <1>2, LeastInteger
<1>4. PICK x \in S : m = -x
  OBVIOUS
<1>5. \A y \in S : -x <= -y
  BY <1>3, <1>4
<1>6. \A y \in S : y \in Int
  OBVIOUS
<1> QED
  BY <1>4, <1>5, <1>6

\* An element of a set, the same one every time, and the sums of the values of
\* subsets as the community modules fold them.
OneOf(s) == CHOOSE x \in s : TRUE
IsSum(f, S, val) == \A s \in SUBSET S : f[s] = IF s = {} THEN 0 ELSE val[OneOf(s)] + f[s \ {OneOf(s)}]

LEMMA SumExists ==
  ASSUME NEW S, IsFiniteSet(S), NEW val \in [S -> Nat]
  PROVE  \E f \in [SUBSET S -> Nat] : IsSum(f, S, val)
<1> DEFINE D == SUBSET S
           V == Nat
           e == 0
           pick == [s \in D |-> OneOf(s)]
           G == [x \in S |-> [v \in V |-> val[x] + v]]
<1>1. IsRule(G, S, V) /\ e \in V
  BY DEF IsRule
<1>2. Picks(pick, S)
  BY DEF Picks, OneOf
<1>3. PICK f \in [SUBSET S -> V] : IsFold(f, S, pick, e, G)
  <2> HIDE DEF D, V, e, pick, G
  <2> QED
    BY <1>1, <1>2, SetRecursion
<1>4. ASSUME NEW s \in D, s # {} PROVE f[s] = val[OneOf(s)] + f[s \ {OneOf(s)}]
  <2>1. OneOf(s) \in S /\ s \ {OneOf(s)} \in D /\ pick[s] = OneOf(s)
    BY <1>4 DEF OneOf
  <2>2. f[s \ {OneOf(s)}] \in V
    BY <2>1
  <2>3. G[OneOf(s)][f[s \ {OneOf(s)}]] = val[OneOf(s)] + f[s \ {OneOf(s)}]
    BY <2>1, <2>2
  <2>4. f[s] = G[pick[s]][f[s \ {pick[s]}]]
    <3> HIDE DEF V, e, pick, G
    <3> QED
      BY <1>3, <1>4 DEF IsFold
  <2> HIDE DEF pick, G
  <2> QED
    BY <2>1, <2>3, <2>4
<1>5. f[{}] = 0
  BY <1>3 DEF IsFold
<1> QED
  BY <1>4, <1>5 DEF IsSum

\* Whatever element is taken first.
AddsUp(f, S, val) == \A s \in SUBSET S : \A x \in s : f[s] = val[x] + f[s \ {x}]

LEMMA SumStep ==
  ASSUME NEW S, IsFiniteSet(S), NEW val \in [S -> Nat],
         NEW f \in [SUBSET S -> Nat], IsSum(f, S, val)
  PROVE  AddsUp(f, S, val)
<1> DEFINE Good == {s \in SUBSET S : \A x \in s : f[s] = val[x] + f[s \ {x}]}
<1>1. ASSUME NEW s \in SUBSET S, \A t \in SUBSET s : t # s => t \in Good
      PROVE  s \in Good
  <2> SUFFICES ASSUME NEW x \in s PROVE f[s] = val[x] + f[s \ {x}]
    OBVIOUS
  <2> DEFINE c == OneOf(s)
  <2>1. c \in s
    BY DEF OneOf
  <2>2. f[s] = val[c] + f[s \ {c}]
    BY DEF IsSum
  <2>3. CASE x = c
    BY <2>2, <2>3
  <2>4. CASE x # c
    <3>1. s \ {c} \in Good /\ s \ {x} \in Good
      BY <1>1, <2>1
    <3>2. f[s \ {c}] = val[x] + f[(s \ {c}) \ {x}]
      BY <3>1, <2>4
    <3>3. f[s \ {x}] = val[c] + f[(s \ {x}) \ {c}]
      BY <3>1, <2>1, <2>4
    <3>4. (s \ {x}) \ {c} = (s \ {c}) \ {x} /\ (s \ {c}) \ {x} \in SUBSET S
      OBVIOUS
    <3> DEFINE r == f[(s \ {c}) \ {x}]
    <3>5. val[x] \in Nat /\ val[c] \in Nat /\ r \in Nat
      BY <2>1, <3>4
    <3>6. f[s] = val[c] + (val[x] + r) /\ f[s \ {x}] = val[c] + r
      BY <2>2, <3>2, <3>3, <3>4
    <3> HIDE DEF r, c
    <3> QED
      BY <3>5, <3>6
  <2> QED
    BY <2>3, <2>4
<1>2. SUBSET S \subseteq Good
  <2> HIDE DEF Good
  <2> QED
    BY <1>1, SubsetInduction
<1>3. ASSUME NEW s \in SUBSET S, NEW x \in s PROVE f[s] = val[x] + f[s \ {x}]
  <2>1. s \in Good
    <3> HIDE DEF Good
    <3> QED
      BY <1>2
  <2> QED
    BY <2>1
<1> QED
  BY <1>3, Zenon DEF AddsUp

\* The sums of a smaller set are the same.
LEMMA SumAgrees ==
  ASSUME NEW S, IsFiniteSet(S), NEW val, NEW f, IsSum(f, S, val),
         NEW T \in SUBSET S, NEW g, IsSum(g, T, val)
  PROVE  \A s \in SUBSET T : f[s] = g[s]
<1> DEFINE Good == {s \in SUBSET T : f[s] = g[s]}
<1>1. ASSUME NEW s \in SUBSET T, \A t \in SUBSET s : t # s => t \in Good
      PROVE  s \in Good
  <2>1. s \in SUBSET S
    OBVIOUS
  <2>2. CASE s = {}
    <3>1. f[{}] = 0 /\ g[{}] = 0
      BY DEF IsSum
    <3> QED
      BY <2>2, <3>1
  <2>3. CASE s # {}
    <3>1. OneOf(s) \in s
      BY <2>3 DEF OneOf
    <3>2. s \ {OneOf(s)} \in Good
      BY <1>1, <3>1
    <3>3. f[s] = val[OneOf(s)] + f[s \ {OneOf(s)}] /\ g[s] = val[OneOf(s)] + g[s \ {OneOf(s)}]
      BY <2>1, <2>3 DEF IsSum
    <3> QED
      BY <3>2, <3>3
  <2> QED
    BY <2>2, <2>3
<1>2. IsFiniteSet(T)
  BY FS_Subset
<1>3. SUBSET T \subseteq Good
  <2> HIDE DEF Good
  <2> QED
    BY <1>1, <1>2, SubsetInduction
<1> QED
  BY <1>3

\* A subset comes to no more.
LEMMA SumGrows ==
  ASSUME NEW S, IsFiniteSet(S), NEW val \in [S -> Nat],
         NEW f \in [SUBSET S -> Nat], IsSum(f, S, val)
  PROVE  \A s \in SUBSET S : \A t \in SUBSET s : f[t] <= f[s]
<1> DEFINE Good == {s \in SUBSET S : \A t \in SUBSET s : f[t] <= f[s]}
<1>1. ASSUME NEW s \in SUBSET S, \A t \in SUBSET s : t # s => t \in Good
      PROVE  s \in Good
  <2> SUFFICES ASSUME NEW t \in SUBSET s PROVE f[t] <= f[s]
    OBVIOUS
  <2>1. CASE t = s
    BY <2>1
  <2>2. CASE t # s
    <3>1. PICK x \in s : x \notin t
      BY <2>2
    <3>2. f[s] = val[x] + f[s \ {x}]
      BY SumStep DEF AddsUp
    <3>3. s \ {x} \in Good /\ t \in SUBSET (s \ {x})
      BY <1>1, <3>1
    <3>4. f[t] <= f[s \ {x}]
      BY <3>3
    <3>5. val[x] \in Nat /\ f[t] \in Nat /\ f[s \ {x}] \in Nat /\ t \in SUBSET S
      OBVIOUS
    <3> QED
      BY <3>2, <3>4, <3>5
  <2> QED
    BY <2>1, <2>2
<1>2. SUBSET S \subseteq Good
  <2> HIDE DEF Good
  <2> QED
    BY <1>1, SubsetInduction
<1> QED
  BY <1>2
=============================================================================
