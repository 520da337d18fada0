-------------------------- MODULE SchedulersProofs --------------------------
(***************************************************************************)
(* Proofs about the schedulers, for any paths, rates, delays and frames.   *)
(*                                                                         *)
(* The functions the schedulers are made of are defined by recursion, and  *)
(* the folds of the library by recursion over sets.  The first part has    *)
(* the induction and the existence lemmas that give their meaning, the     *)
(* next ones what sums and each scheduler return, the last one the         *)
(* invariant: the environment is numbers, and until a path is stopped the  *)
(* tables of EDCLD are about usable paths.                                 *)
(***************************************************************************)
EXTENDS Schedulers, TLAPS, SequenceTheorems, FiniteSetTheorems, WellFoundedInduction

-----------------------------------------------------------------------------
(***************************************************************************)
(* Induction over numbers and finite sets, for sets of good values, and    *)
(* the existence of the functions that are defined by recursion.           *)
(***************************************************************************)
LessThan == {pair \in Nat \X Nat : pair[1] < pair[2]}

\* A set of naturals that is not empty has a least element.
LEMMA LeastOf ==
  ASSUME NEW S \in SUBSET Nat, S # {}
  PROVE  Min(S) \in S /\ \A x \in S : Min(S) <= x
<1>1. IsWellFoundedOn(LessThan, Nat)
  BY NatLessThanWellFounded DEF OpToRel, LessThan
<1>2. PICK x \in S : \A y \in S : <<y, x>> \notin LessThan
  BY <1>1, WFMin
<1>3. ASSUME NEW y \in S PROVE x <= y
  <2>1. <<y, x>> \notin LessThan
    BY <1>2
  <2> QED
    BY <2>1 DEF LessThan
<1> QED
  BY <1>3 DEF Min

\* What holds of 0 and carries over from each number to the next holds of all.
LEMMA UpTo ==
  ASSUME NEW n \in Nat, NEW P, 0 \in P, \A k \in 1 .. n : k - 1 \in P => k \in P
  PROVE  \A k \in 0 .. n : k \in P
<1> DEFINE Bad == {k \in 0 .. n : k \notin P}
<1>1. SUFFICES ASSUME Bad # {} PROVE FALSE
  OBVIOUS
<1>2. PICK k \in Bad : \A j \in Bad : k <= j
  <2>1. Bad \in SUBSET Nat
    OBVIOUS
  <2> HIDE DEF Bad
  <2> QED
    BY <1>1, <2>1, LeastOf
<1>3. k \in 1 .. n /\ k - 1 \in 0 .. n
  BY <1>2
<1>4. k - 1 \notin Bad
  <2>1. k \in Nat
    BY <1>3
  <2> HIDE DEF Bad
  <2> QED
    BY <1>2, <2>1
<1>5. k - 1 \in P
  BY <1>3, <1>4
<1> QED
  BY <1>2, <1>3, <1>5

\* What holds of a set when it holds of its proper subsets holds of all.
LEMMA AllSubsets ==
  ASSUME NEW S, IsFiniteSet(S), NEW P,
         \A s \in SUBSET S : (\A t \in SUBSET s : t # s => t \in P) => s \in P
  PROVE  \A s \in SUBSET S : s \in P
<1> DEFINE Bad == {c \in Nat : \E s \in SUBSET S : s \notin P /\ Cardinality(s) = c}
<1>1. \A s \in SUBSET S : IsFiniteSet(s) /\ Cardinality(s) \in Nat
  BY FS_Subset, FS_CardinalityType
<1>2. SUFFICES ASSUME Bad # {} PROVE FALSE
  BY <1>1
<1>3. PICK c \in Bad : \A d \in Bad : c <= d
  <2>1. Bad \in SUBSET Nat
    OBVIOUS
  <2> HIDE DEF Bad
  <2> QED
    BY <1>2, <2>1, LeastOf
<1>4. PICK s \in SUBSET S : s \notin P /\ Cardinality(s) = c
  BY <1>3
<1>5. ASSUME NEW t \in SUBSET s, t # s PROVE t \in P
  <2>1. Cardinality(t) < c /\ Cardinality(t) \in Nat /\ c \in Nat
    BY <1>1, <1>4, <1>5, FS_Subset
  <2>2. Cardinality(t) \notin Bad
    <3> HIDE DEF Bad
    <3> QED
      BY <1>3, <2>1
  <2> QED
    BY <2>1, <2>2
<1> QED
  BY <1>4, <1>5

\* f is defined by recursion over 0 .. n.
Recurs(f, n, V, base, step) ==
  /\ f \in [0 .. n -> V]
  /\ f[0] = base
  /\ \A k \in 1 .. n : f[k] = step[<<k, f[k - 1]>>]

\* A function defined by recursion over 0 .. n exists when each step stays in
\* the set of values.
LEMMA RecursionExists ==
  ASSUME NEW n \in Nat, NEW V, NEW base \in V, NEW step \in [(1 .. n) \X V -> V]
  PROVE  \E f : Recurs(f, n, V, base, step)
<1> DEFINE Good(f, m) == /\ f \in [0 .. m -> V]
                         /\ f[0] = base /\ \A k \in 1 .. m : f[k] = step[<<k, f[k - 1]>>]
           P == {m \in 0 .. n : \E f : Good(f, m)}
<1>1. 0 \in P
  <2> DEFINE f == [k \in 0 .. 0 |-> base]
  <2>0. f \in [0 .. 0 -> V] /\ f[0] = base /\ \A k \in 1 .. 0 : FALSE
    OBVIOUS
  <2> HIDE DEF f
  <2>1. Good(f, 0)
    BY <2>0
  <2> QED
    BY <2>1
<1>2. ASSUME NEW m \in 1 .. n, m - 1 \in P PROVE m \in P
  <2>1. PICK f : Good(f, m - 1)
    BY <1>2
  <2> DEFINE g == [k \in 0 .. m |-> IF k = m THEN step[<<m, f[m - 1]>>] ELSE f[k]]
  <2>2. f[m - 1] \in V /\ step[<<m, f[m - 1]>>] \in V
    <3>1. f[m - 1] \in V
      BY <2>1
    <3>2. <<m, f[m - 1]>> \in (1 .. n) \X V
      BY <3>1
    <3> QED
      BY <3>1, <3>2
  <2>3. g \in [0 .. m -> V]
    BY <2>1, <2>2
  <2>4. g[0] = base /\ g[m] = step[<<m, f[m - 1]>>] /\ g[m - 1] = f[m - 1]
    BY <2>1
  <2>5. ASSUME NEW k \in 1 .. m PROVE g[k] = step[<<k, g[k - 1]>>]
    <3>1. CASE k = m
      BY <2>4, <3>1
    <3>2. CASE k # m
      <4>1. k \in 1 .. (m - 1) /\ g[k] = f[k] /\ g[k - 1] = f[k - 1]
        BY <3>2
      <4> QED
        BY <2>1, <4>1
    <3> QED
      BY <3>1, <3>2
  <2> HIDE DEF g
  <2>6. Good(g, m)
    BY <2>3, <2>4, <2>5
  <2> QED
    BY <2>6
<1> HIDE DEF P
<1>3. n \in P
  BY <1>1, <1>2, UpTo
<1> QED
  BY <1>3 DEF P, Recurs

\* pick chooses from every set that is not empty.
Picks(pick, S) == \A s \in SUBSET S : s # {} => pick[s] \in s

\* g folds step over every subset of S, in the order of pick.
Folds(g, S, V, base, step, pick) ==
  /\ g \in [SUBSET S -> V]
  /\ g[{}] = base
  /\ \A s \in SUBSET S : s # {} => g[s] = step[<<pick[s], g[s \ {pick[s]}]>>]

\* The same for recursion over the subsets of a finite set, which takes one
\* element at a time.
LEMMA FoldExists ==
  ASSUME NEW S, IsFiniteSet(S), NEW V, NEW base \in V, NEW step \in [S \X V -> V],
         NEW pick, Picks(pick, S)
  PROVE  \E g : Folds(g, S, V, base, step, pick)
<1> DEFINE N == Cardinality(S)
           Small(c) == {s \in SUBSET S : Cardinality(s) <= c}
           Good(g, c) ==
             /\ g \in [Small(c) -> V]
             /\ g[{}] = base
             /\ \A s \in Small(c) : s # {} => g[s] = step[<<pick[s], g[s \ {pick[s]}]>>]
           P == {c \in 0 .. N : \E g : Good(g, c)}
<1>1. \A s \in SUBSET S : IsFiniteSet(s) /\ Cardinality(s) \in Nat /\ Cardinality(s) <= N
  BY FS_Subset, FS_CardinalityType
<1>2. N \in Nat
  BY FS_CardinalityType
<1>3. ASSUME NEW s \in SUBSET S, s # {}
      PROVE  /\ pick[s] \in S /\ s \ {pick[s]} \in SUBSET S
             /\ Cardinality(s \ {pick[s]}) = Cardinality(s) - 1
  <2>1. pick[s] \in s /\ IsFiniteSet(s)
    BY <1>1, <1>3 DEF Picks
  <2> QED
    BY <2>1, FS_RemoveElement
<1>4. Cardinality({}) = 0 /\ \A s \in SUBSET S : Cardinality(s) = 0 => s = {}
  BY <1>1, FS_EmptySet
<1> HIDE DEF N
<1>5. 0 \in P
  <2> DEFINE g == [s \in Small(0) |-> base]
  <2>1. {} \in Small(0) /\ \A s \in Small(0) : s # {} => FALSE
    BY <1>1, <1>4
  <2>2. g \in [Small(0) -> V] /\ g[{}] = base
    BY <2>1
  <2> HIDE DEF g, Small
  <2>3. Good(g, 0)
    BY <2>1, <2>2
  <2>4. 0 \in 0 .. N
    BY <1>2
  <2> HIDE DEF Good
  <2> QED
    BY <2>3, <2>4
<1>6. ASSUME NEW c \in 1 .. N, c - 1 \in P PROVE c \in P
  <2>1. PICK f : Good(f, c - 1)
    BY <1>6
  <2> DEFINE g == [s \in Small(c) |-> IF Cardinality(s) = c
                                      THEN step[<<pick[s], f[s \ {pick[s]}]>>] ELSE f[s]]
  <2>2. ASSUME NEW s \in Small(c), Cardinality(s) # c PROVE s \in Small(c - 1)
    <3>1. Cardinality(s) \in Nat /\ Cardinality(s) <= c /\ c \in Nat
      BY <1>1
    <3> DEFINE d == Cardinality(s)
    <3> HIDE DEF d
    <3>2. d <= c - 1
      BY <2>2, <3>1 DEF d
    <3> QED
      BY <3>2 DEF d
  <2>3. ASSUME NEW s \in Small(c), s # {} PROVE s \ {pick[s]} \in Small(c - 1)
    <3>1. Cardinality(s \ {pick[s]}) = Cardinality(s) - 1 /\ s \ {pick[s]} \in SUBSET S
      BY <1>3, <2>3
    <3>2. Cardinality(s) \in Nat /\ Cardinality(s) <= c
      BY <1>1
    <3> QED
      BY <3>1, <3>2
  <2>4. ASSUME NEW s \in Small(c - 1) PROVE s \in Small(c) /\ Cardinality(s) # c
    BY <1>1
  <2>5. ASSUME NEW s \in Small(c), Cardinality(s) = c
        PROVE  /\ s # {} /\ f[s \ {pick[s]}] \in V
               /\ step[<<pick[s], f[s \ {pick[s]}]>>] \in V
    <3>1. s # {}
      <4>1. c # 0
        OBVIOUS
      <4> QED
        BY <1>4, <2>5, <4>1
    <3>2. f[s \ {pick[s]}] \in V
      BY <2>1, <2>3, <3>1
    <3>3. pick[s] \in S
      BY <1>3, <3>1
    <3> QED
      BY <3>1, <3>2, <3>3
  <2>6. g \in [Small(c) -> V]
    BY <2>1, <2>2, <2>5
  <2>7. g[{}] = base
    <3>1. {} \in Small(c) /\ Cardinality({}) # c
      BY <1>4
    <3> QED
      BY <2>1, <3>1
  <2>8. ASSUME NEW s \in Small(c), s # {} PROVE g[s] = step[<<pick[s], g[s \ {pick[s]}]>>]
    <3>1. g[s \ {pick[s]}] = f[s \ {pick[s]}]
      BY <2>3, <2>4, <2>8
    <3>2. CASE Cardinality(s) = c
      BY <3>1, <3>2
    <3>3. CASE Cardinality(s) # c
      <4>1. s \in Small(c - 1) /\ g[s] = f[s]
        BY <2>2, <3>3
      <4> QED
        BY <2>1, <2>8, <3>1, <4>1
    <3> QED
      BY <3>2, <3>3
  <2> HIDE DEF g, Small
  <2>9. Good(g, c)
    BY <2>6, <2>7, <2>8
  <2> QED
    BY <2>9
<1> HIDE DEF P
<1>7. N \in P
  BY <1>2, <1>5, <1>6, UpTo
<1>8. PICK g : Good(g, N)
  BY <1>7 DEF P
<1>9. Small(N) = SUBSET S
  BY <1>1
<1> QED
  BY <1>8, <1>9 DEF Folds


-----------------------------------------------------------------------------
(***************************************************************************)
(* Sums.                                                                   *)
(***************************************************************************)
\* g adds up f over every subset of S, in the order of pick.
Adds(g, f, S, pick) ==
  /\ DOMAIN g = SUBSET S /\ g[{}] = 0
  /\ \A s \in SUBSET S : s # {} => g[s] = f[pick[s]] + g[s \ {pick[s]}]

LEMMA AddsExists ==
  ASSUME NEW S, IsFiniteSet(S), NEW f, \A x \in S : f[x] \in Int, NEW pick, Picks(pick, S)
  PROVE  \E g : Adds(g, f, S, pick)
<1> DEFINE step == [p \in S \X Int |-> f[p[1]] + p[2]]
<1>1. step \in [S \X Int -> Int]
  OBVIOUS
<1>2. \A x \in S, y \in Int : step[<<x, y>>] = f[x] + y
  OBVIOUS
<1> HIDE DEF step
<1>3. PICK g \in [SUBSET S -> Int] :
        /\ g[{}] = 0
        /\ \A s \in SUBSET S : s # {} => g[s] = step[<<pick[s], g[s \ {pick[s]}]>>]
  <2> DEFINE V == Int
             zero == 0
  <2>1. zero \in V /\ step \in [S \X V -> V]
    BY <1>1
  <2> HIDE DEF V, zero
  <2>2. PICK g : Folds(g, S, V, zero, step, pick)
    BY <2>1, FoldExists
  <2> QED
    BY <2>2 DEF V, zero, Folds
<1>4. ASSUME NEW s \in SUBSET S, s # {} PROVE g[s] = f[pick[s]] + g[s \ {pick[s]}]
  <2>1. pick[s] \in S /\ g[s \ {pick[s]}] \in Int
    BY <1>3, <1>4 DEF Picks
  <2>2. g[s] = step[<<pick[s], g[s \ {pick[s]}]>>]
    BY <1>3, <1>4
  <2> QED
    BY <1>2, <2>1, <2>2
<1> QED
  BY <1>3, <1>4 DEF Adds

\* A sum of integers is an integer.
LEMMA AddsInt ==
  ASSUME NEW S, IsFiniteSet(S), NEW f, \A x \in S : f[x] \in Int, NEW pick, Picks(pick, S),
         NEW g, Adds(g, f, S, pick)
  PROVE  \A s \in SUBSET S : g[s] \in Int
<1> DEFINE P == {s \in SUBSET S : g[s] \in Int}
<1>1. ASSUME NEW s \in SUBSET S, \A t \in SUBSET s : t # s => t \in P PROVE s \in P
  <2>1. CASE s = {}
    BY <2>1 DEF Adds
  <2>2. CASE s # {}
    <3>1. pick[s] \in s
      BY <2>2 DEF Picks
    <3>2. s \ {pick[s]} \in P
      BY <1>1, <3>1
    <3>3. g[s] = f[pick[s]] + g[s \ {pick[s]}]
      BY <2>2 DEF Adds
    <3> QED
      BY <3>1, <3>2, <3>3
  <2> QED
    BY <2>1, <2>2
<1> HIDE DEF P
<1>2. \A s \in SUBSET S : s \in P
  BY <1>1, AllSubsets
<1> QED
  BY <1>2 DEF P

\* Any element may be taken out of a sum, not only the one that pick chooses.
LEMMA AddsRemove ==
  ASSUME NEW S, IsFiniteSet(S), NEW f, \A x \in S : f[x] \in Int, NEW pick, Picks(pick, S),
         NEW g, Adds(g, f, S, pick)
  PROVE  \A s \in SUBSET S : \A x \in s : g[s] = f[x] + g[s \ {x}]
<1> DEFINE P == {s \in SUBSET S : \A x \in s : g[s] = f[x] + g[s \ {x}]}
<1>1. ASSUME NEW s \in SUBSET S, \A t \in SUBSET s : t # s => t \in P PROVE s \in P
  <2>1. ASSUME NEW x \in s PROVE g[s] = f[x] + g[s \ {x}]
    <3> DEFINE y == pick[s]
    <3>1. y \in s /\ g[s] = f[y] + g[s \ {y}]
      BY <2>1 DEF Picks, Adds
    <3> HIDE DEF y
    <3>2. CASE x = y
      BY <3>1, <3>2
    <3>3. CASE x # y
      <4> DEFINE r == (s \ {x}) \ {y}
      <4>1. s \ {x} \in P /\ s \ {y} \in P /\ y \in s \ {x} /\ x \in s \ {y}
        BY <1>1, <2>1, <3>1, <3>3
      <4>2. g[s \ {x}] = f[y] + g[r]
        BY <4>1
      <4>3. g[s \ {y}] = f[x] + g[r]
        <5>1. (s \ {y}) \ {x} = r
          OBVIOUS
        <5> HIDE DEF r
        <5> QED
          BY <4>1, <5>1
      <4>4. g[r] \in Int /\ f[x] \in Int /\ f[y] \in Int
        BY <3>1, AddsInt
      <4> QED
        BY <3>1, <4>2, <4>3, <4>4
    <3> QED
      BY <3>2, <3>3
  <2> QED
    BY <2>1
<1> HIDE DEF P
<1>2. \A s \in SUBSET S : s \in P
  BY <1>1, AllSubsets
<1> QED
  BY <1>2 DEF P

\* The sum does not depend on the order, nor on f outside of the set.
LEMMA AddsSame ==
  ASSUME NEW S, IsFiniteSet(S), NEW f, \A x \in S : f[x] \in Int, NEW pick, Picks(pick, S),
         NEW g, Adds(g, f, S, pick),
         NEW R, IsFiniteSet(R), NEW e, \A x \in R : e[x] \in Int, NEW pick2, Picks(pick2, R),
         NEW h, Adds(h, e, R, pick2),
         NEW T, T \subseteq S, T \subseteq R, \A x \in T : f[x] = e[x]
  PROVE  g[T] = h[T]
<1> DEFINE P == {s \in SUBSET T : g[s] = h[s]}
<1>1. ASSUME NEW s \in SUBSET T, \A t \in SUBSET s : t # s => t \in P PROVE s \in P
  <2>1. CASE s = {}
    BY <2>1 DEF Adds
  <2>2. CASE s # {}
    <3>1. PICK x : x \in s
      BY <2>2
    <3>2. s \ {x} \in P /\ f[x] = e[x]
      BY <1>1, <3>1
    <3>3. g[s] = f[x] + g[s \ {x}]
      <4>1. s \in SUBSET S
        OBVIOUS
      <4> QED
        BY <3>1, <4>1, AddsRemove
    <3>4. h[s] = e[x] + h[s \ {x}]
      <4>1. s \in SUBSET R
        OBVIOUS
      <4> QED
        BY <3>1, <4>1, AddsRemove
    <3> QED
      BY <3>2, <3>3, <3>4
  <2> QED
    BY <2>1, <2>2
<1> HIDE DEF P
<1>2. IsFiniteSet(T)
  BY FS_Subset
<1>3. \A s \in SUBSET T : s \in P
  BY <1>1, <1>2, AllSubsets
<1> QED
  BY <1>3 DEF P

\* SumFunctionOnSet adds up.
LEMMA SumAdds ==
  ASSUME NEW S, IsFiniteSet(S), NEW f, \A x \in S : f[x] \in Int
  PROVE  \E g, pick : /\ Picks(pick, S) /\ Adds(g, f, S, pick)
                      /\ SumFunctionOnSet(f, S) = g[S]
<1> DEFINE first(s) == CHOOSE x \in s : TRUE
           pick == [s \in SUBSET S |-> first(s)]
           Is(g) == g = [s \in SUBSET S |->
                           IF s = {} THEN 0 ELSE f[first(s)] + g[s \ {first(s)}]]
           sum == CHOOSE g : Is(g)
<1>1. SumFunctionOnSet(f, S) = sum[S]
  BY DEF SumFunctionOnSet, FoldFunctionOnSet, MapThenFoldSet
<1>2. Picks(pick, S)
  BY DEF Picks
<1>3. \A s \in SUBSET S : pick[s] = first(s) /\ (s # {} => first(s) \in s)
  OBVIOUS
<1> HIDE DEF pick, first
<1>4. PICK g : Adds(g, f, S, pick)
  BY <1>2, AddsExists
<1>5. \E h : h = [s \in SUBSET S |-> g[s]]
  OBVIOUS
<1>6. PICK h : h = [s \in SUBSET S |-> g[s]]
  BY <1>5
<1>7. \A s \in SUBSET S : h[s] = g[s]
  BY <1>6
<1>8. \A s \in SUBSET S : h[s] = IF s = {} THEN 0 ELSE f[first(s)] + h[s \ {first(s)}]
  BY <1>3, <1>4, <1>7 DEF Adds
<1>9. Is(h)
  BY <1>6, <1>8
<1>10. Is(sum)
  <2> HIDE DEF Is
  <2> QED
    BY <1>9
<1> HIDE DEF sum
<1>11. Adds(sum, f, S, pick)
  BY <1>3, <1>10 DEF Adds
<1> QED
  BY <1>1, <1>2, <1>11

\* What is needed of sums: one element apart, functions that agree, and what a
\* sum of naturals is.
LEMMA SumRemove ==
  ASSUME NEW S, IsFiniteSet(S), NEW f, \A x \in S : f[x] \in Int, NEW x \in S
  PROVE  SumFunctionOnSet(f, S) = f[x] + SumFunctionOnSet(f, S \ {x})
<1> DEFINE R == S \ {x}
<1>1. IsFiniteSet(R) /\ R \subseteq S /\ R \subseteq R /\ \A y \in R : f[y] \in Int
  BY FS_Subset
<1> HIDE DEF R
<1>2. PICK g, pick : Picks(pick, S) /\ Adds(g, f, S, pick) /\ SumFunctionOnSet(f, S) = g[S]
  BY SumAdds
<1>3. PICK h, pick2 : Picks(pick2, R) /\ Adds(h, f, R, pick2) /\ SumFunctionOnSet(f, R) = h[R]
  BY <1>1, SumAdds
<1>4. g[R] = h[R]
  BY <1>1, <1>2, <1>3, AddsSame
<1>5. g[S] = f[x] + g[R]
  BY <1>2, AddsRemove DEF R
<1> QED
  BY <1>2, <1>3, <1>4, <1>5 DEF R

LEMMA SumSame ==
  ASSUME NEW S, IsFiniteSet(S), NEW f, \A x \in S : f[x] \in Int,
         NEW e, \A x \in S : e[x] = f[x]
  PROVE  SumFunctionOnSet(e, S) = SumFunctionOnSet(f, S)
<1>1. PICK g, pick : Picks(pick, S) /\ Adds(g, f, S, pick) /\ SumFunctionOnSet(f, S) = g[S]
  BY SumAdds
<1>2. \A x \in S : e[x] \in Int
  OBVIOUS
<1>3. PICK h, pick2 : Picks(pick2, S) /\ Adds(h, e, S, pick2) /\ SumFunctionOnSet(e, S) = h[S]
  BY <1>2, SumAdds
<1>4. g[S] = h[S]
  BY <1>1, <1>2, <1>3, AddsSame
<1> QED
  BY <1>1, <1>3, <1>4

LEMMA SumInt ==
  ASSUME NEW S, IsFiniteSet(S), NEW f, \A x \in S : f[x] \in Int
  PROVE  SumFunctionOnSet(f, S) \in Int
<1>1. PICK g, pick : Picks(pick, S) /\ Adds(g, f, S, pick) /\ SumFunctionOnSet(f, S) = g[S]
  BY SumAdds
<1> QED
  BY <1>1, AddsInt

\* A sum of naturals is at least each of them.
LEMMA AddsNat ==
  ASSUME NEW S, IsFiniteSet(S), NEW f, \A x \in S : f[x] \in Nat, NEW pick, Picks(pick, S),
         NEW g, Adds(g, f, S, pick)
  PROVE  g[S] \in Nat /\ \A x \in S : f[x] <= g[S]
<1> DEFINE P == {s \in SUBSET S : g[s] \in Nat}
<1>1. ASSUME NEW s \in SUBSET S, \A t \in SUBSET s : t # s => t \in P PROVE s \in P
  <2>1. CASE s = {}
    BY <2>1 DEF Adds
  <2>2. CASE s # {}
    <3>1. pick[s] \in s
      BY <2>2 DEF Picks
    <3>2. s \ {pick[s]} \in P
      BY <1>1, <3>1
    <3>3. g[s] = f[pick[s]] + g[s \ {pick[s]}]
      BY <2>2 DEF Adds
    <3> QED
      BY <3>1, <3>2, <3>3
  <2> QED
    BY <2>1, <2>2
<1> HIDE DEF P
<1>2. \A s \in SUBSET S : s \in P
  BY <1>1, AllSubsets
<1>3. ASSUME NEW x \in S PROVE f[x] <= g[S]
  <2>1. g[S \ {x}] \in Nat
    BY <1>2 DEF P
  <2>2. g[S] = f[x] + g[S \ {x}]
    <3>1. S \in SUBSET S /\ \A y \in S : f[y] \in Int
      OBVIOUS
    <3> QED
      BY <3>1, AddsRemove
  <2> QED
    BY <2>1, <2>2
<1> QED
  BY <1>2, <1>3 DEF P

LEMMA SumNat ==
  ASSUME NEW S, IsFiniteSet(S), NEW f, \A x \in S : f[x] \in Nat
  PROVE  SumFunctionOnSet(f, S) \in Nat /\ \A x \in S : f[x] <= SumFunctionOnSet(f, S)
<1>1. \A x \in S : f[x] \in Int
  OBVIOUS
<1>2. PICK g, pick : Picks(pick, S) /\ Adds(g, f, S, pick) /\ SumFunctionOnSet(f, S) = g[S]
  BY <1>1, SumAdds
<1> QED
  BY <1>2, AddsNat


-----------------------------------------------------------------------------
(***************************************************************************)
(* Weighted round robin.                                                   *)
(***************************************************************************)
\* A finite set of integers that is not empty has a greatest element.
LEMMA GreatestOf ==
  ASSUME NEW S, IsFiniteSet(S), S \subseteq Int, S # {}
  PROVE  Max(S) \in S /\ \A y \in S : Max(S) >= y
<1> DEFINE P == {s \in SUBSET S : s # {} => \E x \in s : \A y \in s : x >= y}
<1>1. ASSUME NEW s \in SUBSET S, \A t \in SUBSET s : t # s => t \in P PROVE s \in P
  <2> SUFFICES ASSUME s # {} PROVE \E x \in s : \A y \in s : x >= y
    OBVIOUS
  <2>1. PICK z : z \in s
    OBVIOUS
  <2>2. CASE s = {z}
    BY <2>1, <2>2
  <2>3. CASE s # {z}
    <3> DEFINE r == s \ {z}
    <3>0. r \in SUBSET s /\ r # s /\ r # {}
      BY <2>1, <2>3
    <3>1. r \in P /\ r # {}
      BY <1>1, <3>0
    <3>2. PICK x \in s \ {z} : \A y \in s \ {z} : x >= y
      BY <3>1
    <3>3. CASE x >= z
      BY <3>2, <3>3
    <3>4. CASE z >= x
      BY <2>1, <3>2, <3>4
    <3> QED
      BY <2>1, <3>2, <3>3, <3>4
  <2> QED
    BY <2>2, <2>3
<1> HIDE DEF P
<1>2. S \in P
  BY <1>1, AllSubsets
<1> QED
  BY <1>2 DEF P, Max

\* A finite set of integers has a least element too.
LEMMA SmallestOf ==
  ASSUME NEW S, IsFiniteSet(S), S \subseteq Int, S # {}
  PROVE  \E x \in S : \A y \in S : x <= y
<1> DEFINE P == {s \in SUBSET S : s # {} => \E x \in s : \A y \in s : x <= y}
<1>1. ASSUME NEW s \in SUBSET S, \A t \in SUBSET s : t # s => t \in P PROVE s \in P
  <2> SUFFICES ASSUME s # {} PROVE \E x \in s : \A y \in s : x <= y
    OBVIOUS
  <2>1. PICK z : z \in s
    OBVIOUS
  <2>2. CASE s = {z}
    BY <2>1, <2>2
  <2>3. CASE s # {z}
    <3> DEFINE r == s \ {z}
    <3>0. r \in SUBSET s /\ r # s /\ r # {}
      BY <2>1, <2>3
    <3>1. r \in P /\ r # {}
      BY <1>1, <3>0
    <3>2. PICK x \in s \ {z} : \A y \in s \ {z} : x <= y
      BY <3>1
    <3>3. CASE x <= z
      BY <3>2, <3>3
    <3>4. CASE z <= x
      BY <2>1, <3>2, <3>4
    <3> QED
      BY <2>1, <3>2, <3>3, <3>4
  <2> QED
    BY <2>2, <2>3
<1> HIDE DEF P
<1>2. S \in P
  BY <1>1, AllSubsets
<1> QED
  BY <1>2 DEF P

\* Every finite set of integers can be put in order.
LEMMA AscendingExists ==
  ASSUME NEW S, IsFiniteSet(S), S \subseteq Int
  PROVE  \E s \in Ascending(S) : TRUE
<1> DEFINE P == {T \in SUBSET S : \E q : q \in Ascending(T)}
<1>1. ASSUME NEW T \in SUBSET S, \A t \in SUBSET T : t # T => t \in P PROVE T \in P
  <2>0. IsFiniteSet(T) /\ Cardinality(T) \in Nat
    BY FS_Subset, FS_CardinalityType
  <2>1. CASE T = {}
    <3>1. Cardinality(T) = 0
      BY <2>1, FS_EmptySet
    <3>2. <<>> \in Ascending(T)
      BY <3>1 DEF Ascending
    <3> QED
      BY <3>2
  <2>2. CASE T # {}
    <3> DEFINE m == Max(T)
               R == T \ {m}
               c == Cardinality(T)
    <3>1. m \in T /\ \A y \in T : m >= y
      BY <2>0, <2>2, GreatestOf
    <3> HIDE DEF m
    <3>2. Cardinality(R) = c - 1 /\ c \in Nat /\ c - 1 \in Nat
      <4>1. Cardinality(R) = c - 1 /\ IsFiniteSet(R)
        BY <2>0, <3>1, FS_RemoveElement
      <4>2. Cardinality(R) \in Nat
        BY <4>1, FS_CardinalityType
      <4> QED
        BY <2>0, <4>1, <4>2
    <3>3. PICK q : q \in Ascending(R)
      BY <1>1, <3>1
    <3>4. /\ q \in [1 .. (c - 1) -> R]
          /\ \A i, j \in 1 .. (c - 1) : i < j => q[i] < q[j]
      BY <3>2, <3>3 DEF Ascending
    <3> HIDE DEF c
    <3> DEFINE longer == [i \in 1 .. c |-> IF i = c THEN m ELSE q[i]]
    <3>5. longer \in [1 .. c -> T]
      BY <3>1, <3>2, <3>4
    <3>6. ASSUME NEW i \in 1 .. c, NEW j \in 1 .. c, i < j PROVE longer[i] < longer[j]
      <4>1. i \in 1 .. (c - 1) /\ longer[i] = q[i]
        BY <3>2, <3>6
      <4>2. CASE j = c
        <5>1. q[i] \in T /\ q[i] # m /\ longer[j] = m
          BY <3>4, <4>1, <4>2
        <5>2. q[i] \in Int /\ m \in Int /\ m >= q[i]
          BY <3>1, <5>1
        <5> QED
          BY <4>1, <5>1, <5>2
      <4>3. CASE j # c
        <5>1. j \in 1 .. (c - 1) /\ longer[j] = q[j]
          BY <3>2, <4>3
        <5> QED
          BY <3>4, <3>6, <4>1, <5>1
      <4> QED
        BY <4>2, <4>3
    <3> HIDE DEF longer
    <3>7. longer \in Ascending(T)
      BY <3>5, <3>6 DEF Ascending, c
    <3> QED
      BY <3>7
  <2> QED
    BY <2>1, <2>2
<1> HIDE DEF P
<1>2. S \in P
  BY <1>1, AllSubsets
<1> QED
  BY <1>2 DEF P

\* The weights of a list of servers.
WeightsOK(weight) ==
  /\ IsFiniteSet(DOMAIN weight) /\ DOMAIN weight \subseteq Int
  /\ \A p \in DOMAIN weight : weight[p] \in Int

Positive(weight) == {p \in DOMAIN weight : weight[p] > 0}

\* The list of AddServer has the servers of positive weight.
LEMMA ServersOK ==
  ASSUME NEW weight, WeightsOK(weight), HasServer(weight)
  PROVE  LET s == Servers(weight)
         IN  /\ Len(s) \in Nat \ {0} /\ s \in Seq(Positive(weight))
             /\ DOMAIN s = 1 .. Len(s)
<1> DEFINE some == Positive(weight)
           n == Cardinality(some)
           s == Servers(weight)
<1>1. IsFiniteSet(some) /\ some \subseteq Int /\ some # {}
  <2>1. some \subseteq DOMAIN weight
    BY DEF Positive
  <2>2. IsFiniteSet(some)
    BY <2>1, FS_Subset DEF WeightsOK
  <2> QED
    BY <2>1, <2>2 DEF WeightsOK, HasServer, Positive
<1>2. n \in Nat \ {0}
  BY <1>1, FS_CardinalityType, FS_EmptySet
<1>3. s = CHOOSE q \in Ascending(some) : TRUE
  BY DEF Servers, Positive
<1> HIDE DEF some, s
<1>4. s \in Ascending(some)
  BY <1>1, <1>3, AscendingExists
<1>5. s \in [1 .. n -> some]
  BY <1>4 DEF Ascending
<1> HIDE DEF n
<1>6. s \in Seq(some) /\ Len(s) = n /\ DOMAIN s = 1 .. n
  BY <1>2, <1>5
<1> QED
  BY <1>2, <1>6 DEF s, some

\* The walk of GetServer finds a server in every wrap of the level.
LEMMA CycleOK ==
  ASSUME NEW weight, WeightsOK(weight), HasServer(weight)
  PROVE  Cycle(weight) \in Seq(Positive(weight)) /\ Len(Cycle(weight)) > 0
<1> DEFINE some == Positive(weight)
           s == Servers(weight)
           n == Len(s)
           top == Max({weight[s[j]] : j \in 1 .. n})
           at(j) == s[((j - 1) % n) + 1]
           level(j) == top - ((j - 1) \div n)
           next(j, q) == IF weight[at(j)] >= level(j) THEN Append(q, at(j)) ELSE q
           N == n * top
           Is(f) == f = [j \in 0 .. N |->
                           IF j = 0 THEN <<>>
                           ELSE IF weight[at(j)] >= level(j) THEN Append(f[j - 1], at(j))
                           ELSE f[j - 1]]
           returned == CHOOSE f : Is(f)
<1>1. Cycle(weight) = returned[N]
  BY DEF Cycle
<1>2. n \in Nat \ {0} /\ s \in Seq(some) /\ DOMAIN s = 1 .. n
  BY ServersOK
<1> HIDE DEF s, n
<1>3. \A j \in 1 .. n : s[j] \in some
  BY <1>2
<1>4. \A p \in some : weight[p] \in Int /\ weight[p] > 0
  BY DEF Positive, WeightsOK
<1>5. /\ \E j \in 1 .. n : weight[s[j]] = top
      /\ top \in Nat \ {0}
  <2> DEFINE W == {weight[s[j]] : j \in 1 .. n}
  <2>1. W \subseteq Int /\ W # {}
    BY <1>2, <1>3, <1>4
  <2>2. IsFiniteSet(W)
    <3> DEFINE indices == 1 .. n
               values == [j \in indices |-> weight[s[j]]]
    <3>1. IsFiniteSet(indices)
      <4> DEFINE low == 1
      <4>1. low \in Int /\ n \in Int
        BY <1>2
      <4> HIDE DEF low
      <4>2. IsFiniteSet(low .. n)
        BY <4>1, FS_Interval
      <4> QED
        BY <4>2 DEF low
    <3>2. values \in Surjection(indices, W)
      <4>1. \A j \in indices : values[j] \in W
        OBVIOUS
      <4>2. \A w \in W : \E j \in indices : values[j] = w
        OBVIOUS
      <4>3. DOMAIN values = indices /\ values = [j \in DOMAIN values |-> values[j]]
        OBVIOUS
      <4> HIDE DEF values, W, indices
      <4>4. values \in [indices -> W]
        BY <4>1, <4>3
      <4> QED
        BY <4>2, <4>4 DEF Surjection
    <3> HIDE DEF values, indices
    <3> QED
      BY <3>1, <3>2, FS_Surjection
  <2>3. Max(W) \in W
    <3> HIDE DEF W
    <3> QED
      BY <2>1, <2>2, GreatestOf
  <2>4. PICK j \in 1 .. n : weight[s[j]] = top
    BY <2>3
  <2>5. top \in Int /\ top > 0
    BY <1>3, <1>4, <2>4
  <2>6. top \in Nat \ {0}
    <3> HIDE DEF top
    <3> QED
      BY <2>5
  <2> HIDE DEF top
  <2> QED
    BY <2>4, <2>6
<1> HIDE DEF top
<1>6. N \in Nat /\ N >= n
  <2>1. PICK t \in Nat : top = t + 1
    <3>1. top - 1 \in Nat /\ top = (top - 1) + 1
      BY <1>5
    <3> QED
      BY <3>1
  <2>2. n * (t + 1) = n * t + n /\ n * t \in Nat
    BY <1>2
  <2> QED
    BY <1>2, <2>1, <2>2
<1> HIDE DEF N
<1>7. ASSUME NEW j \in 1 .. N PROVE at(j) \in some
  <2>1. (j - 1) % n \in 0 .. (n - 1)
    BY <1>2, <1>6
  <2>2. ((j - 1) % n) + 1 \in 1 .. n
    BY <1>2, <2>1
  <2> QED
    BY <1>3, <2>2
<1> HIDE DEF at, level
<1> DEFINE V == Seq(some)
           step == [p \in (1 .. N) \X V |-> next(p[1], p[2])]
<1>8. ASSUME NEW j \in 1 .. N, NEW q \in V PROVE next(j, q) \in V
  BY <1>7
<1>9. step \in [(1 .. N) \X V -> V] /\ <<>> \in V
  BY <1>8
<1>10. \A j \in 1 .. N, q \in V : step[<<j, q>>] = next(j, q)
  OBVIOUS
<1> HIDE DEF step, V
<1>11. PICK f \in [0 .. N -> V] :
         f[0] = <<>> /\ \A j \in 1 .. N : f[j] = step[<<j, f[j - 1]>>]
  <2> DEFINE none == <<>>
  <2>1. none \in V
    BY <1>9
  <2> HIDE DEF none
  <2>2. \E f : Recurs(f, N, V, none, step)
    BY <1>6, <1>9, <2>1, RecursionExists
  <2> QED
    BY <2>2 DEF none, Recurs
<1>12. \A j \in 1 .. N : f[j] = next(j, f[j - 1]) /\ f[j - 1] \in V
  <2>1. ASSUME NEW j \in 1 .. N PROVE f[j - 1] \in V
    BY <1>6, <1>11
  <2> QED
    BY <1>10, <1>11, <2>1
<1>13. Is(f)
  <2>1. \A j \in 0 .. N : f[j] = IF j = 0 THEN <<>>
                                 ELSE IF weight[at(j)] >= level(j) THEN Append(f[j - 1], at(j))
                                 ELSE f[j - 1]
    <3>1. ASSUME NEW j \in 1 .. N
          PROVE  f[j] = IF weight[at(j)] >= level(j) THEN Append(f[j - 1], at(j)) ELSE f[j - 1]
      BY <1>12
    <3>2. f[0] = <<>> /\ \A j \in 0 .. N : j = 0 \/ j \in 1 .. N
      BY <1>6, <1>11
    <3>3. \A j \in 1 .. N : j # 0
      OBVIOUS
    <3> QED
      BY <3>1, <3>2, <3>3
  <2> QED
    BY <1>11, <2>1
<1>14. Is(returned)
  <2> HIDE DEF Is
  <2> QED
    BY <1>13
<1> HIDE DEF returned
<1>15. returned[0] = <<>> /\ \A j \in 1 .. N : returned[j] = next(j, returned[j - 1])
  <2>1. 0 \in 0 .. N /\ \A j \in 1 .. N : j \in 0 .. N /\ j # 0
    BY <1>6
  <2>2. returned[0] = <<>>
    BY <1>14, <2>1
  <2>3. ASSUME NEW j \in 1 .. N PROVE returned[j] = next(j, returned[j - 1])
    BY <1>14, <2>1
  <2> QED
    BY <2>2, <2>3
<1> HIDE DEF Is
<1> DEFINE P == {j \in 0 .. N : returned[j] \in V}
<1>16. \A j \in 0 .. N : j \in P
  <2>1. 0 \in P
    BY <1>6, <1>9, <1>15
  <2>2. ASSUME NEW j \in 1 .. N, j - 1 \in P PROVE j \in P
    BY <1>8, <1>15, <2>2
  <2> HIDE DEF P
  <2> QED
    BY <1>6, <2>1, <2>2, UpTo
<1>17. PICK h \in 1 .. n : weight[s[h]] = top
  BY <1>5
<1>18. h \in 1 .. N /\ weight[at(h)] >= level(h)
  <2>1. h \in 1 .. N
    BY <1>2, <1>6
  <2>2. (h - 1) % n = h - 1 /\ (h - 1) \div n = 0
    BY <1>2
  <2>3. at(h) = s[h]
    BY <2>2 DEF at
  <2>4. level(h) = top
    BY <1>5, <2>2 DEF level
  <2> QED
    BY <1>5, <1>17, <2>1, <2>3, <2>4
<1> DEFINE Q == {j \in 0 .. N : j >= h => Len(returned[j]) > 0}
<1>19. \A j \in 0 .. N : j \in Q
  <2>1. 0 \in Q
    BY <1>6, <1>18
  <2>2. ASSUME NEW j \in 1 .. N, j - 1 \in Q PROVE j \in Q
    <3>0. j - 1 \in 0 .. N
      BY <1>6
    <3>1. returned[j - 1] \in V /\ returned[j] = next(j, returned[j - 1])
      BY <1>15, <1>16, <3>0
    <3>2. j >= h => j = h \/ Len(returned[j - 1]) > 0
      BY <1>18, <2>2
    <3>3. Len(Append(returned[j - 1], at(j))) > 0
      BY <3>1 DEF V
    <3>4. j = h => weight[at(j)] >= level(j)
      BY <1>18
    <3>5. ASSUME j >= h PROVE Len(returned[j]) > 0
      <4>1. CASE weight[at(j)] >= level(j)
        BY <3>1, <3>3, <4>1
      <4>2. CASE ~(weight[at(j)] >= level(j))
        BY <3>1, <3>2, <3>4, <3>5, <4>2
      <4> QED
        BY <4>1, <4>2
    <3> QED
      BY <3>5
  <2> HIDE DEF Q
  <2> QED
    BY <1>6, <2>1, <2>2, UpTo
<1>20. N \in P /\ N \in Q /\ N >= h
  BY <1>6, <1>16, <1>18, <1>19
<1> QED
  BY <1>1, <1>20 DEF V

\* Every call of GetServer returns a server of positive weight.
LEMMA GetServersOK ==
  ASSUME NEW weight, WeightsOK(weight), HasServer(weight), NEW n \in Nat
  PROVE  GetServers(weight, n) \in [1 .. n -> Positive(weight)]
<1> DEFINE c == Cycle(weight)
           l == Len(c)
<1>1. c \in Seq(Positive(weight)) /\ l > 0 /\ l \in Nat
  BY CycleOK
<1>2. GetServers(weight, n) = [k \in 1 .. n |-> c[((k - 1) % l) + 1]]
  BY DEF GetServers
<1>3. \A i \in 1 .. l : c[i] \in Positive(weight)
  BY <1>1
<1> HIDE DEF c, l
<1>4. ASSUME NEW k \in 1 .. n PROVE c[((k - 1) % l) + 1] \in Positive(weight)
  <2>1. (k - 1) % l \in 0 .. (l - 1)
    BY <1>1
  <2>2. ((k - 1) % l) + 1 \in 1 .. l
    BY <1>1, <2>1
  <2> QED
    BY <1>3, <2>2
<1> QED
  BY <1>2, <1>4


-----------------------------------------------------------------------------
(***************************************************************************)
(* What each scheduler chooses.                                            *)
(***************************************************************************)
\* The paths a packet may be put on.
Registered == {p \in Paths : Contains(pids, p)}

\* The tables of EDCLD: empty before the first frame, and only for usable
\* paths after it.
TablesOK ==
  kind \in Edcld =>
    /\ scheduled = 0 => psi_table = <<>> /\ cost_table = {}
    /\ DOMAIN psi_table \subseteq Usable /\ cost_table \subseteq DOMAIN psi_table
    /\ \A p \in DOMAIN psi_table : psi_table[p] \in Nat

\* What the choices rest on.  After a stop no frame is scheduled.
StateOK ==
  /\ last_index \in Nat /\ scheduled \in Nat
  /\ rate \in [Paths -> Nat] /\ delay \in [Paths -> Nat]
  /\ stopped = {} => /\ pids \in Seq(Paths)
                     /\ queue \in [Paths -> Nat]
                     /\ TablesOK

\* The usable paths are finitely many numbers, all registered.
LEMMA UsableOK ==
  /\ IsFiniteSet(Usable) /\ Usable \subseteq Paths /\ Usable \subseteq Registered
  /\ Usable \subseteq Nat
<1>1. Usable \subseteq Paths /\ Usable \subseteq Registered
  BY DEF Usable, UsableOf, Registered
<1>2. IsFiniteSet(Usable)
  BY <1>1, FS_Subset, SchedulersAssumption
<1> QED
  BY <1>1, <1>2, SchedulersAssumption

\* The bytes put on a path are a number.
LEMMA PutOnNat ==
  ASSUME NEW p, NEW n \in Nat, NEW s, DOMAIN s = 1 .. n,
         NEW lens, \A k \in 1 .. n : lens[k] \in Nat
  PROVE  PutOn(p, s, lens) \in Nat
<1> DEFINE D == DOMAIN s
           id == [i \in D |-> i]
           add(i, sum) == IF s[i] = p THEN sum + lens[i] ELSE sum
           Is(g) == g = [T \in SUBSET DOMAIN id |->
                           IF T = {} THEN 0
                           ELSE IF s[id[Max(T)]] = p
                                THEN g[T \ {Max(T)}] + lens[id[Max(T)]]
                                ELSE g[T \ {Max(T)}]]
           sum == CHOOSE g : Is(g)
<1>1. PutOn(p, s, lens) = sum[DOMAIN id]
  BY DEF PutOn, FoldLeftDomain, FoldLeft, MapThenFoldSet
<1>2. DOMAIN id = D /\ \A i \in D : id[i] = i
  OBVIOUS
<1> HIDE DEF id
<1>3. D = 1 .. n /\ D \subseteq Int /\ IsFiniteSet(D)
  <2> DEFINE low == 1
  <2>1. low \in Int /\ n \in Int
    OBVIOUS
  <2> HIDE DEF low
  <2>2. IsFiniteSet(low .. n)
    BY <2>1, FS_Interval
  <2> QED
    BY <2>2 DEF low
<1>4. ASSUME NEW i \in D, NEW y \in Nat PROVE add(i, y) \in Nat
  BY <1>3
<1> HIDE DEF D
<1> DEFINE pick == [T \in SUBSET D |-> Max(T)]
           V == Nat
           zero == 0
           step == [q \in D \X V |-> add(q[1], q[2])]
<1>5. Picks(pick, D) /\ \A T \in SUBSET D : T # {} => Max(T) \in T
  <2>1. ASSUME NEW T \in SUBSET D, T # {} PROVE Max(T) \in T
    <3>1. IsFiniteSet(T) /\ T \subseteq Int
      BY <1>3, FS_Subset
    <3> QED
      BY <2>1, <3>1, GreatestOf
  <2> QED
    BY <2>1 DEF Picks
<1>6. step \in [D \X V -> V] /\ zero \in V
  BY <1>4
<1>7. \A i \in D, y \in V : step[<<i, y>>] = add(i, y)
  OBVIOUS
<1>8. \A T \in SUBSET D : pick[T] = Max(T)
  OBVIOUS
<1> HIDE DEF step, V, zero, pick
<1>9. PICK g : Folds(g, D, V, zero, step, pick)
  BY <1>3, <1>5, <1>6, FoldExists
<1>10. ASSUME NEW T \in SUBSET D
       PROVE  g[T] = IF T = {} THEN 0
                     ELSE IF s[id[Max(T)]] = p
                          THEN g[T \ {Max(T)}] + lens[id[Max(T)]]
                          ELSE g[T \ {Max(T)}]
  <2>1. CASE T = {}
    BY <1>9, <2>1 DEF Folds, zero
  <2>2. CASE T # {}
    <3>1. Max(T) \in D /\ id[Max(T)] = Max(T) /\ T \ {Max(T)} \in SUBSET D
      BY <1>2, <1>5, <2>2
    <3>2. g[T \ {Max(T)}] \in V
      BY <1>9, <3>1 DEF Folds
    <3>3. g[T] = step[<<Max(T), g[T \ {Max(T)}]>>]
      BY <1>8, <1>9, <2>2 DEF Folds
    <3>4. g[T] = add(Max(T), g[T \ {Max(T)}])
      BY <1>7, <3>1, <3>2, <3>3
    <3> QED
      BY <2>2, <3>1, <3>4
  <2> QED
    BY <2>1, <2>2
<1>11. Is(g)
  BY <1>2, <1>9, <1>10 DEF Folds
<1>12. Is(sum)
  <2> HIDE DEF Is
  <2> QED
    BY <1>11
<1> HIDE DEF sum
<1> DEFINE P == {T \in SUBSET D : sum[T] \in Nat}
<1>13. ASSUME NEW T \in SUBSET D, \A t \in SUBSET T : t # T => t \in P PROVE T \in P
  <2>1. CASE T = {}
    BY <1>2, <1>12, <2>1
  <2>2. CASE T # {}
    <3>1. Max(T) \in T /\ id[Max(T)] = Max(T)
      BY <1>2, <1>5, <2>2
    <3>2. T \ {Max(T)} \in P
      BY <1>13, <3>1
    <3>3. sum[T] = add(Max(T), sum[T \ {Max(T)}])
      <4>1. T \in SUBSET DOMAIN id
        BY <1>2
      <4>2. sum[T] = IF s[id[Max(T)]] = p
                     THEN sum[T \ {Max(T)}] + lens[id[Max(T)]]
                     ELSE sum[T \ {Max(T)}]
        BY <1>12, <2>2, <4>1
      <4> QED
        BY <3>1, <4>2
    <3> QED
      BY <1>4, <3>1, <3>2, <3>3
  <2> QED
    BY <2>1, <2>2
<1> HIDE DEF P
<1>14. \A T \in SUBSET D : T \in P
  <2>1. IsFiniteSet(D)
    BY <1>3
  <2> QED
    BY <1>13, <2>1, AllSubsets
<1> QED
  BY <1>1, <1>2, <1>14 DEF P

\* RoundRobin takes registered paths, whatever index it starts from.
LEMMA RoundRobinOK ==
  ASSUME StateOK, stopped = {}, pids # <<>>, NEW from \in Nat, NEW n \in Nat
  PROVE  RoundRobin(from, n) \in [1 .. n -> Registered]
<1>1. pids \in Seq(Paths) /\ Len(pids) \in Nat \ {0}
  BY DEF StateOK
<1>2. ASSUME NEW k \in 1 .. n PROVE pids[((from + k - 1) % Len(pids)) + 1] \in Registered
  <2> DEFINE i == ((from + k - 1) % Len(pids)) + 1
  <2>1. (from + k - 1) % Len(pids) \in 0 .. (Len(pids) - 1)
    BY <1>1
  <2>2. i \in 1 .. Len(pids)
    BY <1>1, <2>1
  <2> HIDE DEF i
  <2>3. pids[i] \in Registered
    BY <1>1, <2>2 DEF Registered, Contains
  <2> QED
    BY <2>3 DEF i
<1> QED
  BY <1>2 DEF RoundRobin

\* The least round trip is that of a registered path.
LEMMA LeastRttOK ==
  ASSUME StateOK, stopped = {}, pids # <<>>
  PROVE  LeastRtt \in Registered
<1>1. pids \in Seq(Paths) /\ Len(pids) \in Nat \ {0} /\ delay \in [Paths -> Nat]
  BY DEF StateOK
<1> DEFINE n == Len(pids)
           values == {delay[pids[i]] : i \in 1 .. n}
           least == {i \in 1 .. n : \A j \in 1 .. n : delay[pids[i]] =< delay[pids[j]]}
<1>2. \A i \in 1 .. n : pids[i] \in Paths
  BY <1>1
<1>3. values \in SUBSET Nat /\ values # {}
  BY <1>1, <1>2
<1>4. Min(values) \in values /\ \A v \in values : Min(values) <= v
  <2> HIDE DEF values
  <2> QED
    BY <1>3, LeastOf
<1>5. least # {} /\ least \in SUBSET Nat
  <2>1. PICK i \in 1 .. n : delay[pids[i]] = Min(values)
    BY <1>4
  <2>2. \A j \in 1 .. n : delay[pids[i]] <= delay[pids[j]]
    BY <1>4, <2>1
  <2> HIDE DEF n
  <2>3. i \in least
    BY <2>2
  <2>4. least \in SUBSET Nat
    OBVIOUS
  <2> QED
    BY <2>3, <2>4
<1>6. LeastRtt = pids[Min(least)]
  BY DEF LeastRtt
<1>7. Min(least) \in least
  <2> HIDE DEF least
  <2> QED
    BY <1>5, LeastOf
<1>8. Min(least) \in 1 .. n
  BY <1>7
<1> HIDE DEF least
<1> QED
  BY <1>1, <1>2, <1>6, <1>8 DEF Registered, Contains

\* A result for n packets: the code goes wrong, or puts all on usable paths.
UsableResult(res, n) ==
  res \in {Undefined, Endless} \/ \E s \in [1 .. n -> Usable] : res = Done(s)

\* The weighted round robin never takes a path that has no weight.
LEMMA WrrResultOK ==
  ASSUME NEW weight, WeightsOK(weight), DOMAIN weight \subseteq Usable, NEW n \in Nat
  PROVE  UsableResult(WrrResult(weight, n), n)
<1>1. CASE HasServer(weight)
  <2>1. GetServers(weight, n) \in [1 .. n -> Positive(weight)]
    BY <1>1, GetServersOK
  <2>2. Positive(weight) \subseteq Usable
    BY DEF Positive
  <2>3. GetServers(weight, n) \in [1 .. n -> Usable]
    BY <2>1, <2>2
  <2> QED
    BY <1>1, <2>3 DEF WrrResult, UsableResult
<1>2. CASE ~HasServer(weight)
  BY <1>2 DEF WrrResult, UsableResult
<1> QED
  BY <1>1, <1>2

\* With a usable path the total rate is a positive number.
LEMMA TotalRateOK ==
  ASSUME StateOK, Usable # {}
  PROVE  TotalRate \in Nat \ {0}
<1>1. rate \in [Paths -> Nat]
  BY DEF StateOK
<1>2. \A p \in Usable : rate[p] \in Nat /\ rate[p] > 0
  BY <1>1 DEF Usable, UsableOf
<1>3. TotalRate \in Nat /\ \A p \in Usable : rate[p] <= TotalRate
  <2> DEFINE S == Usable
  <2>1. IsFiniteSet(S) /\ \A p \in S : rate[p] \in Nat
    BY <1>2, UsableOK
  <2> HIDE DEF S
  <2>2. SumFunctionOnSet(rate, S) \in Nat /\ \A p \in S : rate[p] <= SumFunctionOnSet(rate, S)
    BY <2>1, SumNat
  <2> QED
    BY <2>2 DEF S, TotalRate
<1> QED
  BY <1>2, <1>3

\* WrrSchedule and IdealSchedule: the rounded shares are weights.
LEMMA WrrOK ==
  ASSUME StateOK, NEW n \in Nat, Usable # {}
  PROVE  UsableResult(WrrResult(Weights(n), n), n)
<1>1. rate \in [Paths -> Nat] /\ TotalRate \in Nat \ {0}
  BY TotalRateOK DEF StateOK
<1> DEFINE weight == Weights(n)
<1>2. ASSUME NEW p \in Usable PROVE weight[p] \in Int
  <2>1. rate[p] \in Nat /\ 2 * TotalRate \in Nat \ {0}
    BY <1>1, UsableOK
  <2>2. 2 * n * rate[p] + TotalRate \in Int
    BY <1>1, <2>1
  <2> DEFINE a == 2 * n * rate[p] + TotalRate
             b == 2 * TotalRate
  <2>3. weight[p] = a \div b
    BY DEF Weights
  <2> HIDE DEF a, b
  <2>4. a \div b \in Int
    BY <2>1, <2>2 DEF a, b
  <2> QED
    BY <2>3, <2>4
<1>3. DOMAIN weight = Usable
  BY DEF Weights
<1> HIDE DEF weight
<1>4. WeightsOK(weight)
  <2>1. IsFiniteSet(DOMAIN weight)
    BY <1>3, UsableOK
  <2>2. DOMAIN weight \subseteq Int
    BY <1>3, UsableOK
  <2> QED
    BY <1>2, <1>3, <2>1, <2>2 DEF WeightsOK
<1>5. UsableResult(WrrResult(weight, n), n)
  BY <1>3, <1>4, WrrResultOK
<1> QED
  BY <1>5 DEF weight

\* A cost is a number.
LEMMA CostNat ==
  ASSUME StateOK, NEW p \in Usable, NEW bytes \in Nat
  PROVE  Cost(p, bytes) \in Nat
<1>1. rate[p] \in Nat \ {0} /\ delay[p] \in Nat
  BY UsableOK DEF StateOK, Usable, UsableOf
<1>2. QueueCost(p, bytes) \in Nat
  <2> DEFINE a == bytes * Millis
  <2>1. a \in Nat
    BY WaterFillingAssumption
  <2> HIDE DEF a
  <2>2. a \div rate[p] \in Nat
    BY <1>1, <2>1
  <2> QED
    BY <2>2 DEF QueueCost, a
<1> QED
  BY <1>1, <1>2 DEF Cost, GetCost

\* The cheapest path is one of those compared.
LEMMA CheapestOK ==
  ASSUME NEW S, S \subseteq Nat, S # {}, NEW cost \in [S -> Nat]
  PROVE  Cheapest(cost) \in S
<1> DEFINE values == {cost[p] : p \in S}
           best == {p \in S : \A q \in S : cost[p] =< cost[q]}
<1>1. values \in SUBSET Nat /\ values # {}
  OBVIOUS
<1>2. Min(values) \in values /\ \A v \in values : Min(values) <= v
  <2> HIDE DEF values
  <2> QED
    BY <1>1, LeastOf
<1>3. best # {} /\ best \in SUBSET Nat /\ best \subseteq S
  <2>1. PICK p \in S : cost[p] = Min(values)
    BY <1>2
  <2>2. \A q \in S : cost[p] <= cost[q]
    BY <1>2, <2>1
  <2> QED
    BY <2>2
<1>4. Cheapest(cost) = Min(best)
  BY DEF Cheapest
<1> HIDE DEF best
<1> QED
  BY <1>3, <1>4, LeastOf


\* Packet by packet to the cheapest of the usable paths.
LEMMA GreedyOK ==
  ASSUME StateOK, stopped = {}, Usable # {}, NEW lens \in Seq(Nat)
  PROVE  Greedy(lens) \in [1 .. Len(lens) -> Usable]
<1> DEFINE n == Len(lens)
           S == Usable
           best(s) == Cheapest([p \in Usable |-> Cost(p, queue[p] + PutOn(p, s, lens))])
           Is(f) == f = [k \in 0 .. Len(lens) |->
                           IF k = 0 THEN <<>>
                           ELSE Append(f[k - 1],
                                  Cheapest([p \in Usable |->
                                    Cost(p, queue[p] + PutOn(p, f[k - 1], lens))]))]
           f == CHOOSE g : Is(g)
<1>1. Greedy(lens) = f[n]
  BY DEF Greedy
<1>2. n \in Nat
  OBVIOUS
<1>3. ASSUME NEW s \in Seq(S), Len(s) <= n PROVE best(s) \in S
  <2> DEFINE cost == [p \in S |-> Cost(p, queue[p] + PutOn(p, s, lens))]
  <2>1. ASSUME NEW p \in S PROVE Cost(p, queue[p] + PutOn(p, s, lens)) \in Nat
    <3>1. queue[p] \in Nat
      BY UsableOK DEF StateOK
    <3>2. PutOn(p, s, lens) \in Nat
      <4> DEFINE m == Len(s)
      <4>1. m \in Nat /\ DOMAIN s = 1 .. m /\ \A k \in 1 .. m : lens[k] \in Nat
        BY <1>3
      <4> HIDE DEF m
      <4> QED
        BY <4>1, PutOnNat
    <3> DEFINE bytes == queue[p] + PutOn(p, s, lens)
    <3>3. bytes \in Nat
      BY <3>1, <3>2
    <3> HIDE DEF bytes
    <3>4. Cost(p, bytes) \in Nat
      BY <3>3, CostNat
    <3> QED
      BY <3>4 DEF bytes
  <2>2. cost \in [S -> Nat]
    BY <2>1
  <2>3. S \subseteq Nat /\ S # {}
    BY UsableOK
  <2>4. best(s) = Cheapest(cost)
    OBVIOUS
  <2> HIDE DEF cost, best, S
  <2>5. Cheapest(cost) \in S
    BY <2>2, <2>3, CheapestOK
  <2> QED
    BY <2>4, <2>5
<1> HIDE DEF best
<1> DEFINE V == Seq(S)
           none == <<>>
           step == [q \in (1 .. n) \X V |-> IF Len(q[2]) <= n THEN Append(q[2], best(q[2]))
                                            ELSE q[2]]
<1> HIDE DEF S
<1>4. none \in V /\ step \in [(1 .. n) \X V -> V]
  BY <1>3
<1>5. \A k \in 1 .. n, s \in V : Len(s) <= n => step[<<k, s>>] = Append(s, best(s))
  OBVIOUS
<1> HIDE DEF step, V, none, n
<1>6. PICK g \in [0 .. n -> V] : g[0] = none /\ \A k \in 1 .. n : g[k] = step[<<k, g[k - 1]>>]
  <2>1. n \in Nat
    BY DEF n
  <2>2. none \in V
    BY <1>4
  <2>3. step \in [(1 .. n) \X V -> V]
    BY <1>4
  <2>4. \E g : Recurs(g, n, V, none, step)
    BY <2>1, <2>2, <2>3, RecursionExists
  <2> QED
    BY <2>4 DEF Recurs
<1> DEFINE P == {k \in 0 .. n : g[k] \in V /\ Len(g[k]) = k}
<1>7. ASSUME NEW k \in 1 .. n, k - 1 \in P PROVE g[k] = Append(g[k - 1], best(g[k - 1]))
  <2>1. g[k - 1] \in V /\ Len(g[k - 1]) <= n
    BY <1>2, <1>7
  <2> QED
    BY <1>5, <1>6, <2>1
<1>8. \A k \in 0 .. n : k \in P
  <2>1. 0 \in P
    BY <1>2, <1>4, <1>6 DEF none
  <2>2. ASSUME NEW k \in 1 .. n, k - 1 \in P PROVE k \in P
    <3>1. g[k] = Append(g[k - 1], best(g[k - 1])) /\ g[k] \in V
      BY <1>6, <1>7, <2>2
    <3>2. g[k - 1] \in Seq(S) /\ Len(g[k - 1]) = k - 1
      BY <2>2 DEF V
    <3> QED
      BY <3>1, <3>2
  <2> HIDE DEF P
  <2> QED
    BY <1>2, <2>1, <2>2, UpTo
<1>9. Is(g)
  <2>1. g[0] = <<>>
    BY <1>6 DEF none
  <2>2. ASSUME NEW k \in 1 .. n PROVE g[k] = Append(g[k - 1], best(g[k - 1]))
    <3>1. k - 1 \in 0 .. n
      BY <1>2
    <3> HIDE DEF P
    <3> QED
      BY <1>7, <1>8, <3>1
  <2>3. \A k \in 0 .. n : k = 0 \/ (k \in 1 .. n /\ k # 0)
    BY <1>2
  <2>4. \A k \in 0 .. n : g[k] = IF k = 0 THEN <<>> ELSE Append(g[k - 1], best(g[k - 1]))
    BY <2>1, <2>2, <2>3
  <2> QED
    BY <1>6, <2>4 DEF best, n
<1>10. Is(f)
  <2> HIDE DEF Is
  <2> QED
    BY <1>9
<1> HIDE DEF f
<1> DEFINE Q == {k \in 0 .. n : f[k] = g[k]}
<1>11. \A k \in 0 .. n : k \in Q
  <2>1. 0 \in Q
    <3>1. f[0] = <<>> /\ 0 \in 0 .. n
      BY <1>2, <1>10 DEF n
    <3> QED
      BY <1>6, <3>1 DEF none
  <2>2. ASSUME NEW k \in 1 .. n, k - 1 \in Q PROVE k \in Q
    <3>0. k \in 0 .. n /\ k # 0
      BY <1>2
    <3>1. f[k] = Append(f[k - 1], best(f[k - 1]))
      BY <1>10, <3>0 DEF best, n
    <3>2. g[k] = Append(g[k - 1], best(g[k - 1]))
      BY <1>9, <3>0 DEF best, n
    <3> QED
      BY <2>2, <3>0, <3>1, <3>2
  <2> HIDE DEF Q
  <2> QED
    BY <1>2, <2>1, <2>2, UpTo
<1>12. n \in P /\ n \in Q
  BY <1>2, <1>8, <1>11
<1>13. Greedy(lens) \in Seq(S) /\ Len(Greedy(lens)) = n
  BY <1>1, <1>12 DEF V
<1> QED
  BY <1>13 DEF n, S

\* Each packet is poured into one of the vessels, whatever the water is.
LEMMA PourOK ==
  ASSUME NEW S, NEW c \in Nat \ {0}, NEW order \in [1 .. c -> S], NEW water,
         NEW lens, Len(lens) \in Nat
  PROVE  Pour(order, water, lens) \in [1 .. Len(lens) -> S]
<1> DEFINE n == Len(lens)
           next(head, left) ==
             IF left > 0 \/ head = Len(order) THEN head
             ELSE Min({Len(order)} \cup {i \in head + 1 .. Len(order) : water[i] > 0})
           follow(k, r) ==
             [at   |-> next(r.at, r.left),
              left |-> (IF next(r.at, r.left) = r.at THEN r.left
                        ELSE water[next(r.at, r.left)]) - lens[k]]
           Is(f) == f = [k \in 0 .. Len(lens) |->
                           IF k = 0 THEN [at |-> 1, left |-> water[1]]
                           ELSE [at   |-> next(f[k - 1].at, f[k - 1].left),
                                 left |-> (IF next(f[k - 1].at, f[k - 1].left) = f[k - 1].at
                                           THEN f[k - 1].left
                                           ELSE water[next(f[k - 1].at, f[k - 1].left)])
                                          - lens[k]]]
           f == CHOOSE g : Is(g)
<1>1. Pour(order, water, lens) = [k \in 1 .. n |-> order[f[k].at]]
  BY DEF Pour
<1>2. n \in Nat /\ Len(order) = c
  OBVIOUS
<1>3. ASSUME NEW head \in 1 .. c, NEW left PROVE next(head, left) \in 1 .. c
  <2> DEFINE T == {c} \cup {i \in head + 1 .. c : water[i] > 0}
  <2>1. T \subseteq 1 .. c /\ T \in SUBSET Nat /\ T # {}
    OBVIOUS
  <2>2. next(head, left) \in {head, Min(T)}
    BY <1>2
  <2> HIDE DEF T, next
  <2>3. Min(T) \in T
    BY <2>1, LeastOf
  <2> QED
    BY <2>1, <2>2, <2>3
<1> HIDE DEF next
<1> DEFINE begin == [at |-> 1, left |-> water[1]]
           Good(g, m) ==
             /\ g = [k \in 0 .. m |-> g[k]]
             /\ g[0] = begin /\ \A k \in 1 .. m : g[k] = follow(k, g[k - 1])
           P == {m \in 0 .. n : \E g : Good(g, m)}
<1> HIDE DEF follow, begin, n
<1>4. 0 \in P
  <2> DEFINE g == [k \in 0 .. 0 |-> begin]
  <2>0. g = [k \in 0 .. 0 |-> g[k]] /\ g[0] = begin /\ \A k \in 1 .. 0 : FALSE
    OBVIOUS
  <2> HIDE DEF g
  <2>1. Good(g, 0)
    BY <2>0
  <2>2. 0 \in 0 .. n
    BY <1>2
  <2> HIDE DEF Good
  <2> QED
    BY <2>1, <2>2
<1>5. ASSUME NEW m \in 1 .. n, m - 1 \in P PROVE m \in P
  <2>1. PICK h : Good(h, m - 1)
    BY <1>5
  <2> DEFINE last == follow(m, h[m - 1])
             g == [k \in 0 .. m |-> IF k = m THEN last ELSE h[k]]
  <2> HIDE DEF last
  <2>2. \A k \in 0 .. m : g[k] = IF k = m THEN last ELSE h[k]
    OBVIOUS
  <2>3. g = [k \in 0 .. m |-> g[k]]
    OBVIOUS
  <2> HIDE DEF g
  <2>4. m \in Nat \ {0} /\ m - 1 \in 0 .. m /\ m - 1 # m
    BY <1>2
  <2>5. g[0] = begin
    <3>1. 0 \in 0 .. m /\ 0 # m
      BY <2>4
    <3> QED
      BY <2>1, <2>2, <3>1
  <2>6. ASSUME NEW k \in 1 .. m PROVE g[k] = follow(k, g[k - 1])
    <3>1. k \in 0 .. m /\ k - 1 \in 0 .. m /\ k - 1 # m
      BY <2>4
    <3>2. g[k - 1] = h[k - 1]
      BY <2>2, <3>1
    <3>3. CASE k = m
      BY <2>2, <3>1, <3>2, <3>3 DEF last
    <3>4. CASE k # m
      <4>1. k \in 1 .. (m - 1) /\ g[k] = h[k]
        BY <2>2, <2>4, <3>1, <3>4
      <4> QED
        BY <2>1, <3>2, <4>1
    <3> QED
      BY <3>3, <3>4
  <2>7. Good(g, m)
    BY <2>3, <2>5, <2>6
  <2>8. m \in 0 .. n
    OBVIOUS
  <2> HIDE DEF Good
  <2> QED
    BY <2>7, <2>8
<1>6. n \in P
  <2> HIDE DEF P
  <2>1. \A k \in 0 .. n : k \in P
    BY <1>2, <1>4, <1>5, UpTo
  <2> QED
    BY <1>2, <2>1
<1>7. PICK g : Good(g, n)
  BY <1>6
<1> HIDE DEF P
<1>8. Is(g)
  <2>1. \A k \in 0 .. n : k = 0 \/ (k \in 1 .. n /\ k # 0)
    BY <1>2
  <2>2. \A k \in 0 .. n : g[k] = IF k = 0 THEN begin ELSE follow(k, g[k - 1])
    BY <1>7, <2>1
  <2>3. g = [k \in 0 .. n |-> g[k]]
    BY <1>7
  <2> HIDE DEF Good
  <2> QED
    BY <2>2, <2>3 DEF follow, begin, n
<1>9. Is(f)
  <2> HIDE DEF Is
  <2> QED
    BY <1>8
<1> HIDE DEF f, Good
<1> DEFINE Q == {k \in 0 .. n : f[k].at \in 1 .. c}
<1>10. \A k \in 0 .. n : k \in Q
  <2>1. 0 \in Q
    <3>1. f[0] = [at |-> 1, left |-> water[1]]
      BY <1>2, <1>9 DEF n
    <3> QED
      BY <1>2, <3>1
  <2>2. ASSUME NEW k \in 1 .. n, k - 1 \in Q PROVE k \in Q
    <3>1. k \in 0 .. n /\ k # 0
      BY <1>2
    <3>2. f[k].at = next(f[k - 1].at, f[k - 1].left)
      BY <1>9, <3>1 DEF n
    <3>3. next(f[k - 1].at, f[k - 1].left) \in 1 .. c
      BY <1>3, <2>2
    <3> QED
      BY <3>1, <3>2, <3>3
  <2> HIDE DEF Q
  <2> QED
    BY <1>2, <2>1, <2>2, UpTo
<1>11. ASSUME NEW k \in 1 .. n PROVE order[f[k].at] \in S
  <2>1. k \in 0 .. n
    BY <1>2
  <2>2. f[k].at \in 1 .. c
    BY <1>10, <2>1
  <2> QED
    BY <2>2
<1> QED
  BY <1>1, <1>11 DEF n


\* A table has every usable path once.
LEMMA TableOK ==
  ASSUME NEW owd, NEW order \in Tables(Usable, owd), NEW c, c = Cardinality(Usable)
  PROVE  /\ c \in Nat /\ (Usable # {} => c # 0)
         /\ order \in [1 .. c -> Usable] /\ Len(order) = c
         /\ \A i, j \in 1 .. c : i # j => order[i] # order[j]
         /\ \A p \in Usable : \E i \in 1 .. c : order[i] = p
<1> DEFINE S == Usable
           D == 1 .. c
<1>1. IsFiniteSet(S) /\ c = Cardinality(S)
  BY UsableOK
<1>2. order \in [D -> S] /\ \A i, j \in D : i # j => order[i] # order[j]
  <2>1. order \in SetToSeqs(S)
    BY DEF Tables
  <2> QED
    BY <2>1 DEF SetToSeqs
<1> HIDE DEF S
<1>3. c \in Nat /\ (S # {} => c # 0)
  BY <1>1, FS_CardinalityType, FS_EmptySet
<1>4. IsFiniteSet(D) /\ Cardinality(D) = c
  <2> DEFINE low == 1
  <2>1. low \in Int /\ c \in Int
    BY <1>3
  <2>2. low = 1
    OBVIOUS
  <2> HIDE DEF low
  <2>3. IsFiniteSet(low .. c) /\ Cardinality(low .. c) = IF low > c THEN 0 ELSE c - low + 1
    BY <2>1, FS_Interval
  <2>4. (IF low > c THEN 0 ELSE c - low + 1) = c
    BY <1>3, <2>2
  <2> QED
    BY <2>2, <2>3, <2>4
<1>5. Len(order) = c
  BY <1>2, <1>3
<1> HIDE DEF D
<1>6. order \in Injection(D, S)
  BY <1>2 DEF Injection, IsInjective
<1>7. order \in Surjection(D, S)
  BY <1>1, <1>4, <1>6, FS_Injection
<1>8. \A p \in S : \E i \in D : order[i] = p
  BY <1>7 DEF Surjection
<1> QED
  BY <1>2, <1>3, <1>5, <1>8 DEF D, S

\* The packets of ScaleSchedule: for each path of the table its share.
Filled(order, n) ==
  FoldLeft(LAMBDA s, p : s \o SendAllPackesToPath(p, ScaleShares(n)[p]), <<>>, order)

\* The shares make up the frame when something remains for the last path.
LEMMA ScaleOK ==
  ASSUME StateOK, Usable # {}, NEW n \in Nat, ~(ScaleShares(n)[Max(Usable)] =< 0),
         NEW order \in Tables(Usable, delay)
  PROVE  Filled(order, n) \in [1 .. n -> Usable]
<1> DEFINE U == Usable
           c == Cardinality(U)
           m == Max(U)
           share == ScaleShares(n)
           num == (2 * n * rate[Min(U)] + TotalRate) \div (2 * TotalRate)
           rest == n - num * (c - 1)
           add(s, p) == s \o SendAllPackesToPath(p, share[p])
           D == DOMAIN order
           Is(g) == g = [T \in SUBSET DOMAIN order |->
                           IF T = {} THEN <<>>
                           ELSE g[T \ {Max(T)}] \o
                                  SendAllPackesToPath(order[Max(T)],
                                                      ScaleShares(n)[order[Max(T)]])]
           iter == CHOOSE g : Is(g)
<1>1. Filled(order, n) = iter[D]
  BY Zenon DEF Filled, FoldLeft, MapThenFoldSet
<1>2. /\ c \in Nat \ {0} /\ order \in [1 .. c -> U]
      /\ \A i, j \in 1 .. c : i # j => order[i] # order[j]
      /\ \A p \in U : \E i \in 1 .. c : order[i] = p
  BY TableOK
<1>3. IsFiniteSet(U) /\ U \subseteq Nat /\ U # {}
  BY UsableOK
<1>4. m \in U /\ Min(U) \in U
  <2> HIDE DEF U
  <2>1. U \in SUBSET Nat /\ U \subseteq Int
    BY <1>3
  <2> QED
    BY <1>3, <2>1, GreatestOf, LeastOf
<1>5. num \in Nat
  <2>1. TotalRate \in Nat \ {0} /\ rate[Min(U)] \in Nat
    BY <1>4, TotalRateOK, UsableOK DEF StateOK
  <2> DEFINE a == 2 * n * rate[Min(U)] + TotalRate
             b == 2 * TotalRate
  <2>2. a \in Nat /\ b \in Nat \ {0}
    BY <2>1
  <2> HIDE DEF a, b
  <2>3. a \div b \in Nat
    BY <2>2
  <2> QED
    BY <2>3 DEF a, b
<1>6. \A p \in U : share[p] = IF p = m THEN rest ELSE num
  BY Zenon DEF ScaleShares
<1>7. rest \in Nat /\ rest > 0
  <2>1. ~(share[m] =< 0) /\ share[m] = rest
    BY <1>4, <1>6
  <2> HIDE DEF num, c, share
  <2> QED
    BY <1>2, <1>5, <2>1
<1>8. rest = n - num * (c - 1)
  OBVIOUS
<1> HIDE DEF rest, num, m, c, U
<1> DEFINE V == Seq(U)
<1>9. ASSUME NEW s \in V, NEW p \in U
      PROVE  /\ add(s, p) \in V
             /\ Len(add(s, p)) = Len(s) + (IF p = m THEN rest ELSE num)
  <2> DEFINE more == SendAllPackesToPath(p, share[p])
             k == IF p = m THEN rest ELSE num
  <2>1. k \in Nat /\ share[p] = k
    BY <1>5, <1>6, <1>7
  <2> HIDE DEF k, share
  <2>2. more \in Seq(U) /\ Len(more) = k
    BY <2>1 DEF SendAllPackesToPath
  <2> HIDE DEF more
  <2>3. s \o more \in Seq(U) /\ Len(s \o more) = Len(s) + Len(more)
    BY <2>2, ConcatProperties
  <2> QED
    BY <2>2, <2>3 DEF more, k
<1>10. D = 1 .. c /\ IsFiniteSet(D) /\ D \subseteq Int
  <2>1. D = 1 .. c /\ D \subseteq Int
    BY <1>2
  <2> DEFINE low == 1
  <2>2. low \in Int /\ c \in Int
    BY <1>2
  <2> HIDE DEF low, D
  <2>3. IsFiniteSet(low .. c)
    BY <2>2, FS_Interval
  <2> QED
    BY <2>1, <2>3 DEF low
<1>11. \A i \in D : order[i] \in U
  BY <1>2
<1> HIDE DEF add, V, D
<1> DEFINE pick == [T \in SUBSET D |-> Max(T)]
           none == <<>>
           step == [q \in D \X V |-> add(q[2], order[q[1]])]
<1>12. Picks(pick, D) /\ \A T \in SUBSET D : T # {} => Max(T) \in T
  <2>1. ASSUME NEW T \in SUBSET D, T # {} PROVE Max(T) \in T
    <3>1. IsFiniteSet(T) /\ T \subseteq Int
      BY <1>10, FS_Subset
    <3> QED
      BY <2>1, <3>1, GreatestOf
  <2> QED
    BY <2>1 DEF Picks
<1>13. step \in [D \X V -> V]
  BY <1>9, <1>11
<1>14. none \in V
  BY DEF V
<1>15. \A i \in D, s \in V : step[<<i, s>>] = add(s, order[i])
  OBVIOUS
<1>16. \A T \in SUBSET D : pick[T] = Max(T)
  OBVIOUS
<1>17. IsFiniteSet(D)
  BY <1>10
<1> HIDE DEF step, none, pick
<1>18. PICK g : Folds(g, D, V, none, step, pick)
  BY <1>12, <1>13, <1>14, <1>17, FoldExists
<1>19. ASSUME NEW T \in SUBSET D
       PROVE  g[T] = IF T = {} THEN <<>> ELSE add(g[T \ {Max(T)}], order[Max(T)])
  <2>1. CASE T = {}
    BY <1>18, <2>1 DEF Folds, none
  <2>2. CASE T # {}
    <3>1. Max(T) \in D /\ T \ {Max(T)} \in SUBSET D
      BY <1>12, <2>2
    <3>2. g[T \ {Max(T)}] \in V
      BY <1>18, <3>1 DEF Folds
    <3>3. g[T] = step[<<Max(T), g[T \ {Max(T)}]>>]
      BY <1>16, <1>18, <2>2 DEF Folds
    <3> QED
      BY <1>15, <2>2, <3>1, <3>2, <3>3
  <2> QED
    BY <2>1, <2>2
<1>20. Is(g)
  <2>1. g = [T \in SUBSET D |-> g[T]]
    BY <1>18 DEF Folds
  <2>2. g = [T \in SUBSET D |-> IF T = {} THEN <<>> ELSE add(g[T \ {Max(T)}], order[Max(T)])]
    BY <1>19, <2>1
  <2> QED
    BY Zenon, <2>2 DEF add, D
<1>21. Is(iter)
  <2> HIDE DEF Is
  <2> QED
    BY <1>20
<1> HIDE DEF iter
<1>22. \A T \in SUBSET D :
         iter[T] = IF T = {} THEN <<>> ELSE add(iter[T \ {Max(T)}], order[Max(T)])
  BY Zenon, <1>21 DEF add, D
<1> HIDE DEF Is, share
<1>23. PICK h \in 1 .. c : order[h] = m
  BY <1>2, <1>4
<1> DEFINE size(j) == IF j >= h THEN num * (j - 1) + rest ELSE num * j
           P == {j \in 0 .. c : iter[1 .. j] \in V /\ Len(iter[1 .. j]) = size(j)}
<1>24. 0 \in P
  <2>1. 1 .. 0 = {} /\ {} \in SUBSET D
    OBVIOUS
  <2>2. iter[1 .. 0] = <<>>
    BY <1>22, <2>1
  <2>3. size(0) = 0
    BY <1>5, <1>23
  <2> QED
    BY <1>2, <1>14, <2>2, <2>3 DEF none
<1>25. ASSUME NEW j \in 1 .. c, j - 1 \in P PROVE j \in P
  <2> DEFINE T == 1 .. j
  <2>1. T \in SUBSET D /\ T # {} /\ j \in T /\ \A x \in T : x <= j
    <3>1. T \subseteq 1 .. c
      BY <1>2
    <3>2. j \in T /\ \A x \in T : x <= j
      BY <1>2
    <3> HIDE DEF T
    <3> QED
      BY <1>10, <3>1, <3>2
  <2>2. Max(T) = j
    <3>1. Max(T) \in T /\ \A y \in T : Max(T) >= y
      <4>1. IsFiniteSet(T) /\ T \subseteq Int
        BY <1>10, <2>1, FS_Subset
      <4> HIDE DEF T
      <4> QED
        BY <2>1, <4>1, GreatestOf
    <3>2. Max(T) <= j /\ Max(T) >= j /\ Max(T) \in Int
      BY <2>1, <3>1
    <3> HIDE DEF T
    <3> QED
      BY <1>2, <3>2
  <2>3. T \ {j} = 1 .. (j - 1)
    BY <1>2
  <2>4. iter[T] = add(iter[1 .. (j - 1)], order[j])
    <3> HIDE DEF T
    <3> QED
      BY <1>22, <2>1, <2>2, <2>3
  <2>5. iter[1 .. (j - 1)] \in V /\ Len(iter[1 .. (j - 1)]) = size(j - 1)
    BY <1>25
  <2>6. order[j] \in U /\ (order[j] = m <=> j = h)
    BY <1>2, <1>23
  <2>7. iter[T] \in V /\ Len(iter[T]) = size(j - 1) + (IF j = h THEN rest ELSE num)
    BY <1>9, <2>4, <2>5, <2>6
  <2>8. size(j - 1) + (IF j = h THEN rest ELSE num) = size(j)
    <3>1. j \in Int /\ h \in Int /\ num \in Int /\ rest \in Int
      BY <1>2, <1>5, <1>7
    <3>2. num * j = num * (j - 1) + num /\ num * (j - 1) = num * ((j - 1) - 1) + num
      BY <3>1
    <3>3. num * (j - 1) \in Int /\ num * j \in Int /\ num * ((j - 1) - 1) \in Int
      BY <3>1
    <3>4. CASE j = h
      BY <3>1, <3>2, <3>3, <3>4
    <3>5. CASE j < h
      BY <3>1, <3>2, <3>3, <3>5
    <3>6. CASE j > h
      <4>1. j - 1 >= h /\ j >= h /\ j # h
        BY <3>1, <3>6
      <4>2. size(j - 1) = num * ((j - 1) - 1) + rest /\ size(j) = num * (j - 1) + rest
        BY <4>1
      <4> HIDE DEF size
      <4> QED
        BY <3>1, <3>2, <3>3, <4>1, <4>2
    <3> QED
      BY <3>1, <3>4, <3>5, <3>6
  <2> QED
    BY <2>7, <2>8
<1>26. c \in P
  <2> HIDE DEF P
  <2>1. \A j \in 0 .. c : j \in P
    BY <1>2, <1>24, <1>25, UpTo
  <2> QED
    BY <1>2, <2>1
<1>27. size(c) = n
  <2>1. size(c) = num * (c - 1) + rest /\ num * (c - 1) \in Int
    BY <1>2, <1>5, <1>23
  <2> HIDE DEF size
  <2> QED
    BY <1>8, <2>1
<1>28. Filled(order, n) \in Seq(U) /\ Len(Filled(order, n)) = n
  <2> HIDE DEF size
  <2> QED
    BY <1>1, <1>10, <1>26, <1>27 DEF V
<1> QED
  BY <1>28 DEF U


-----------------------------------------------------------------------------
(***************************************************************************)
(* What is true of every state.                                            *)
(***************************************************************************)
IInv == StateOK /\ EveryPacketPlaced

\* A result for the packets lens: the code goes wrong, or puts every packet
\* on a registered path, and on a usable one where it matters.
ResultOK(res, lens) ==
  \/ res \in {Undefined, Endless}
  \/ \E s \in [1 .. Len(lens) -> Registered] :
       /\ res = Done(s)
       /\ kind # "rr" /\ ~Single(lens) /\ Usable # {} =>
            s \in [1 .. Len(lens) -> Usable]

\* Any choice of usable paths is fine.
LEMMA UsableResultOK ==
  ASSUME NEW res, NEW lens, UsableResult(res, Len(lens))
  PROVE  ResultOK(res, lens)
<1>1. CASE res \in {Undefined, Endless}
  BY <1>1 DEF ResultOK
<1>2. CASE \E s \in [1 .. Len(lens) -> Usable] : res = Done(s)
  <2>1. PICK s \in [1 .. Len(lens) -> Usable] : res = Done(s)
    BY <1>2
  <2>2. s \in [1 .. Len(lens) -> Registered]
    BY UsableOK
  <2> QED
    BY <2>1, <2>2 DEF ResultOK
<1> QED
  BY <1>1, <1>2 DEF UsableResult

\* Placing such a result keeps the pending bytes numbers, and every packet of
\* the frame has its path.
LEMMA PlaceOK ==
  ASSUME StateOK, stopped = {}, NEW lens \in Seq(Nat), NEW res, ResultOK(res, lens),
         Place(lens, res)
  PROVE  /\ queue' \in [Paths -> Nat]
         /\ EveryPacketPlaced'
<1> DEFINE n == Len(lens)
<1>1. n \in Nat /\ \A k \in 1 .. n : lens[k] \in Nat
  OBVIOUS
<1>2. frame' = lens /\ result' = res /\ UNCHANGED <<kind, pids, stopped, pathVars>>
  BY DEF Place
<1>3. \E m \in Nat : m <= n /\ DOMAIN res.placed = 1 .. m
  <2>1. CASE res \in {Undefined, Endless}
    <3>1. res.placed = <<>> /\ DOMAIN <<>> = 1 .. 0
      BY <2>1 DEF Undefined, Endless
    <3> QED
      BY <1>1, <3>1
  <2>2. CASE \E s \in [1 .. n -> Registered] : res = Done(s)
    BY <1>1, <2>2 DEF Done
  <2> QED
    BY <2>1, <2>2 DEF ResultOK
<1> HIDE DEF n
<1>4. queue' \in [Paths -> Nat]
  <2>1. queue \in [Paths -> Nat]
    BY DEF StateOK
  <2>2. PICK m \in Nat : m <= n /\ DOMAIN res.placed = 1 .. m
    BY <1>3
  <2>3. \A k \in 1 .. m : lens[k] \in Nat
    BY <1>1, <2>2
  <2>4. PICK s : s = res.placed
    OBVIOUS
  <2>5. ASSUME NEW p \in Paths PROVE PutOn(p, res.placed, lens) \in Nat
    <3>1. PutOn(p, s, lens) \in Nat
      BY <2>2, <2>3, <2>4, PutOnNat
    <3> QED
      BY <2>4, <3>1
  <2>6. ASSUME NEW p \in Paths PROVE queue[p] + PutOn(p, res.placed, lens) \in Nat
    BY <2>1, <2>5
  <2> QED
    BY <2>1, <2>6 DEF Place
<1>5. ASSUME result'.outcome = "done"
      PROVE  /\ DOMAIN result'.placed = 1 .. Len(frame')
             /\ \A k \in 1 .. Len(frame') :
                  /\ Contains(pids', result'.placed[k])
                  /\ kind' # "rr" /\ ~Single(frame)' /\ Usable' # {} =>
                       rate'[result'.placed[k]] > 0
  <2>1. res \notin {Undefined, Endless}
    BY <1>2, <1>5 DEF Undefined, Endless
  <2>2. PICK s \in [1 .. n -> Registered] :
          /\ res = Done(s)
          /\ kind # "rr" /\ ~Single(lens) /\ Usable # {} => s \in [1 .. n -> Usable]
    BY <2>1 DEF ResultOK, n
  <2>3. result'.placed = s /\ DOMAIN s = 1 .. n /\ Len(frame') = n
    BY <1>2, <2>2 DEF Done, n
  <2>4. Usable' = Usable /\ (Single(frame)' <=> Single(lens))
    BY <1>2 DEF Usable, UsableOf, Single, pathVars
  <2>5. ASSUME NEW k \in 1 .. n
        PROVE  /\ Contains(pids, s[k])
               /\ kind # "rr" /\ ~Single(lens) /\ Usable # {} => rate[s[k]] > 0
    <3>1. Contains(pids, s[k])
      BY DEF Registered
    <3>2. ASSUME kind # "rr" /\ ~Single(lens) /\ Usable # {} PROVE rate[s[k]] > 0
      <4>1. s[k] \in Usable
        BY <2>2, <3>2
      <4> QED
        BY <4>1 DEF Usable, UsableOf
    <3> QED
      BY <3>1, <3>2
  <2> QED
    BY <1>2, <2>3, <2>4, <2>5 DEF pathVars
<1> QED
  BY <1>4, <1>5 DEF EveryPacketPlaced

\* What a frame leaves alone is as it was.
LEMMA PlaceState ==
  ASSUME IInv, stopped = {}, NEW lens \in Seq(Nat), NEW res, ResultOK(res, lens),
         Place(lens, res), last_index' \in Nat,
         UNCHANGED <<cost_table, psi_table, scheduled>>
  PROVE  IInv'
<1>1. queue' \in [Paths -> Nat] /\ EveryPacketPlaced'
  BY PlaceOK DEF IInv
<1>2. UNCHANGED <<kind, pids, stopped, rate, delay>>
  BY DEF Place, pathVars
<1>3. Usable' = Usable
  BY <1>2 DEF Usable, UsableOf
<1>4. TablesOK /\ scheduled \in Nat /\ rate \in [Paths -> Nat] /\ delay \in [Paths -> Nat]
      /\ pids \in Seq(Paths)
  BY DEF IInv, StateOK
<1>5. TablesOK'
  BY <1>2, <1>3, <1>4 DEF TablesOK
<1> QED
  BY <1>1, <1>2, <1>4, <1>5 DEF IInv, StateOK

\* The frames of the instance are sequences of lengths.
LEMMA FrameOK ==
  ASSUME IInv, NEW lens \in Frames, Frame(lens)
  PROVE  /\ lens \in Seq(Nat) /\ Len(lens) \in Nat /\ stopped = {} /\ pids # <<>> /\ StateOK
<1>1. lens \in Seq(Nat)
  BY SchedulersAssumption
<1> QED
  BY <1>1 DEF Frame, IInv

LEMMA RoundRobinStep ==
  ASSUME IInv, NEW lens \in Frames, RoundRobinFrame(lens)
  PROVE  IInv'
<1> DEFINE res == Done(RoundRobin(last_index, Len(lens)))
           n == Len(lens)
<1>1. /\ Frame(lens) /\ Place(lens, res) /\ kind = "rr"
      /\ last_index' = (last_index + Len(lens)) % Cardinality(Paths)
      /\ UNCHANGED <<cost_table, psi_table, scheduled>>
  BY DEF RoundRobinFrame
<1>2. lens \in Seq(Nat) /\ n \in Nat /\ stopped = {} /\ pids # <<>> /\ StateOK
  BY <1>1, FrameOK
<1>3. last_index \in Nat
  BY <1>2 DEF StateOK
<1> HIDE DEF n
<1>4. RoundRobin(last_index, n) \in [1 .. n -> Registered]
  BY <1>2, <1>3, RoundRobinOK
<1>5. ResultOK(res, lens)
  BY <1>1, <1>4 DEF ResultOK, n
<1>6. last_index' \in Nat
  <2>1. Paths # {} /\ IsFiniteSet(Paths)
    BY <1>2, SchedulersAssumption DEF StateOK
  <2>2. Cardinality(Paths) \in Nat \ {0}
    BY <2>1, FS_CardinalityType, FS_EmptySet
  <2> QED
    BY <1>1, <1>2, <1>3, <2>2 DEF n
<1> HIDE DEF res
<1> QED
  BY <1>1, <1>2, <1>5, <1>6, PlaceState

\* A frame whose result is fine keeps the invariant.
LEMMA PlainFrame ==
  ASSUME IInv, NEW lens \in Frames, Frame(lens), NEW res, ResultOK(res, lens),
         Place(lens, res), UNCHANGED edcldVars
  PROVE  IInv'
<1>1. lens \in Seq(Nat) /\ stopped = {} /\ StateOK
  BY FrameOK
<1>2. last_index' \in Nat /\ UNCHANGED <<cost_table, psi_table, scheduled>>
  BY <1>1 DEF StateOK, edcldVars
<1> QED
  BY <1>1, <1>2, PlaceState

\* One path, or one packet.
LEMMA SingleStep ==
  ASSUME IInv, NEW lens \in Frames, SingleFrame(lens)
  PROVE  IInv'
<1> DEFINE n == Len(lens)
<1>1. Frame(lens) /\ Single(lens) /\ UNCHANGED edcldVars
  BY DEF SingleFrame
<1>2. lens \in Seq(Nat) /\ n \in Nat /\ stopped = {} /\ pids # <<>> /\ StateOK
  BY <1>1, FrameOK
<1>3. ASSUME NEW s \in [1 .. n -> Registered] PROVE ResultOK(Done(s), lens)
  BY <1>1 DEF ResultOK
<1> HIDE DEF n
<1>4. ASSUME NEW p \in Registered PROVE ResultOK(Done(SendAllPackesToPath(p, n)), lens)
  <2>1. SendAllPackesToPath(p, n) \in [1 .. n -> Registered]
    BY DEF SendAllPackesToPath
  <2> QED
    BY <1>3, <2>1
<1>5. CASE kind = "bcV1"
  <2>1. Place(lens, Done(SendAllPackesToPath(LeastRtt, n)))
    BY <1>5 DEF SingleFrame, n
  <2>2. LeastRtt \in Registered
    BY <1>2, LeastRttOK
  <2>3. ResultOK(Done(SendAllPackesToPath(LeastRtt, n)), lens)
    BY <1>4, <2>2
  <2> QED
    BY <1>1, <2>1, <2>3, PlainFrame
<1>6. CASE kind # "bcV1" /\ kind = "sflV1" /\ Len(pids) > 1
  <2>1. CASE Usable = {}
    <3>1. Place(lens, Undefined)
      BY <1>6, <2>1 DEF SingleFrame
    <3>2. ResultOK(Undefined, lens)
      BY DEF ResultOK
    <3> QED
      BY <1>1, <3>1, <3>2, PlainFrame
  <2>2. CASE Usable # {}
    <3>1. PICK t \in Tables(Usable, Owd) : Place(lens, Done(SendAllPackesToPath(t[1], n)))
      BY <1>6, <2>2 DEF SingleFrame, n
    <3>2. PICK c : c = Cardinality(Usable)
      OBVIOUS
    <3>3. c \in Nat /\ c # 0 /\ t \in [1 .. c -> Usable]
      BY <2>2, <3>2, TableOK
    <3>4. t[1] \in Registered
      <4>1. 1 \in 1 .. c
        BY <3>3
      <4> QED
        BY <3>3, <4>1, UsableOK
    <3>5. ResultOK(Done(SendAllPackesToPath(t[1], n)), lens)
      BY <1>4, <3>4
    <3> QED
      BY <1>1, <3>1, <3>5, PlainFrame
  <2> QED
    BY <2>1, <2>2
<1>7. CASE kind # "bcV1" /\ ~(kind = "sflV1" /\ Len(pids) > 1)
  <2> DEFINE zero == 0
  <2>1. Place(lens, Done(RoundRobin(zero, n)))
    BY <1>7 DEF SingleFrame, n
  <2>2. zero \in Nat
    OBVIOUS
  <2> HIDE DEF zero
  <2>3. RoundRobin(zero, n) \in [1 .. n -> Registered]
    BY <1>2, <2>2, RoundRobinOK
  <2>4. ResultOK(Done(RoundRobin(zero, n)), lens)
    BY <1>3, <2>3
  <2> QED
    BY <1>1, <2>1, <2>4, PlainFrame
<1> QED
  BY <1>5, <1>6, <1>7

\* Weighted round robin of WrrSchedule and IdealSchedule.
LEMMA WrrStep ==
  ASSUME IInv, NEW lens \in Frames, WrrFrame(lens)
  PROVE  IInv'
<1> DEFINE n == Len(lens)
<1>1. Frame(lens) /\ UNCHANGED edcldVars /\ kind \in {"wrr", "ideal"}
  BY DEF WrrFrame, Several
<1>2. lens \in Seq(Nat) /\ n \in Nat /\ stopped = {} /\ pids # <<>> /\ StateOK
  BY <1>1, FrameOK
<1> HIDE DEF n
<1>3. CASE kind = "wrr" /\ Usable = {}
  <2> DEFINE zero == 0
  <2>1. Place(lens, Done(RoundRobin(zero, n)))
    BY <1>3 DEF WrrFrame, n
  <2>2. zero \in Nat
    OBVIOUS
  <2> HIDE DEF zero
  <2>3. RoundRobin(zero, n) \in [1 .. n -> Registered]
    BY <1>2, <2>2, RoundRobinOK
  <2>4. ResultOK(Done(RoundRobin(zero, n)), lens)
    BY <1>3, <2>3 DEF ResultOK, n
  <2> QED
    BY <1>1, <2>1, <2>4, PlainFrame
<1>4. CASE ~(kind = "wrr" /\ Usable = {})
  <2>1. Place(lens, WrrResult(Weights(n), n))
    BY <1>4 DEF WrrFrame, n
  <2>2. UsableResult(WrrResult(Weights(n), n), n)
    <3>1. CASE Usable # {}
      BY <1>2, <3>1, WrrOK
    <3>2. CASE Usable = {}
      <4>1. ~HasServer(Weights(n))
        BY <3>2 DEF HasServer, Weights
      <4> QED
        BY <4>1 DEF WrrResult, UsableResult
    <3> QED
      BY <3>1, <3>2
  <2>3. ResultOK(WrrResult(Weights(n), n), lens)
    BY <2>2, UsableResultOK DEF n
  <2> QED
    BY <1>1, <2>1, <2>3, PlainFrame
<1> QED
  BY <1>3, <1>4

\* The cheapest path for each packet: MinQueueSchedule, BalanceCostSchedule.
LEMMA GreedyStep ==
  ASSUME IInv, NEW lens \in Frames, MinQueueFrame(lens) \/ BalanceCostFrame(lens)
  PROVE  IInv'
<1>1. Frame(lens) /\ UNCHANGED edcldVars /\ Place(lens, GreedyResult(lens))
  BY DEF MinQueueFrame, BalanceCostFrame, Several
<1>2. lens \in Seq(Nat) /\ stopped = {} /\ StateOK
  BY <1>1, FrameOK
<1>3. UsableResult(GreedyResult(lens), Len(lens))
  <2>1. CASE Usable = {}
    BY <2>1 DEF GreedyResult, UsableResult
  <2>2. CASE Usable # {}
    <3>1. Greedy(lens) \in [1 .. Len(lens) -> Usable]
      BY <1>2, <2>2, GreedyOK
    <3> QED
      BY <2>2, <3>1 DEF GreedyResult, UsableResult
  <2> QED
    BY <2>1, <2>2
<1>4. ResultOK(GreedyResult(lens), lens)
  BY <1>3, UsableResultOK
<1> QED
  BY <1>1, <1>4, PlainFrame

\* The water filling: WaterFillingSchedule, SFLSchedule, SFLV1.
LEMMA WaterStep ==
  ASSUME IInv, NEW lens \in Frames, WaterFrame(lens)
  PROVE  IInv'
<1>1. Frame(lens) /\ UNCHANGED edcldVars
  BY DEF WaterFrame, Several
<1>2. PICK res \in WaterResults(lens) : Place(lens, res)
  BY DEF WaterFrame
<1>3. lens \in Seq(Nat) /\ Len(lens) \in Nat
  BY <1>1, FrameOK
<1>4. UsableResult(res, Len(lens))
  <2>1. CASE Usable = {}
    BY <1>2, <2>1 DEF WaterResults, UsableResult
  <2>2. CASE Usable # {}
    <3>1. PICK order \in Tables(Usable, Owd) :
            \E water : res = Endless \/ res = Done(Pour(order, water, lens))
      BY <1>2, <2>2 DEF WaterResults
    <3>2. PICK water : res = Endless \/ res = Done(Pour(order, water, lens))
      BY <3>1
    <3>3. PICK c : c = Cardinality(Usable)
      OBVIOUS
    <3>4. c \in Nat \ {0} /\ order \in [1 .. c -> Usable]
      BY <2>2, <3>3, TableOK
    <3>5. Pour(order, water, lens) \in [1 .. Len(lens) -> Usable]
      <4> DEFINE S == Usable
      <4>1. order \in [1 .. c -> S]
        BY <3>4
      <4> HIDE DEF S
      <4>2. Pour(order, water, lens) \in [1 .. Len(lens) -> S]
        BY <1>3, <3>4, <4>1, PourOK
      <4> QED
        BY <4>2 DEF S
    <3> QED
      BY <3>2, <3>5 DEF UsableResult
  <2> QED
    BY <2>1, <2>2
<1>5. ResultOK(res, lens)
  BY <1>4, UsableResultOK
<1> QED
  BY <1>1, <1>2, <1>5, PlainFrame

\* ScaleSchedule.
LEMMA ScaleStep ==
  ASSUME IInv, NEW lens \in Frames, ScaleFrame(lens)
  PROVE  IInv'
<1> DEFINE n == Len(lens)
<1>1. Frame(lens) /\ UNCHANGED edcldVars
  BY DEF ScaleFrame, Several
<1>2. PICK res \in ScaleResults(n) : Place(lens, res)
  BY DEF ScaleFrame
<1>3. lens \in Seq(Nat) /\ n \in Nat /\ StateOK
  BY <1>1, FrameOK
<1> HIDE DEF n
<1>4. UsableResult(res, n)
  <2>1. CASE Usable = {} \/ ScaleShares(n)[Max(Usable)] =< 0
    BY <1>2, <2>1 DEF ScaleResults, UsableResult
  <2>2. CASE ~(Usable = {} \/ ScaleShares(n)[Max(Usable)] =< 0)
    <3>1. PICK order \in Tables(Usable, delay) : res = Done(Filled(order, n))
      BY Zenon, <1>2, <2>2 DEF ScaleResults, Filled
    <3>2. Filled(order, n) \in [1 .. n -> Usable]
      <4>1. ~(ScaleShares(n)[Max(Usable)] =< 0) /\ Usable # {}
        BY <2>2
      <4> QED
        BY <1>3, <4>1, ScaleOK
    <3> QED
      BY <3>1, <3>2 DEF UsableResult
  <2> QED
    BY <2>1, <2>2
<1>5. ResultOK(res, lens)
  BY <1>4, UsableResultOK DEF n
<1> QED
  BY <1>1, <1>2, <1>5, PlainFrame


-----------------------------------------------------------------------------
(***************************************************************************)
(* The tables of EDCLD.                                                    *)
(***************************************************************************)
\* The ratios of the usable paths are numbers.
LEMMA RatiosOK ==
  ASSUME StateOK, NEW ids
  PROVE  /\ DOMAIN Ratios(ids) = UsableOf(ids)
         /\ \A p \in UsableOf(ids) : Ratios(ids)[p] \in Nat
<1> DEFINE S == UsableOf(ids)
           total == SumFunctionOnSet(rate, S)
<1>1. DOMAIN Ratios(ids) = S /\ \A p \in S : Ratios(ids)[p] = (rate[p] * Unit) \div total
  BY DEF Ratios
<1>2. \A p \in S : rate[p] \in Nat /\ rate[p] > 0
  BY DEF StateOK, UsableOf
<1>3. IsFiniteSet(S)
  <2>1. S \subseteq Paths
    BY DEF UsableOf
  <2> QED
    BY <2>1, FS_Subset, SchedulersAssumption
<1>4. total \in Nat /\ \A p \in S : rate[p] <= total
  <2> HIDE DEF S
  <2> QED
    BY <1>2, <1>3, SumNat
<1> HIDE DEF total, S
<1>5. ASSUME NEW p \in S PROVE (rate[p] * Unit) \div total \in Nat
  <2> DEFINE a == rate[p] * Unit
  <2>1. a \in Nat
    BY <1>2, SchedulersAssumption
  <2>2. total \in Nat \ {0}
    BY <1>2, <1>4
  <2> HIDE DEF a
  <2>3. a \div total \in Nat
    BY <2>1, <2>2
  <2> QED
    BY <2>3 DEF a
<1> QED
  BY <1>1, <1>5 DEF S

\* A reset keeps the old ratios and adds those of the new paths.
LEMMA ResetOK ==
  ASSUME NEW ratios
  PROVE  /\ DOMAIN ResetPsi(ratios) = DOMAIN psi_table \cup DOMAIN ratios
         /\ \A p \in DOMAIN psi_table \cup DOMAIN ratios :
              ResetPsi(ratios)[p] = IF p \in DOMAIN psi_table THEN psi_table[p] ELSE ratios[p]
BY DEF ResetPsi

\* What a frame moves from the dearest path to the cheapest leaves the sum as
\* it is and takes no more than there is.
LEMMA UpdateOK ==
  ASSUME NEW psi, IsFiniteSet(DOMAIN psi), \A p \in DOMAIN psi : psi[p] \in Nat,
         cost_table \subseteq DOMAIN psi, NEW new \in UpdateCostAndPsiTable(psi)
  PROVE  /\ DOMAIN new = DOMAIN psi
         /\ \A p \in DOMAIN new : new[p] \in Nat
         /\ SumFunction(new) = SumFunction(psi)
<1>1. CASE new = psi
  BY <1>1
<1>2. CASE new # psi
  <2> DEFINE D == DOMAIN psi
  <2>1. PICK t \in cost_table \X cost_table \X (Roots \cup {psi[p] : p \in cost_table}) :
          /\ t[1] # t[2]
          /\ new = [psi EXCEPT ![t[1]] = @ + Min({t[3], psi[t[2]]}),
                               ![t[2]] = @ - Min({t[3], psi[t[2]]})]
    BY <1>2 DEF UpdateCostAndPsiTable
  <2> DEFINE a == t[1]
             b == t[2]
             m == Min({t[3], psi[b]})
  <2>2. a \in D /\ b \in D /\ a # b
    BY <2>1
  <2>3. m \in Nat /\ m <= psi[b]
    <3> DEFINE T == {t[3], psi[b]}
    <3>1. T \in SUBSET Nat /\ T # {}
      BY <2>1, SchedulersAssumption
    <3>2. psi[b] \in T /\ T \subseteq Nat /\ m = Min(T)
      BY <3>1
    <3> HIDE DEF T, m
    <3>3. Min(T) \in T /\ \A x \in T : Min(T) <= x
      BY <3>1, LeastOf
    <3> QED
      BY <3>2, <3>3
  <2>4. new = [psi EXCEPT ![a] = @ + m, ![b] = @ - m]
    BY <2>1
  <2> HIDE DEF a, b, m
  <2>5. /\ DOMAIN new = D /\ new[a] = psi[a] + m /\ new[b] = psi[b] - m
        /\ \A p \in D : p # a /\ p # b => new[p] = psi[p]
    BY <2>2, <2>4
  <2>6. \A p \in D : psi[p] \in Nat /\ psi[p] \in Int
    OBVIOUS
  <2>7. \A p \in D : new[p] \in Nat /\ new[p] \in Int
    BY <2>2, <2>3, <2>5, <2>6
  <2> DEFINE R == D \ {a}
             Q == R \ {b}
  <2>8. IsFiniteSet(D) /\ IsFiniteSet(R) /\ IsFiniteSet(Q) /\ b \in R
    BY <2>2, FS_Subset
  <2>9. \A p \in R : psi[p] \in Int /\ new[p] \in Int
    BY <2>6, <2>7
  <2>10. \A p \in Q : psi[p] \in Int /\ new[p] = psi[p]
    BY <2>5, <2>6
  <2>11. /\ SumFunction(new) = SumFunctionOnSet(new, D)
         /\ SumFunction(psi) = SumFunctionOnSet(psi, D)
    BY <2>5 DEF SumFunction
  <2> HIDE DEF D
  <2>12. SumFunctionOnSet(new, D) = new[a] + SumFunctionOnSet(new, R)
    BY <2>2, <2>7, <2>8, SumRemove
  <2>13. SumFunctionOnSet(psi, D) = psi[a] + SumFunctionOnSet(psi, R)
    BY <2>2, <2>6, <2>8, SumRemove
  <2> HIDE DEF R
  <2>14. SumFunctionOnSet(new, R) = new[b] + SumFunctionOnSet(new, Q)
    BY <2>8, <2>9, SumRemove
  <2>15. SumFunctionOnSet(psi, R) = psi[b] + SumFunctionOnSet(psi, Q)
    BY <2>8, <2>9, SumRemove
  <2> HIDE DEF Q
  <2>16. SumFunctionOnSet(new, Q) = SumFunctionOnSet(psi, Q)
    BY <2>8, <2>10, SumSame
  <2>17. SumFunctionOnSet(psi, Q) \in Int
    BY <2>8, <2>10, SumInt
  <2>18. psi[a] \in Int /\ psi[b] \in Int
    BY <2>2, <2>6
  <2>19. SumFunction(new) = SumFunction(psi)
    BY <2>3, <2>5, <2>11, <2>12, <2>13, <2>14, <2>15, <2>16, <2>17, <2>18
  <2> QED
    BY <2>5, <2>7, <2>19 DEF D
<1> QED
  BY <1>1, <1>2

\* The floors of the ratios are weights.
LEMMA FloorOK ==
  ASSUME NEW psi, DOMAIN psi \subseteq Usable, \A p \in DOMAIN psi : psi[p] \in Nat,
         NEW n \in Nat
  PROVE  UsableResult(WrrResult(FloorWeights(psi, n), n), n)
<1> DEFINE weight == FloorWeights(psi, n)
<1>1. ASSUME NEW p \in DOMAIN psi PROVE weight[p] \in Int
  <2> DEFINE a == n * psi[p]
  <2>1. a \in Nat
    OBVIOUS
  <2>2. weight[p] = a \div Unit
    BY DEF FloorWeights
  <2> HIDE DEF a, weight
  <2>3. a \div Unit \in Int
    BY <2>1, SchedulersAssumption
  <2> QED
    BY <2>2, <2>3
<1>2. DOMAIN weight = DOMAIN psi
  BY DEF FloorWeights
<1> HIDE DEF weight
<1>3. WeightsOK(weight)
  <2>1. IsFiniteSet(DOMAIN weight)
    <3> DEFINE D == DOMAIN weight
    <3>1. D \subseteq Usable /\ IsFiniteSet(Usable)
      BY <1>2, UsableOK
    <3> HIDE DEF D
    <3>2. IsFiniteSet(D)
      BY <3>1, FS_Subset
    <3> QED
      BY <3>2 DEF D
  <2>2. DOMAIN weight \subseteq Int
    <3> DEFINE D == DOMAIN weight
               U == Usable
    <3>1. D \subseteq U /\ U \subseteq Nat
      BY <1>2, UsableOK
    <3> HIDE DEF D, U
    <3>2. D \subseteq Int
      BY <3>1
    <3> QED
      BY <3>2 DEF D
  <2> QED
    BY <1>1, <1>2, <2>1, <2>2 DEF WeightsOK
<1>4. UsableResult(WrrResult(weight, n), n)
  BY <1>2, <1>3, WrrResultOK
<1> QED
  BY <1>4 DEF weight

\* A frame of EDCLD: the new table psi is one for the usable paths.
LEMMA EdcldPlaced ==
  ASSUME IInv, NEW lens \in Frames, Frame(lens), UNCHANGED last_index,
         NEW psi, psi_table' = psi, DOMAIN psi \subseteq Usable,
         \A p \in DOMAIN psi : psi[p] \in Nat,
         cost_table' \subseteq DOMAIN psi, scheduled' \in Nat \ {0},
         Place(lens, WrrResult(FloorWeights(psi, Len(lens)), Len(lens)))
  PROVE  IInv'
<1> DEFINE n == Len(lens)
           res == WrrResult(FloorWeights(psi, n), n)
<1>1. lens \in Seq(Nat) /\ n \in Nat /\ stopped = {} /\ StateOK
  BY FrameOK
<1> HIDE DEF n
<1>2. UsableResult(res, n)
  BY <1>1, FloorOK
<1>3. Place(lens, res)
  BY DEF n
<1> HIDE DEF res
<1>4. ResultOK(res, lens)
  BY <1>2, UsableResultOK DEF n
<1>5. queue' \in [Paths -> Nat] /\ EveryPacketPlaced'
  BY <1>1, <1>3, <1>4, PlaceOK
<1>6. UNCHANGED <<kind, pids, stopped, rate, delay>>
  BY <1>3 DEF Place, pathVars
<1>7. Usable' = Usable
  BY <1>6 DEF Usable, UsableOf
<1>8. TablesOK'
  BY <1>6, <1>7 DEF TablesOK
<1> QED
  BY <1>1, <1>5, <1>6, <1>8 DEF IInv, StateOK

LEMMA FirstEdcldStep ==
  ASSUME IInv, NEW lens \in Frames, FirstEdcldFrame(lens)
  PROVE  IInv'
<1>1. /\ Frame(lens) /\ kind \in Edcld /\ scheduled = 0
      /\ cost_table' = Usable /\ psi_table' = ResetPsi(Ratios(pids))
      /\ scheduled' = 1 /\ UNCHANGED last_index
      /\ Place(lens, WrrResult(FloorWeights(psi_table', Len(lens)), Len(lens)))
  BY DEF FirstEdcldFrame, Several
<1>2. stopped = {} /\ StateOK /\ TablesOK
  BY <1>1, FrameOK DEF StateOK
<1>3. PICK psi : psi = ResetPsi(Ratios(pids))
  OBVIOUS
<1>4. DOMAIN psi_table = {}
  BY <1>1, <1>2 DEF TablesOK
<1>5. DOMAIN Ratios(pids) = Usable /\ \A p \in Usable : Ratios(pids)[p] \in Nat
  BY <1>2, RatiosOK DEF Usable
<1>6. DOMAIN psi = Usable /\ \A p \in Usable : psi[p] \in Nat
  BY <1>3, <1>4, <1>5, ResetOK
<1>7. scheduled' \in Nat \ {0}
  BY <1>1
<1>8. psi_table' = psi /\ Place(lens, WrrResult(FloorWeights(psi, Len(lens)), Len(lens)))
  BY <1>1, <1>3
<1> QED
  BY <1>1, <1>6, <1>7, <1>8, EdcldPlaced

LEMMA EdcldStep ==
  ASSUME IInv, NEW lens \in Frames, EdcldFrame(lens)
  PROVE  /\ IInv'
         /\ SumFunction(psi_table') = SumFunction(psi_table)
         /\ \A p \in DOMAIN psi_table' : psi_table'[p] >= 0
<1>1. /\ Frame(lens) /\ kind \in Edcld /\ scheduled \in 1 .. MaxScheduled - 1
      /\ scheduled' = scheduled + 1
      /\ psi_table' \in UpdateCostAndPsiTable(psi_table)
      /\ UNCHANGED <<last_index, cost_table>>
      /\ Place(lens, WrrResult(FloorWeights(psi_table', Len(lens)), Len(lens)))
  BY DEF EdcldFrame, Several
<1>2. stopped = {} /\ StateOK /\ TablesOK
  BY <1>1, FrameOK DEF StateOK
<1>3. PICK old : old = psi_table
  OBVIOUS
<1>4. /\ DOMAIN old \subseteq Usable /\ cost_table \subseteq DOMAIN old
      /\ \A p \in DOMAIN old : old[p] \in Nat
  BY <1>1, <1>2, <1>3 DEF TablesOK
<1>5. PICK psi \in UpdateCostAndPsiTable(old) : psi = psi_table'
  BY <1>1, <1>3
<1>6. IsFiniteSet(DOMAIN old)
  BY <1>4, UsableOK, FS_Subset
<1>7. /\ DOMAIN psi = DOMAIN old /\ \A p \in DOMAIN psi : psi[p] \in Nat
      /\ SumFunction(psi) = SumFunction(old)
  BY <1>4, <1>5, <1>6, UpdateOK
<1>8. scheduled' \in Nat \ {0}
  BY <1>1
<1>9. psi_table' = psi /\ Place(lens, WrrResult(FloorWeights(psi, Len(lens)), Len(lens)))
  BY <1>1, <1>5
<1>10. DOMAIN psi \subseteq Usable /\ cost_table' \subseteq DOMAIN psi
  BY <1>1, <1>4, <1>7
<1>11. IInv'
  BY <1>1, <1>7, <1>8, <1>9, <1>10, EdcldPlaced
<1>12. \A p \in DOMAIN psi : psi[p] >= 0
  BY <1>7
<1> QED
  BY <1>3, <1>7, <1>9, <1>11, <1>12


-----------------------------------------------------------------------------
(***************************************************************************)
(* The steps, and the theorems.                                            *)
(***************************************************************************)
LEMMA InitInv ==
  ASSUME Init
  PROVE  IInv
<1>1. rate \in [Paths -> Nat] /\ queue \in [Paths -> Nat] /\ delay \in [Paths -> Nat]
  BY SchedulersAssumption DEF Init
<1>2. pids \in Seq(Paths) /\ last_index \in Nat /\ scheduled \in Nat
  BY DEF Init
<1>3. TablesOK
  BY DEF Init, TablesOK
<1>4. EveryPacketPlaced
  BY DEF Init, EveryPacketPlaced, NoResult
<1> QED
  BY <1>1, <1>2, <1>3, <1>4 DEF IInv, StateOK

\* A path that comes is added to the tables, unless a path was stopped.
LEMMA RegisterStep ==
  ASSUME IInv, NEW p \in Paths, RegisterPath(p)
  PROVE  IInv'
<1>1. /\ pids' = Append(pids, p)
      /\ IF kind \in Edcld /\ scheduled > 0 THEN Reset(pids')
         ELSE UNCHANGED <<cost_table, psi_table>>
      /\ UNCHANGED <<kind, last_index, scheduled, stopped, rate, delay, queue>>
  BY DEF RegisterPath, pathVars
<1>2. result' \in {Undefined, NoResult}
  BY DEF RegisterPath
<1>3. EveryPacketPlaced'
  BY <1>2 DEF EveryPacketPlaced, Undefined, NoResult
<1>4. last_index \in Nat /\ scheduled \in Nat /\ rate \in [Paths -> Nat] /\ delay \in [Paths -> Nat]
  BY DEF IInv, StateOK
<1>5. ASSUME stopped = {}
      PROVE  pids' \in Seq(Paths) /\ queue' \in [Paths -> Nat] /\ TablesOK'
  <2>1. pids \in Seq(Paths) /\ queue \in [Paths -> Nat] /\ TablesOK /\ StateOK
    BY <1>5 DEF IInv, StateOK
  <2>2. pids' \in Seq(Paths)
    BY <1>1, <2>1
  <2>3. PICK ids : ids = pids'
    OBVIOUS
  <2>4. Usable \subseteq UsableOf(ids) /\ Usable' = UsableOf(ids)
    <3>1. \A q : Contains(pids, q) => Contains(ids, q)
      <4>1. ids = Append(pids, p) /\ pids \in Seq(Paths)
        BY <1>1, <2>1, <2>3
      <4>2. Len(ids) = Len(pids) + 1 /\ \A i \in 1 .. Len(pids) : ids[i] = pids[i]
        BY <4>1
      <4>3. Len(pids) \in Nat
        BY <2>1
      <4> QED
        BY <4>2, <4>3 DEF Contains
    <3>2. Usable' = UsableOf(ids)
      BY <1>1, <2>3 DEF Usable, UsableOf
    <3> QED
      BY <3>1, <3>2 DEF Usable, UsableOf
  <2>5. ASSUME kind \in Edcld
        PROVE  /\ scheduled = 0 => psi_table' = <<>> /\ cost_table' = {}
               /\ DOMAIN psi_table' \subseteq UsableOf(ids) /\ cost_table' \subseteq DOMAIN psi_table'
               /\ \A q \in DOMAIN psi_table' : psi_table'[q] \in Nat
    <3>1. CASE scheduled > 0
      <4>1. cost_table' = UsableOf(ids) /\ psi_table' = ResetPsi(Ratios(ids))
        BY <1>1, <2>3, <2>5, <3>1 DEF Reset
      <4>2. PICK psi : psi = ResetPsi(Ratios(ids))
        OBVIOUS
      <4>3. DOMAIN Ratios(ids) = UsableOf(ids) /\ \A q \in UsableOf(ids) : Ratios(ids)[q] \in Nat
        BY <2>1, RatiosOK
      <4>4. /\ DOMAIN psi = DOMAIN psi_table \cup UsableOf(ids)
            /\ \A q \in DOMAIN psi : psi[q] \in {psi_table[q], Ratios(ids)[q]}
            /\ \A q \in DOMAIN psi : q \notin DOMAIN psi_table => psi[q] = Ratios(ids)[q]
            /\ \A q \in DOMAIN psi_table : psi[q] = psi_table[q]
        BY <4>2, <4>3, ResetOK
      <4>5. DOMAIN psi_table \subseteq Usable /\ \A q \in DOMAIN psi_table : psi_table[q] \in Nat
        BY <2>1, <2>5 DEF TablesOK
      <4>6. DOMAIN psi = UsableOf(ids) /\ \A q \in DOMAIN psi : psi[q] \in Nat
        BY <2>4, <4>3, <4>4, <4>5
      <4>7. ~(scheduled = 0)
        BY <3>1
      <4> QED
        BY <4>1, <4>2, <4>6, <4>7
    <3>2. CASE ~(scheduled > 0)
      <4>1. UNCHANGED <<cost_table, psi_table>>
        BY <1>1, <3>2
      <4> QED
        BY <2>1, <2>4, <2>5, <4>1 DEF TablesOK
    <3> QED
      BY <3>1, <3>2
  <2>6. TablesOK'
    BY <1>1, <2>4, <2>5 DEF TablesOK
  <2> QED
    BY <1>1, <2>1, <2>2, <2>6
<1> QED
  BY <1>1, <1>3, <1>4, <1>5 DEF IInv, StateOK

\* A stop ends the scheduling.
LEMMA UnregisterStep ==
  ASSUME IInv, NEW p \in Paths, UnregisterPath(p)
  PROVE  IInv'
<1>1. /\ stopped' # {} /\ result' = NoResult
      /\ UNCHANGED <<last_index, scheduled, rate, delay>>
  BY DEF UnregisterPath, pathVars
<1>2. EveryPacketPlaced'
  BY <1>1 DEF EveryPacketPlaced, NoResult
<1> QED
  BY <1>1, <1>2 DEF IInv, StateOK

\* A path keeps being usable when its rate changes.
LEMMA RateStep ==
  ASSUME IInv, NEW p \in Paths, RateChange(p)
  PROVE  IInv'
<1>1. /\ stopped = {} /\ result' = NoResult
      /\ UNCHANGED <<kind, pids, last_index, cost_table, psi_table, scheduled, stopped, delay, queue>>
  BY DEF RateChange, edcldVars
<1>2. PICK r \in Rates : rate' = [rate EXCEPT ![p] = r]
  BY DEF RateChange
<1>3. /\ last_index \in Nat /\ scheduled \in Nat /\ rate \in [Paths -> Nat] /\ delay \in [Paths -> Nat]
      /\ pids \in Seq(Paths) /\ queue \in [Paths -> Nat] /\ TablesOK
  BY <1>1 DEF IInv, StateOK
<1>4. r \in Nat /\ r > 0
  BY SchedulersAssumption
<1>5. rate' \in [Paths -> Nat] /\ \A q \in Paths : rate[q] > 0 => rate'[q] > 0
  BY <1>2, <1>3, <1>4
<1>6. Usable \subseteq Usable'
  BY <1>1, <1>5 DEF Usable, UsableOf
<1>7. TablesOK'
  BY <1>1, <1>3, <1>6 DEF TablesOK
<1>8. EveryPacketPlaced'
  BY <1>1 DEF EveryPacketPlaced, NoResult
<1> QED
  BY <1>1, <1>3, <1>5, <1>7, <1>8 DEF IInv, StateOK

LEMMA DrainStep ==
  ASSUME IInv, NEW p \in Paths, Drain(p)
  PROVE  IInv'
<1>1. /\ stopped = {} /\ result' = NoResult
      /\ UNCHANGED <<kind, pids, last_index, cost_table, psi_table, scheduled, stopped, rate, delay>>
  BY DEF Drain, edcldVars, pathVars
<1>2. PICK n \in 0 .. Min({queue[p] - 1, QueueBound}) : queue' = [queue EXCEPT ![p] = n]
  BY DEF Drain
<1>3. /\ last_index \in Nat /\ scheduled \in Nat /\ rate \in [Paths -> Nat] /\ delay \in [Paths -> Nat]
      /\ pids \in Seq(Paths) /\ queue \in [Paths -> Nat] /\ TablesOK
  BY <1>1 DEF IInv, StateOK
<1>4. n \in Nat
  OBVIOUS
<1>5. queue' \in [Paths -> Nat]
  BY <1>2, <1>3, <1>4
<1>6. Usable' = Usable
  BY <1>1 DEF Usable, UsableOf
<1>7. TablesOK'
  BY <1>1, <1>3, <1>6 DEF TablesOK
<1>8. EveryPacketPlaced'
  BY <1>1 DEF EveryPacketPlaced, NoResult
<1> QED
  BY <1>1, <1>3, <1>5, <1>7, <1>8 DEF IInv, StateOK

LEMMA StutterStep ==
  ASSUME IInv, UNCHANGED vars
  PROVE  IInv'
<1>1. UNCHANGED <<kind, pids, last_index, cost_table, psi_table, scheduled, stopped, rate, delay,
                  queue, frame, result>>
  BY DEF vars, edcldVars, pathVars
<1>2. Usable' = Usable /\ (Single(frame)' <=> Single(frame))
  BY <1>1 DEF Usable, UsableOf, Single
<1>3. TablesOK' <=> TablesOK
  BY <1>1, <1>2 DEF TablesOK
<1>4. StateOK'
  BY <1>1, <1>3 DEF IInv, StateOK
<1>5. EveryPacketPlaced'
  BY <1>1, <1>2 DEF IInv, EveryPacketPlaced
<1> QED
  BY <1>4, <1>5 DEF IInv

LEMMA NextInv ==
  ASSUME IInv, [Next]_vars
  PROVE  IInv'
<1>1. ASSUME NEW p \in Paths, RegisterPath(p) \/ UnregisterPath(p) \/ RateChange(p) \/ Drain(p)
      PROVE  IInv'
  BY <1>1, RegisterStep, UnregisterStep, RateStep, DrainStep
<1>2. ASSUME NEW lens \in Frames, IncomingPackets(lens) PROVE IInv'
  BY <1>2, RoundRobinStep, SingleStep, WrrStep, GreedyStep, WaterStep, ScaleStep,
     FirstEdcldStep, EdcldStep DEF IncomingPackets
<1>3. CASE UNCHANGED vars
  BY <1>3, StutterStep
<1> QED
  BY <1>1, <1>2, <1>3 DEF Next

\* A call of IncomingPackets that returns has put every packet of the frame on
\* a registered path, whatever the scheduler, paths, rates, delays and frames
\* are.  A frame of several packets goes to paths with a rate when several paths
\* are registered and one of them has a rate, except with rr, which does not
\* look at rates.
THEOREM PacketsAlwaysPlaced == Spec => []EveryPacketPlaced
<1>1. Init => IInv
  BY InitInv
<1>2. IInv /\ [Next]_vars => IInv'
  BY NextInv
<1>3. IInv => EveryPacketPlaced
  BY DEF IInv
<1> QED
  BY <1>1, <1>2, <1>3, PTL DEF Spec

\* A frame of EDCLD moves ratio between the paths and makes or destroys none,
\* and none is ever negative, whatever the roots are
\* (UpdateCostAndPsiTable).
THEOREM PsiAlwaysConserved == Spec => PsiConserved
<1>1. Init => IInv
  BY InitInv
<1>2. IInv /\ [Next]_vars => IInv'
  BY NextInv
<1>3. IInv /\ [Next]_vars =>
        [ (\E lens \in Frames : EdcldFrame(lens)) =>
            /\ SumFunction(psi_table') = SumFunction(psi_table)
            /\ \A p \in DOMAIN psi_table' : psi_table'[p] >= 0 ]_vars
  BY EdcldStep
<1> QED
  BY <1>1, <1>2, <1>3, PTL DEF Spec, PsiConserved


-----------------------------------------------------------------------------
(***************************************************************************)
(* When the schedulers go wrong.                                           *)
(***************************************************************************)
\* When each share is less than a whole, all together are less than as many
\* wholes.
LEMMA SumBelow ==
  ASSUME NEW S, IsFiniteSet(S), NEW f, \A x \in S : f[x] \in Nat, NEW k \in Nat, NEW B \in Nat,
         \A x \in S : k * f[x] < B
  PROVE  k * SumFunctionOnSet(f, S) + Cardinality(S) <= Cardinality(S) * B
<1> DEFINE sum(s) == SumFunctionOnSet(f, s)
           c(s) == Cardinality(s)
           P == {s \in SUBSET S : k * sum(s) + c(s) <= c(s) * B}
<1>1. ASSUME NEW s \in SUBSET S
      PROVE  /\ IsFiniteSet(s) /\ c(s) \in Nat /\ \A x \in s : f[x] \in Int /\ f[x] \in Nat
             /\ sum(s) \in Nat
  <2>1. IsFiniteSet(s) /\ \A x \in s : f[x] \in Int /\ f[x] \in Nat
    BY FS_Subset
  <2>2. sum(s) \in Nat
    BY <2>1, SumNat
  <2> QED
    BY <2>1, <2>2, FS_CardinalityType
<1>2. ASSUME NEW s \in SUBSET S, \A t \in SUBSET s : t # s => t \in P PROVE s \in P
  <2>1. CASE s = {}
    <3>1. c(s) = 0
      BY <2>1, FS_EmptySet
    <3>2. sum(s) = 0
      <4>1. \A x \in s : f[x] \in Int
        BY <1>1
      <4>2. PICK g, pick : Picks(pick, s) /\ Adds(g, f, s, pick) /\ sum(s) = g[s]
        BY <1>1, <4>1, SumAdds
      <4> QED
        BY <2>1, <4>2 DEF Adds
    <3> HIDE DEF c, sum
    <3> QED
      BY <3>1, <3>2
  <2>2. CASE s # {}
    <3>1. PICK x : x \in s
      BY <2>2
    <3> DEFINE r == s \ {x}
    <3>2. r \in SUBSET S /\ r \in P
      BY <1>2, <3>1
    <3>3. sum(s) = f[x] + sum(r)
      BY <1>1, <3>1, SumRemove
    <3>4. c(r) = c(s) - 1
      BY <1>1, <3>1, FS_RemoveElement
    <3>5. f[x] \in Nat /\ sum(r) \in Nat /\ c(s) \in Nat /\ c(r) \in Nat
      BY <1>1, <3>1, <3>2
    <3>6. k * sum(r) + c(r) <= c(r) * B /\ k * f[x] < B
      BY <3>1, <3>2
    <3> HIDE DEF c, sum, r
    <3>7. k * (f[x] + sum(r)) = k * f[x] + k * sum(r) /\ c(s) * B = c(r) * B + B
      <4>1. c(s) = c(r) + 1
        BY <3>4, <3>5
      <4>2. (c(r) + 1) * B = c(r) * B + B
        BY <3>5
      <4>3. k * (f[x] + sum(r)) = k * f[x] + k * sum(r)
        BY <3>5
      <4> QED
        BY <4>1, <4>2, <4>3
    <3>8. k * f[x] \in Nat /\ k * sum(r) \in Nat /\ c(r) * B \in Nat
      BY <3>5
    <3>9. k * sum(s) + c(s) <= c(s) * B
      BY <3>3, <3>4, <3>5, <3>6, <3>7, <3>8
    <3> QED
      BY <3>9
  <2> QED
    BY <2>1, <2>2
<1> HIDE DEF P
<1>3. S \in P
  BY <1>2, AllSubsets
<1> QED
  BY <1>3 DEF P

\* A quotient that is not positive has a smaller dividend than divisor.
LEMMA NoQuotient ==
  ASSUME NEW a \in Nat, NEW b \in Nat \ {0}, ~(a \div b > 0)
  PROVE  a < b
<1>1. a = b * (a \div b) + (a % b) /\ a % b \in 0 .. (b - 1) /\ a \div b \in Nat
  OBVIOUS
<1>2. a \div b = 0
  BY <1>1
<1> QED
  BY <1>1, <1>2

\* The weights of the rounded shares are all zero only when there are at least
\* twice as many paths as packets.
LEMMA WeightsZero ==
  ASSUME StateOK, NEW n \in Nat, Usable # {}, ~HasServer(Weights(n))
  PROVE  2 * n < Cardinality(Usable)
<1> DEFINE S == Usable
           T == TotalRate
           c == Cardinality(S)
           k == 2 * n
<1>1. T \in Nat \ {0} /\ IsFiniteSet(S) /\ \A p \in S : rate[p] \in Nat
  BY TotalRateOK, UsableOK DEF StateOK
<1>2. ASSUME NEW p \in S PROVE k * rate[p] < T
  <2> DEFINE a == 2 * n * rate[p] + T
             b == 2 * T
  <2>1. ~(Weights(n)[p] > 0)
    BY DEF HasServer, Weights
  <2>2. ~(a \div b > 0)
    BY <2>1 DEF Weights
  <2>3. k * rate[p] \in Nat /\ k * rate[p] = 2 * n * rate[p] /\ rate[p] \in Nat
    BY <1>1
  <2>4. a \in Nat /\ b \in Nat \ {0}
    BY <1>1, <2>3
  <2>5. a = k * rate[p] + T /\ b = T + T
    BY <1>1, <2>3
  <2> HIDE DEF a, b, k, T
  <2>6. a < b
    BY <2>2, <2>4, NoQuotient
  <2> QED
    BY <1>1, <2>3, <2>5, <2>6
<1>3. SumFunctionOnSet(rate, S) = T
  BY DEF TotalRate
<1>4. c \in Nat /\ c # 0
  BY <1>1, FS_CardinalityType, FS_EmptySet
<1>5. k \in Nat
  OBVIOUS
<1>6. k * T + c <= c * T
  <2> HIDE DEF S, k, c
  <2>1. T \in Nat
    BY <1>1
  <2> HIDE DEF T
  <2>2. k * SumFunctionOnSet(rate, S) + Cardinality(S) <= Cardinality(S) * T
    BY <1>1, <1>2, <1>5, <2>1, SumBelow
  <2> QED
    BY <1>3, <2>2 DEF c
<1> HIDE DEF S, c, T, k
<1>7. k < c
  <2>1. SUFFICES ASSUME k >= c PROVE FALSE
    BY <1>4, <1>5
  <2>2. PICK d \in Nat : k = c + d
    <3>1. k - c \in Nat /\ k = c + (k - c)
      BY <1>4, <1>5, <2>1
    <3> QED
      BY <3>1
  <2>3. (c + d) * T = c * T + d * T /\ d * T \in Nat /\ c * T \in Nat
    BY <1>1, <1>4
  <2> QED
    BY <1>1, <1>4, <1>6, <2>2, <2>3
<1> QED
  BY <1>7 DEF k, c, S

\* The floors of the ratios are all zero only when the sum of the ratios is
\* too small for as many packets.
LEMMA FloorsZero ==
  ASSUME NEW psi, IsFiniteSet(DOMAIN psi), \A p \in DOMAIN psi : psi[p] \in Nat,
         NEW n \in Nat, DOMAIN psi # {}, ~HasServer(FloorWeights(psi, n))
  PROVE  n * SumFunction(psi) < Cardinality(DOMAIN psi) * Unit
<1> DEFINE S == DOMAIN psi
           c == Cardinality(S)
           sum == SumFunctionOnSet(psi, S)
<1>1. Unit \in Nat \ {0} /\ Unit \in Nat
  BY SchedulersAssumption
<1>2. ASSUME NEW p \in S PROVE n * psi[p] < Unit
  <2> DEFINE a == n * psi[p]
  <2>1. ~(a \div Unit > 0)
    BY DEF HasServer, FloorWeights
  <2>2. a \in Nat
    OBVIOUS
  <2> HIDE DEF a
  <2>3. a < Unit
    BY <1>1, <2>1, <2>2, NoQuotient
  <2> QED
    BY <2>3 DEF a
<1>3. c \in Nat /\ c # 0 /\ IsFiniteSet(S) /\ \A p \in S : psi[p] \in Nat
  BY FS_CardinalityType, FS_EmptySet
<1>4. SumFunction(psi) = sum
  BY DEF SumFunction
<1> HIDE DEF S
<1>5. sum \in Nat
  BY <1>3, SumNat
<1>6. n * sum + c <= c * Unit
  BY <1>1, <1>2, <1>3, SumBelow
<1> HIDE DEF sum, c
<1>7. n * sum \in Nat /\ c * Unit \in Nat
  BY <1>1, <1>3, <1>5
<1>8. n * sum < c * Unit
  BY <1>3, <1>6, <1>7
<1> QED
  BY <1>4, <1>8 DEF c, S

\* Two paths: the last one gets nothing only when its rate is small.
LEMMA ScaleZero ==
  ASSUME StateOK, NEW n \in Nat \ {0}, Usable # {}, ScaleShares(n)[Max(Usable)] =< 0
  PROVE  Cardinality(Usable) > 2 \/ 2 * n * rate[Max(Usable)] =< TotalRate
<1> DEFINE U == Usable
           c == Cardinality(U)
           m == Max(U)
           first == Min(U)
           T == TotalRate
           num == (2 * n * rate[Min(U)] + T) \div (2 * T)
<1>1. IsFiniteSet(U) /\ U \subseteq Nat /\ U # {} /\ \A p \in U : rate[p] \in Nat
  BY UsableOK DEF StateOK
<1>2. m \in U /\ first \in U /\ \A p \in U : m >= p /\ first <= p
  <2> HIDE DEF U
  <2>1. U \in SUBSET Nat /\ U \subseteq Int
    BY <1>1
  <2> QED
    BY <1>1, <2>1, GreatestOf, LeastOf
<1>3. ScaleShares(n)[m] = n - num * (c - 1)
  BY <1>2, Zenon DEF ScaleShares
<1>4. c \in Nat \ {0}
  BY <1>1, FS_CardinalityType, FS_EmptySet
<1>5. T \in Nat \ {0} /\ T = SumFunctionOnSet(rate, U)
  BY TotalRateOK DEF TotalRate
<1> DEFINE a == 2 * n * rate[first] + T
           b == 2 * T
<1>6. num = a \div b
  OBVIOUS
<1>7. rate[first] \in Nat /\ rate[m] \in Nat /\ n * rate[first] \in Nat /\ n * rate[m] \in Nat
  <2>1. \A q \in Nat : n * q \in Nat
    OBVIOUS
  <2>2. rate[first] \in Nat /\ rate[m] \in Nat
    BY <1>1, <1>2
  <2> HIDE DEF first, m, U
  <2> QED
    BY <2>1, <2>2
<1>8. a = 2 * (n * rate[first]) + T /\ b = 2 * T /\ a \in Nat /\ b \in Nat \ {0}
  BY <1>5, <1>7
<1> HIDE DEF a, b, num
<1>9. num \in Nat /\ b * num <= a
  <2>1. a = b * (a \div b) + (a % b) /\ a % b \in 0 .. (b - 1) /\ a \div b \in Nat
    BY <1>8
  <2>2. b * (a \div b) \in Nat
    BY <1>8, <2>1
  <2> QED
    BY <1>6, <1>8, <2>1, <2>2
<1>10. n - num * (c - 1) =< 0
  BY <1>3
<1> HIDE DEF c, m, first, T, U
<1>11. CASE c = 1
  BY <1>9, <1>10, <1>11
<1>12. CASE c = 2
  <2>1. n <= num
    BY <1>9, <1>10, <1>12
  <2>2. T * n <= T * num
    <3>1. PICK d \in Nat : num = n + d
      <4>1. num - n \in Nat /\ num = n + (num - n)
        BY <1>9, <2>1
      <4> QED
        BY <4>1
    <3>2. T * (n + d) = T * n + T * d /\ T * d \in Nat /\ T * n \in Nat
      BY <1>5
    <3> QED
      BY <3>1, <3>2
  <2>3. T = rate[first] + rate[m]
    <3>1. first # m
      <4>1. SUFFICES ASSUME first = m PROVE FALSE
        OBVIOUS
      <4>2. U = {m}
        <5>1. ASSUME NEW p \in U PROVE p = m
          <6>1. m >= p /\ m <= p /\ p \in Nat /\ m \in Nat
            BY <1>1, <1>2, <4>1
          <6> QED
            BY <6>1
        <5> QED
          BY <1>2, <5>1
      <4>3. Cardinality({m}) = 1
        BY FS_Singleton
      <4> QED
        BY <1>12, <4>2, <4>3 DEF c
    <3> DEFINE R == U \ {first}
               Q == R \ {m}
    <3>2. IsFiniteSet(R) /\ m \in R /\ IsFiniteSet(Q) /\ \A p \in R : rate[p] \in Int
      BY <1>1, <1>2, <3>1, FS_Subset
    <3>3. Q = {}
      <4>1. Cardinality(R) = c - 1
        BY <1>1, <1>2, FS_RemoveElement DEF c
      <4>2. Cardinality(Q) = Cardinality(R) - 1
        BY <3>2, FS_RemoveElement
      <4>3. Cardinality(Q) = 0
        BY <1>12, <4>1, <4>2
      <4> QED
        BY <3>2, <4>3, FS_EmptySet
    <3>4. SumFunctionOnSet(rate, U) = rate[first] + SumFunctionOnSet(rate, R)
      <4>1. \A p \in U : rate[p] \in Int
        BY <1>1
      <4> QED
        BY <1>1, <1>2, <4>1, SumRemove
    <3> HIDE DEF R
    <3>5. SumFunctionOnSet(rate, R) = rate[m] + SumFunctionOnSet(rate, Q)
      BY <3>2, SumRemove
    <3>6. SumFunctionOnSet(rate, Q) = 0
      <4>1. \A p \in Q : rate[p] \in Int
        BY <3>3
      <4>2. PICK g, pick : /\ Picks(pick, Q) /\ Adds(g, rate, Q, pick)
                           /\ SumFunctionOnSet(rate, Q) = g[Q]
        BY <3>2, <4>1, SumAdds
      <4> QED
        BY <3>3, <4>2 DEF Adds
    <3> QED
      BY <1>5, <1>7, <3>4, <3>5, <3>6
  <2>4. T * n = n * rate[first] + n * rate[m]
    BY <1>7, <2>3
  <2>5. b * num = 2 * (T * num) /\ T * num \in Nat /\ T * n \in Nat
    BY <1>5, <1>8, <1>9
  <2>6. 2 * (n * rate[m]) <= T
    BY <1>5, <1>7, <1>8, <1>9, <2>2, <2>4, <2>5
  <2>7. 2 * n * rate[m] = 2 * (n * rate[m])
    BY <1>7
  <2>8. 2 * n * rate[m] <= T
    BY <2>6, <2>7
  <2> QED
    BY <2>8 DEF m, T, U
<1>13. CASE c > 2
  BY <1>13 DEF c, U
<1> QED
  BY <1>4, <1>11, <1>12, <1>13


\* The tables of EDCLD have a path while nothing has gone wrong.
BegunOK ==
  kind \in Edcld /\ stopped = {} /\ Live /\ scheduled > 0 => DOMAIN psi_table # {}

WrongInv == IInv /\ BegunOK /\ GoesWrongOnlyWhen

\* GoesWrongOnlyWhen for a result that is about to be noted.
WrongOK(res, lens, psi) ==
  /\ res.outcome = "endless" =>
       \E p \in Usable : Len(lens) > 0 /\ lens[1] * Millis < rate[p]
  /\ res.outcome = "undefined" =>
       \/ Usable = {}
       \/ kind \in {"wrr", "ideal"} /\ 2 * Len(lens) < Cardinality(Usable)
       \/ kind \in Edcld /\ Len(lens) * SumFunction(psi) < Cardinality(DOMAIN psi) * Unit
       \/ kind = "scale" /\ \/ Cardinality(Usable) > 2
                            \/ 2 * Len(lens) * rate[Max(Usable)] =< TotalRate

LEMMA NotesResult ==
  ASSUME NEW lens, NEW res, Place(lens, res), NEW psi, psi_table' = psi,
         WrongOK(res, lens, psi)
  PROVE  GoesWrongOnlyWhen'
<1>1. frame' = lens /\ result' = res /\ UNCHANGED <<kind, pids, rate>>
  BY DEF Place, pathVars
<1>2. Usable' = Usable
  BY <1>1 DEF Usable, UsableOf
<1>3. TotalRate' = TotalRate
  <2>1. SumFunctionOnSet(rate, Usable)' = SumFunctionOnSet(rate, Usable)
    BY <1>1, <1>2
  <2> QED
    BY <2>1 DEF TotalRate
<1> QED
  BY <1>1, <1>2, <1>3 DEF GoesWrongOnlyWhen, WrongOK

\* A result that goes wrong only without a usable path.
LEMMA DoneOK ==
  ASSUME NEW res, NEW lens, NEW psi,
         res.outcome \in {"done", "none"} \/ (res = Undefined /\ Usable = {})
  PROVE  WrongOK(res, lens, psi)
BY DEF WrongOK, Undefined

LEMMA FrameLength ==
  ASSUME NEW lens \in Frames
  PROVE  lens \in Seq(Nat) /\ Len(lens) \in Nat \ {0} /\ lens[1] \in Nat
<1>1. lens \in Seq(Nat \ {0}) /\ lens # <<>>
  BY SchedulersAssumption
<1>2. Len(lens) \in Nat \ {0} /\ lens[1] \in Nat
  BY <1>1
<1> QED
  BY <1>1, <1>2

\* The schedulers that have no tables.
LEMMA PlainWrong ==
  ASSUME IInv, NEW lens \in Frames,
         \/ RoundRobinFrame(lens) \/ SingleFrame(lens) \/ WrrFrame(lens)
         \/ MinQueueFrame(lens) \/ BalanceCostFrame(lens) \/ WaterFrame(lens)
         \/ ScaleFrame(lens)
  PROVE  GoesWrongOnlyWhen'
<1> DEFINE n == Len(lens)
<1>1. PICK psi : psi = psi_table'
  OBVIOUS
<1>2. StateOK
  BY DEF IInv
<1>3. n \in Nat \ {0} /\ lens[1] \in Nat
  BY FrameLength
<1> HIDE DEF n
<1>4. ASSUME NEW s PROVE WrongOK(Done(s), lens, psi)
  BY DoneOK DEF Done
<1>5. ASSUME Usable = {} PROVE WrongOK(Undefined, lens, psi)
  BY <1>5, DoneOK
<1>6. CASE RoundRobinFrame(lens)
  <2>1. PICK s : Place(lens, Done(s))
    BY <1>6 DEF RoundRobinFrame
  <2> QED
    BY <1>1, <1>4, <2>1, NotesResult
<1>7. CASE SingleFrame(lens)
  <2>1. (\E s : Place(lens, Done(s))) \/ (Usable = {} /\ Place(lens, Undefined))
    <3>1. CASE kind = "bcV1"
      BY <1>7, <3>1 DEF SingleFrame
    <3>2. CASE kind # "bcV1" /\ kind = "sflV1" /\ Len(pids) > 1
      BY <1>7, <3>2 DEF SingleFrame
    <3>3. CASE kind # "bcV1" /\ ~(kind = "sflV1" /\ Len(pids) > 1)
      BY <1>7, <3>3 DEF SingleFrame
    <3> QED
      BY <3>1, <3>2, <3>3
  <2>2. CASE \E s : Place(lens, Done(s))
    <3>1. PICK s : Place(lens, Done(s))
      BY <2>2
    <3> QED
      BY <1>1, <1>4, <3>1, NotesResult
  <2>3. CASE Usable = {} /\ Place(lens, Undefined)
    BY <1>1, <1>5, <2>3, NotesResult
  <2> QED
    BY <2>1, <2>2, <2>3
<1>8. CASE WrrFrame(lens)
  <2>1. kind \in {"wrr", "ideal"}
    BY <1>8 DEF WrrFrame
  <2>2. CASE kind = "wrr" /\ Usable = {}
    <3>1. PICK s : Place(lens, Done(s))
      BY <1>8, <2>2 DEF WrrFrame
    <3> QED
      BY <1>1, <1>4, <3>1, NotesResult
  <2>3. CASE ~(kind = "wrr" /\ Usable = {})
    <3>1. Place(lens, WrrResult(Weights(n), n))
      BY <1>8, <2>3 DEF WrrFrame, n
    <3>2. CASE HasServer(Weights(n))
      <4>1. PICK s : Place(lens, Done(s))
        BY <3>1, <3>2 DEF WrrResult
      <4> QED
        BY <1>1, <1>4, <4>1, NotesResult
    <3>3. CASE ~HasServer(Weights(n))
      <4>1. Place(lens, Undefined)
        BY <3>1, <3>3 DEF WrrResult
      <4>2. Usable = {} \/ 2 * n < Cardinality(Usable)
        BY <1>2, <1>3, <3>3, WeightsZero
      <4>3. WrongOK(Undefined, lens, psi)
        BY <2>1, <4>2 DEF WrongOK, Undefined, n
      <4> QED
        BY <1>1, <4>1, <4>3, NotesResult
    <3> QED
      BY <3>2, <3>3
  <2> QED
    BY <2>2, <2>3
<1>9. CASE MinQueueFrame(lens) \/ BalanceCostFrame(lens)
  <2>1. Place(lens, GreedyResult(lens))
    BY <1>9 DEF MinQueueFrame, BalanceCostFrame
  <2>2. CASE Usable = {}
    <3>1. Place(lens, Undefined)
      BY <2>1, <2>2 DEF GreedyResult
    <3> QED
      BY <1>1, <1>5, <2>2, <3>1, NotesResult
  <2>3. CASE Usable # {}
    <3>1. PICK s : Place(lens, Done(s))
      BY <2>1, <2>3 DEF GreedyResult
    <3> QED
      BY <1>1, <1>4, <3>1, NotesResult
  <2> QED
    BY <2>2, <2>3
<1>10. CASE WaterFrame(lens)
  <2>1. PICK res \in WaterResults(lens) : Place(lens, res)
    BY <1>10 DEF WaterFrame
  <2>2. CASE Usable = {}
    <3>1. res = Undefined
      BY <2>1, <2>2 DEF WaterResults
    <3> QED
      BY <1>1, <1>5, <2>1, <2>2, <3>1, NotesResult
  <2>3. CASE Usable # {} /\ res = Endless
    <3>1. PICK order \in Tables(Usable, Owd) : ~(Step(order, rate, lens[1]) > 0)
      <4>1. \A s : Done(s) # Endless
        BY DEF Done, Endless
      <4> QED
        BY <2>1, <2>3, <4>1 DEF WaterResults, Fills
    <3>2. PICK c : c = Cardinality(Usable)
      OBVIOUS
    <3>3. c \in Nat \ {0} /\ order \in [1 .. c -> Usable] /\ Len(order) = c
      BY <2>3, <3>2, TableOK
    <3> DEFINE p == Last(order)
               a == lens[1] * Millis
    <3>4. p \in Usable
      BY <3>3 DEF Last
    <3>5. rate[p] \in Nat \ {0}
      BY <1>2, <3>4, UsableOK DEF StateOK, Usable, UsableOf
    <3>6. a \in Nat
      BY <1>3, WaterFillingAssumption
    <3>7. ~(a \div rate[p] > 0)
      BY <3>1 DEF Step
    <3> HIDE DEF a, p
    <3>8. a < rate[p]
      BY <3>5, <3>6, <3>7, NoQuotient
    <3>9. WrongOK(res, lens, psi)
      BY <1>3, <2>3, <3>4, <3>8 DEF WrongOK, Endless, n, a
    <3> QED
      BY <1>1, <2>1, <3>9, NotesResult
  <2>4. CASE Usable # {} /\ res # Endless
    <3>1. PICK s : res = Done(s)
      BY <2>1, <2>4 DEF WaterResults
    <3> QED
      BY <1>1, <1>4, <2>1, <3>1, NotesResult
  <2> QED
    BY <2>2, <2>3, <2>4
<1>11. CASE ScaleFrame(lens)
  <2>1. PICK res \in ScaleResults(n) : Place(lens, res)
    BY <1>11 DEF ScaleFrame, n
  <2>2. kind = "scale"
    BY <1>11 DEF ScaleFrame
  <2>3. CASE Usable = {}
    <3>1. res = Undefined
      BY <2>1, <2>3 DEF ScaleResults
    <3> QED
      BY <1>1, <1>5, <2>1, <2>3, <3>1, NotesResult
  <2>4. CASE Usable # {} /\ ScaleShares(n)[Max(Usable)] =< 0
    <3>1. res = Undefined
      BY <2>1, <2>4 DEF ScaleResults
    <3>2. Cardinality(Usable) > 2 \/ 2 * n * rate[Max(Usable)] =< TotalRate
      BY <1>2, <1>3, <2>4, ScaleZero
    <3>3. WrongOK(res, lens, psi)
      BY <2>2, <3>1, <3>2 DEF WrongOK, Undefined, n
    <3> QED
      BY <1>1, <2>1, <3>3, NotesResult
  <2>5. CASE ~(Usable = {} \/ ScaleShares(n)[Max(Usable)] =< 0)
    <3>1. PICK s : res = Done(s)
      BY Zenon, <2>1, <2>5 DEF ScaleResults
    <3> QED
      BY <1>1, <1>4, <2>1, <3>1, NotesResult
  <2> QED
    BY <2>3, <2>4, <2>5
<1> QED
  BY <1>6, <1>7, <1>8, <1>9, <1>10, <1>11

\* The result of EDCLD for a new table.
LEMMA EdcldWrong ==
  ASSUME NEW lens \in Frames, NEW psi, psi_table' = psi, DOMAIN psi \subseteq Usable,
         \A p \in DOMAIN psi : psi[p] \in Nat, kind \in Edcld,
         DOMAIN psi = {} => Usable = {},
         Place(lens, WrrResult(FloorWeights(psi, Len(lens)), Len(lens)))
  PROVE  /\ GoesWrongOnlyWhen'
         /\ Live' => DOMAIN psi # {}
<1> DEFINE n == Len(lens)
<1>1. n \in Nat
  BY FrameLength
<1>2. Place(lens, WrrResult(FloorWeights(psi, n), n))
  OBVIOUS
<1>3. IsFiniteSet(DOMAIN psi)
  BY UsableOK, FS_Subset
<1> HIDE DEF n
<1>4. CASE HasServer(FloorWeights(psi, n))
  <2>1. PICK s : Place(lens, Done(s))
    BY <1>2, <1>4 DEF WrrResult
  <2>2. WrongOK(Done(s), lens, psi)
    BY DoneOK DEF Done
  <2>3. DOMAIN psi # {}
    BY <1>4 DEF HasServer, FloorWeights
  <2> QED
    BY <2>1, <2>2, <2>3, NotesResult
<1>5. CASE ~HasServer(FloorWeights(psi, n))
  <2>1. Place(lens, Undefined)
    BY <1>2, <1>5 DEF WrrResult
  <2>2. Usable = {} \/ n * SumFunction(psi) < Cardinality(DOMAIN psi) * Unit
    BY <1>1, <1>3, <1>5, FloorsZero
  <2>3. WrongOK(Undefined, lens, psi)
    BY <2>2 DEF WrongOK, Undefined, n
  <2>4. ~Live'
    BY <2>1 DEF Place, Live, Undefined
  <2> QED
    BY <2>1, <2>3, <2>4, NotesResult
<1> QED
  BY <1>4, <1>5

LEMMA FirstEdcldWrong ==
  ASSUME IInv, NEW lens \in Frames, FirstEdcldFrame(lens)
  PROVE  GoesWrongOnlyWhen' /\ BegunOK'
<1>1. /\ Frame(lens) /\ kind \in Edcld /\ scheduled = 0
      /\ psi_table' = ResetPsi(Ratios(pids))
      /\ Place(lens, WrrResult(FloorWeights(psi_table', Len(lens)), Len(lens)))
  BY DEF FirstEdcldFrame, Several
<1>2. stopped = {} /\ StateOK /\ TablesOK
  BY <1>1, FrameOK DEF StateOK
<1>3. PICK psi : psi = ResetPsi(Ratios(pids))
  OBVIOUS
<1>4. DOMAIN psi_table = {}
  BY <1>1, <1>2 DEF TablesOK
<1>5. DOMAIN Ratios(pids) = Usable /\ \A p \in Usable : Ratios(pids)[p] \in Nat
  BY <1>2, RatiosOK DEF Usable
<1>6. DOMAIN psi = Usable /\ \A p \in Usable : psi[p] \in Nat
  BY <1>3, <1>4, <1>5, ResetOK
<1>7. psi_table' = psi /\ Place(lens, WrrResult(FloorWeights(psi, Len(lens)), Len(lens)))
  BY <1>1, <1>3
<1>8. GoesWrongOnlyWhen' /\ (Live' => DOMAIN psi # {})
  BY <1>1, <1>6, <1>7, EdcldWrong
<1> QED
  BY <1>7, <1>8 DEF BegunOK

LEMMA EdcldFrameWrong ==
  ASSUME IInv, BegunOK, NEW lens \in Frames, EdcldFrame(lens)
  PROVE  GoesWrongOnlyWhen' /\ BegunOK'
<1>1. /\ Frame(lens) /\ kind \in Edcld /\ scheduled \in 1 .. MaxScheduled - 1
      /\ psi_table' \in UpdateCostAndPsiTable(psi_table)
      /\ Place(lens, WrrResult(FloorWeights(psi_table', Len(lens)), Len(lens)))
  BY DEF EdcldFrame, Several
<1>2. stopped = {} /\ StateOK /\ TablesOK
  BY <1>1, FrameOK DEF StateOK
<1>3. PICK old : old = psi_table
  OBVIOUS
<1>4. /\ DOMAIN old \subseteq Usable /\ cost_table \subseteq DOMAIN old
      /\ \A p \in DOMAIN old : old[p] \in Nat
  BY <1>1, <1>2, <1>3 DEF TablesOK
<1>5. PICK psi \in UpdateCostAndPsiTable(old) : psi = psi_table'
  BY <1>1, <1>3
<1>6. IsFiniteSet(DOMAIN old)
  BY <1>4, UsableOK, FS_Subset
<1>7. DOMAIN psi = DOMAIN old /\ \A p \in DOMAIN psi : psi[p] \in Nat
  BY <1>4, <1>5, <1>6, UpdateOK
<1>8. DOMAIN psi # {}
  <2>1. scheduled > 0 /\ Live
    BY <1>1 DEF Frame
  <2> QED
    BY <1>1, <1>2, <1>3, <1>7, <2>1 DEF BegunOK
<1>9. psi_table' = psi /\ Place(lens, WrrResult(FloorWeights(psi, Len(lens)), Len(lens)))
  BY <1>1, <1>5
<1>10. DOMAIN psi \subseteq Usable
  BY <1>4, <1>7
<1>11. GoesWrongOnlyWhen'
  BY <1>1, <1>7, <1>8, <1>9, <1>10, EdcldWrong
<1> QED
  BY <1>8, <1>9, <1>11 DEF BegunOK

\* The frames that leave the tables alone.
LEMMA PlainBegun ==
  ASSUME IInv, BegunOK, NEW lens \in Frames, Frame(lens),
         UNCHANGED <<psi_table, scheduled, kind, stopped>>
  PROVE  BegunOK'
<1>1. Live
  BY DEF Frame
<1> QED
  BY <1>1 DEF BegunOK

\* The events of the paths go wrong only for EDCLD, which registers too early.
LEMMA PathWrong ==
  ASSUME IInv, BegunOK, NEW p \in Paths,
         RegisterPath(p) \/ UnregisterPath(p) \/ RateChange(p) \/ Drain(p)
  PROVE  GoesWrongOnlyWhen' /\ BegunOK'
<1>1. CASE RegisterPath(p)
  <2>1. /\ Live /\ frame' = <<>>
        /\ IF kind \in Edcld /\ scheduled > 0 THEN Reset(pids')
           ELSE UNCHANGED <<cost_table, psi_table>>
        /\ result' = IF kind = "edcld" /\ scheduled > 0 THEN Undefined ELSE NoResult
        /\ UNCHANGED <<kind, scheduled, stopped>>
    BY <1>1 DEF RegisterPath, Forget
  <2>2. result' = NoResult \/ (result' = Undefined /\ kind = "edcld")
    BY <2>1
  <2>3. GoesWrongOnlyWhen'
    BY <2>1, <2>2 DEF GoesWrongOnlyWhen, NoResult, Undefined, Edcld
  <2>4. ASSUME kind \in Edcld, stopped = {}, scheduled > 0 PROVE DOMAIN psi_table' # {}
    <3>1. psi_table' = ResetPsi(Ratios(pids'))
      BY <2>1, <2>4 DEF Reset
    <3>2. PICK ratios : ratios = Ratios(pids')
      OBVIOUS
    <3>3. DOMAIN ResetPsi(ratios) = DOMAIN psi_table \cup DOMAIN ratios
      BY ResetOK
    <3>4. DOMAIN psi_table # {}
      BY <2>1, <2>4 DEF BegunOK
    <3> QED
      BY <3>1, <3>2, <3>3, <3>4
  <2>5. BegunOK'
    BY <2>1, <2>4 DEF BegunOK
  <2> QED
    BY <2>3, <2>5
<1>2. CASE UnregisterPath(p)
  <2>1. result' = NoResult /\ stopped' # {}
    BY <1>2 DEF UnregisterPath
  <2> QED
    BY <2>1 DEF GoesWrongOnlyWhen, BegunOK, NoResult
<1>3. CASE RateChange(p) \/ Drain(p)
  <2>1. Live /\ result' = NoResult /\ UNCHANGED <<kind, stopped, scheduled, psi_table>>
    BY <1>3 DEF RateChange, Drain, edcldVars
  <2> QED
    BY <2>1 DEF GoesWrongOnlyWhen, BegunOK, NoResult
<1> QED
  BY <1>1, <1>2, <1>3

LEMMA NextWrong ==
  ASSUME WrongInv, [Next]_vars
  PROVE  WrongInv'
<1>1. IInv /\ BegunOK /\ IInv'
  BY NextInv DEF WrongInv
<1>2. ASSUME NEW p \in Paths, RegisterPath(p) \/ UnregisterPath(p) \/ RateChange(p) \/ Drain(p)
      PROVE  GoesWrongOnlyWhen' /\ BegunOK'
  BY <1>1, <1>2, PathWrong
<1>3. ASSUME NEW lens \in Frames, IncomingPackets(lens) PROVE GoesWrongOnlyWhen' /\ BegunOK'
  <2>1. CASE FirstEdcldFrame(lens)
    BY <1>1, <2>1, FirstEdcldWrong
  <2>2. CASE EdcldFrame(lens)
    BY <1>1, <2>2, EdcldFrameWrong
  <2>3. CASE \/ RoundRobinFrame(lens) \/ SingleFrame(lens) \/ WrrFrame(lens)
             \/ MinQueueFrame(lens) \/ BalanceCostFrame(lens) \/ WaterFrame(lens)
             \/ ScaleFrame(lens)
    <3>1. GoesWrongOnlyWhen'
      BY <1>1, <2>3, PlainWrong
    <3>2. Frame(lens) /\ UNCHANGED <<psi_table, scheduled>>
      BY <2>3 DEF RoundRobinFrame, SingleFrame, WrrFrame, MinQueueFrame, BalanceCostFrame,
                  WaterFrame, ScaleFrame, Several, edcldVars
    <3>3. \E res : Place(lens, res)
      BY <2>3 DEF RoundRobinFrame, SingleFrame, WrrFrame, MinQueueFrame, BalanceCostFrame,
                  WaterFrame, ScaleFrame
    <3>4. UNCHANGED <<kind, stopped>>
      BY <3>3 DEF Place
    <3> QED
      BY <1>1, <3>1, <3>2, <3>4, PlainBegun
  <2> QED
    BY <1>3, <2>1, <2>2, <2>3 DEF IncomingPackets
<1>4. CASE UNCHANGED vars
  <2>1. UNCHANGED <<kind, pids, psi_table, scheduled, stopped, rate, frame, result>>
    BY <1>4 DEF vars, edcldVars, pathVars
  <2>2. Usable' = Usable
    BY <2>1 DEF Usable, UsableOf
  <2>3. TotalRate' = TotalRate
    <3>1. SumFunctionOnSet(rate, Usable)' = SumFunctionOnSet(rate, Usable)
      BY <2>1, <2>2
    <3> QED
      BY <3>1 DEF TotalRate
  <2>4. GoesWrongOnlyWhen'
    BY <2>1, <2>2, <2>3 DEF WrongInv, GoesWrongOnlyWhen
  <2>5. BegunOK'
    BY <2>1 DEF WrongInv, BegunOK, Live
  <2> QED
    BY <1>1, <2>4, <2>5 DEF WrongInv
<1> QED
  BY <1>1, <1>2, <1>3, <1>4 DEF Next, WrongInv

\* Nothing but what GoesWrongOnlyWhen lists makes a scheduler read past a
\* table, divide by zero or never return, for any paths, rates and frames.
THEOREM WrongOnlyForItsReasons == Spec => []GoesWrongOnlyWhen
<1>1. Init => WrongInv
  <2>1. Init => IInv
    BY InitInv
  <2>2. Init => BegunOK /\ GoesWrongOnlyWhen
    BY DEF Init, BegunOK, GoesWrongOnlyWhen, NoResult
  <2> QED
    BY <2>1, <2>2 DEF WrongInv
<1>2. WrongInv /\ [Next]_vars => WrongInv'
  BY NextWrong
<1>3. WrongInv => GoesWrongOnlyWhen
  BY DEF WrongInv
<1> QED
  BY <1>1, <1>2, <1>3, PTL DEF Spec
=============================================================================
