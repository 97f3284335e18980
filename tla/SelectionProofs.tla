-------------------------- MODULE SelectionProofs --------------------------
(***************************************************************************)
(* Lemmas about recursive functions on an interval, and what a selection   *)
(* from a queue is, for queues of any length.  The library's induction     *)
(* theorems take an operator, its WFMin a set: induction here is from a    *)
(* least counterexample.                                                   *)
(***************************************************************************)
EXTENDS Selection, SequencesExt, WellFoundedInduction, TLAPS

-----------------------------------------------------------------------------
(* Induction over the natural numbers, from a least counterexample.        *)

LEMMA Least ==
  ASSUME NEW T \in SUBSET Nat, T # {}
  PROVE  \E x \in T : \A y \in T : x <= y
<1> DEFINE R == OpToRel(<, Nat)
<1>1. IsWellFoundedOn(R, Nat)
  BY NatLessThanWellFounded
<1> HIDE DEF R
<1>2. PICK x \in T : \A y \in T : ~(<<y, x>> \in R)
  BY <1>1, WFMin
<1>3. \A y \in T : y < x => <<y, x>> \in R
  BY DEF R, OpToRel
<1>4. \A y \in T : ~(y < x)
  BY <1>2, <1>3, Zenon
<1>5. \A y \in T : x <= y
  BY <1>4
<1> QED
  BY <1>5

LEMMA Reaches ==
  ASSUME NEW n \in Nat, NEW T, 0 \in T, \A i \in 0 .. n : i \in T /\ i < n => i + 1 \in T
  PROVE  \A i \in 0 .. n : i \in T
<1> DEFINE U == {i \in 0 .. n : i \notin T}
<1>1. SUFFICES ASSUME U # {}
               PROVE  FALSE
  OBVIOUS
<1>2. U \in SUBSET Nat
  OBVIOUS
<1> HIDE DEF U
<1>3. PICK x \in U : \A y \in U : x <= y
  BY <1>1, <1>2, Least
<1>4. x \in 0 .. n /\ x \notin T
  BY DEF U
<1>5. x # 0 /\ x - 1 \in 0 .. n /\ x - 1 < n /\ ~(x <= x - 1) /\ (x - 1) + 1 = x
  BY <1>4
<1>6. x - 1 \notin U
  BY <1>3, <1>5
<1>7. x - 1 \in T
  BY <1>5, <1>6 DEF U
<1> QED
  BY <1>4, <1>5, <1>7

\* A function defined by recursion on an interval exists and is what its definition says.
Recurs(f, n, b, g) == f = [i \in 0 .. n |-> IF i = 0 THEN b ELSE g[i][f[i - 1]]]

LEMMA Recursion ==
  ASSUME NEW S, NEW n \in Nat, NEW b \in S, NEW g \in [1 .. n -> [S -> S]]
  PROVE  \E f \in [0 .. n -> S] : Recurs(f, n, b, g)
<1> DEFINE Obeys(f, m) == f \in [0 .. m -> S] /\ f[0] = b /\ \A i \in 1 .. m : f[i] = g[i][f[i - 1]]
           T == {m \in Nat : \E f : Obeys(f, m)}
<1>1. 0 \in T
  <2> DEFINE f == [i \in 0 .. 0 |-> b]
  <2>1. Obeys(f, 0)
    OBVIOUS
  <2> QED
    BY <2>1
<1>2. ASSUME NEW m \in 0 .. n, m \in T, m < n
      PROVE  m + 1 \in T
  <2>1. PICK f : Obeys(f, m)
    BY <1>2
  <2> DEFINE h == [i \in 0 .. (m + 1) |-> IF i = m + 1 THEN g[m + 1][f[m]] ELSE f[i]]
  <2>2. h \in [0 .. (m + 1) -> S]
    <3>1. g[m + 1] \in [S -> S] /\ f[m] \in S
      BY <1>2, <2>1
    <3>2. \A i \in 0 .. (m + 1) : i # m + 1 => i \in 0 .. m
      BY <1>2
    <3> QED
      BY <2>1, <3>1, <3>2
  <2>3. h[0] = b
    BY <1>2, <2>1
  <2>4. ASSUME NEW i \in 1 .. (m + 1)
        PROVE  h[i] = g[i][h[i - 1]]
    <3>1. CASE i = m + 1
      BY <1>2, <3>1
    <3>2. CASE i # m + 1
      <4>1. i \in 1 .. m /\ i - 1 \in 0 .. (m + 1) /\ i - 1 # m + 1 /\ i \in 0 .. (m + 1)
        BY <1>2, <3>2
      <4> QED
        BY <2>1, <3>2, <4>1
    <3> QED
      BY <3>1, <3>2
  <2>5. Obeys(h, m + 1)
    BY <2>2, <2>3, <2>4
  <2> HIDE DEF h, Obeys
  <2> QED
    BY <1>2, <2>5
<1>3. n \in 0 .. n
  OBVIOUS
<1>4. n \in T
  <2> HIDE DEF T
  <2> QED
    BY <1>1, <1>2, <1>3, Reaches
<1>5. PICK f : Obeys(f, n)
  BY <1>4
<1>6. Recurs(f, n, b, g)
  <2>1. \A i \in 0 .. n : f[i] = IF i = 0 THEN b ELSE g[i][f[i - 1]]
    BY <1>5
  <2> QED
    BY <1>5, <2>1 DEF Recurs
<1> QED
  BY <1>5, <1>6

LEMMA Greatest ==
  ASSUME NEW n \in Nat, NEW T \in SUBSET (1 .. n), T # {}
  PROVE  \E x \in T : \A y \in T : y <= x
<1> DEFINE U == {n - i : i \in T}
<1>1. U \in SUBSET Nat /\ U # {}
  <2>1. \A i \in T : n - i \in Nat
    OBVIOUS
  <2> QED
    BY <2>1
<1>2. PICK z \in U : \A y \in U : z <= y
  <2> HIDE DEF U
  <2> QED
    BY <1>1, Least
<1>3. PICK x \in T : z = n - x
  BY <1>2
<1>4. \A y \in T : n - x <= n - y
  BY <1>2, <1>3
<1>5. ASSUME NEW y \in T
      PROVE  y <= x
  <2>1. n - x <= n - y
    BY <1>4
  <2>2. x \in Nat /\ y \in Nat
    BY <1>3
  <2> QED
    BY <2>1, <2>2
<1>6. \A y \in T : y <= x
  BY <1>5
<1> QED
  BY <1>6

-----------------------------------------------------------------------------
(* Selections.                                                             *)

\* Whatever relates a selection to the part of the queue it was made from, step by step.
LEMMA SelectedReaches ==
  ASSUME NEW S, NEW s \in Seq(S), NEW keep, NEW T, <<<<>>, 0>> \in T,
         \A i \in 0 .. Len(s), x \in Seq(S) : i < Len(s) /\ <<x, i>> \in T =>
           <<IF s[i + 1] \in keep THEN Append(x, s[i + 1]) ELSE x, i + 1>> \in T
  PROVE  Selected(s, keep) \in Seq(S) /\ <<Selected(s, keep), Len(s)>> \in T
<1> DEFINE n == Len(s)
           Add(i, x) == IF s[i] \in keep THEN Append(x, s[i]) ELSE x
           Is(f) == f = [i \in 0 .. n |-> IF i = 0 THEN <<>> ELSE Add(i, f[i - 1])]
           F == CHOOSE f : Is(f)
<1>1. n \in Nat /\ n = Len(s) /\ <<>> \in Seq(S)
  OBVIOUS
<1>2. ASSUME NEW i \in 1 .. n, NEW x \in Seq(S)
      PROVE  Add(i, x) \in Seq(S)
  OBVIOUS
<1>3. Selected(s, keep) = F[n]
  BY DEF Selected
<1>4. ASSUME NEW i \in 0 .. n, NEW x \in Seq(S), i < n, <<x, i>> \in T
      PROVE  <<Add(i + 1, x), i + 1>> \in T
  BY <1>4
<1> HIDE DEF n, Add
<1>5. PICK f : Is(f)
  <2> DEFINE R == Seq(S)
             g == [i \in 1 .. n |-> [x \in R |-> Add(i, x)]]
  <2>1. g \in [1 .. n -> [R -> R]]
    BY <1>2
  <2>2. n \in Nat /\ <<>> \in R
    BY <1>1
  <2>3. \A i \in 1 .. n, x \in R : g[i][x] = Add(i, x)
    OBVIOUS
  <2> HIDE DEF g, R
  <2>4. PICK f \in [0 .. n -> R] : Recurs(f, n, <<>>, g)
    BY <2>1, <2>2, Recursion
  <2>5. \A i \in 0 .. n : i # 0 => i \in 1 .. n /\ i - 1 \in 0 .. n
    BY <1>1
  <2>6. \A i \in 0 .. n : i # 0 => g[i][f[i - 1]] = Add(i, f[i - 1])
    BY <2>3, <2>4, <2>5
  <2> QED
    BY <2>4, <2>6 DEF Recurs
<1>6. Is(F)
  BY <1>5
<1> HIDE DEF F
<1> DEFINE U == {i \in 0 .. n : F[i] \in Seq(S) /\ <<F[i], i>> \in T}
<1>7. 0 \in U
  BY <1>1, <1>6
<1>8. ASSUME NEW i \in 0 .. n, i \in U, i < n
      PROVE  i + 1 \in U
  <2>1. i + 1 \in 1 .. n /\ i + 1 \in 0 .. n /\ i + 1 # 0 /\ (i + 1) - 1 = i
    BY <1>1, <1>8
  <2>2. F[i + 1] = Add(i + 1, F[i])
    BY <1>6, <2>1
  <2> QED
    BY <1>2, <1>4, <1>8, <2>1, <2>2
<1>9. n \in U
  <2> HIDE DEF U
  <2>1. n \in 0 .. n
    BY <1>1
  <2> QED
    BY <1>1, <1>7, <1>8, <2>1, Reaches
<1> QED
  BY <1>3, <1>9 DEF n

\* A selection has entries of the queue only, and only those to keep.
LEMMA SelectedMeans ==
  ASSUME NEW S, NEW s \in Seq(S), NEW keep
  PROVE  Selected(s, keep) \in Seq(Range(s) \cap keep)
<1> DEFINE K == Range(s) \cap keep
           T == Seq(K) \X Nat
<1>1. <<<<>>, 0>> \in T
  <2> HIDE DEF K
  <2>1. <<>> \in Seq(K)
    OBVIOUS
  <2> QED
    BY <2>1
<1>2. ASSUME NEW i \in 0 .. Len(s), NEW x \in Seq(S), i < Len(s), <<x, i>> \in T
      PROVE  <<IF s[i + 1] \in keep THEN Append(x, s[i + 1]) ELSE x, i + 1>> \in T
  <2>1. i + 1 \in 1 .. Len(s) /\ i + 1 \in Nat /\ x \in Seq(K)
    BY <1>2
  <2>2. s[i + 1] \in keep => s[i + 1] \in K
    BY <2>1 DEF Range
  <2> HIDE DEF K
  <2>3. s[i + 1] \in keep => Append(x, s[i + 1]) \in Seq(K)
    BY <2>1, <2>2
  <2> QED
    BY <2>1, <2>3
<1> HIDE DEF T
<1>3. <<Selected(s, keep), Len(s)>> \in T
  BY <1>1, <1>2, SelectedReaches
<1> QED
  BY <1>3 DEF T
=============================================================================
