------------------------------- MODULE Loops -------------------------------
(***************************************************************************)
(* How loops of the programs are reasoned about.  A loop over the numbers  *)
(* 1 to N is modelled by a recursive function; that such a function exists *)
(* and that an invariant of its steps holds of all its values are instances *)
(* of induction, which is done here once: by a least counterexample, for   *)
(* sets and functions and so without an operator as a parameter.           *)
(***************************************************************************)
EXTENDS Integers, WellFoundedInduction, TLAPS

LEMMA LeastNumber ==
  ASSUME NEW T \in SUBSET Nat, T # {}
  PROVE  \E x \in T : \A y \in T : x <= y
<1>1. PICK x \in T : \A y \in T : <<y, x>> \notin OpToRel(<, Nat)
  BY NatLessThanWellFounded, WFMin, Zenon
<1>2. \A y \in T : ~ (y < x)
  BY <1>1, Zenon DEF OpToRel
<1>. QED
  BY <1>2

\* Induction up to N, for the set of the numbers that have the property.
LEMMA UpTo ==
  ASSUME NEW N \in Nat, NEW P, 0 \in P, \A n \in 1..N : n - 1 \in P => n \in P
  PROVE  0..N \subseteq P
<1>. DEFINE T == (0..N) \ P
<1>. SUFFICES ASSUME T # {} PROVE FALSE
  OBVIOUS
<1>1. T \in SUBSET Nat
  OBVIOUS
<1>2. PICK x \in T : \A y \in T : x <= y
  <2>. HIDE DEF T
  <2>. QED
    BY <1>1, LeastNumber
<1>3. x - 1 \in T
  BY <1>2
<1>. QED
  BY <1>2, <1>3

\* f[n] is the value after n rounds of a loop that begins with `first` and
\* whose round n takes x to Round[n][x].
IsLoop(f, N, first, Round) ==
  f = [n \in 0..N |-> IF n = 0 THEN first ELSE Round[n][f[n - 1]]]

LEMMA LoopExists ==
  ASSUME NEW N \in Nat, NEW S, NEW first \in S, NEW Round \in [1..N -> [S -> S]]
  PROVE  \E f \in [0..N -> S] : IsLoop(f, N, first, Round)
<1>. DEFINE P == {k \in 0..N : \E f \in [0..k -> S] : IsLoop(f, k, first, Round)}
<1>1. 0 \in P
  <2>1. IsLoop([n \in 0..0 |-> first], 0, first, Round)
    BY DEF IsLoop
  <2>. QED
    BY <2>1
<1>2. ASSUME NEW n \in 1..N, n - 1 \in P PROVE n \in P
  <2>1. PICK f \in [0..(n - 1) -> S] : IsLoop(f, n - 1, first, Round)
    BY <1>2
  <2>. DEFINE g == [m \in 0..n |-> IF m = n THEN Round[n][f[n - 1]] ELSE f[m]]
  <2>2. g \in [0..n -> S]
    BY <2>1
  <2>3. ASSUME NEW m \in 0..n
        PROVE  g[m] = IF m = 0 THEN first ELSE Round[m][g[m - 1]]
    <3>1. CASE m = n
      BY <3>1
    <3>2. CASE m # n
      <4>1. /\ m \in 0..(n - 1)
            /\ m # 0 => m - 1 \in 0..(n - 1) /\ m - 1 # n /\ m - 1 \in 0..n
        BY <3>2
      <4>2. f[m] = IF m = 0 THEN first ELSE Round[m][f[m - 1]]
        BY <2>1, <4>1 DEF IsLoop
      <4>. QED
        BY <3>2, <4>1, <4>2
    <3>. QED
      BY <3>1, <3>2
  <2>4. IsLoop(g, n, first, Round)
    BY <2>2, <2>3 DEF IsLoop
  <2>. QED
    BY <2>2, <2>4
<1>3. 0..N \subseteq P
  <2>. HIDE DEF P
  <2>. QED
    BY <1>1, <1>2, UpTo
<1>. QED
  BY <1>3

\* What each round preserves holds after every round.
LEMMA LoopInvariant ==
  ASSUME NEW N \in Nat, NEW f, NEW R, f[0] \in R,
         \A n \in 1..N : f[n - 1] \in R => f[n] \in R
  PROVE  \A n \in 0..N : f[n] \in R
<1>. DEFINE P == {n \in 0..N : f[n] \in R}
<1>1. 0 \in P /\ \A n \in 1..N : n - 1 \in P => n \in P
  OBVIOUS
<1>2. 0..N \subseteq P
  <2>. HIDE DEF P
  <2>. QED
    BY <1>1, UpTo
<1>. QED
  BY <1>2
=============================================================================
