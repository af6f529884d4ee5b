----------------------------- MODULE NaturalFacts -----------------------------
(***************************************************************************)
(* Facts about natural numbers that several proofs rest on: the smallest   *)
(* element, induction up to a bound, and that a fold over 1..m exists.     *)
(***************************************************************************)
EXTENDS Naturals, WellFoundedInduction, TLAPS

(* A set of natural numbers has a smallest one.                            *)
LEMMA SmallestExists ==
  ASSUME NEW P \in SUBSET Nat, P # {}
  PROVE  \E p \in P : \A q \in P : p <= q
<1> DEFINE Below == OpToRel(<, Nat)
<1>1. \A p, q \in Nat : q < p => <<q, p>> \in Below
  BY DEF OpToRel
<1>2. IsWellFoundedOn(Below, Nat)
  BY NatLessThanWellFounded
<1> HIDE DEF Below
<1>3. PICK p \in P : \A q \in P : ~(<<q, p>> \in Below)
  BY <1>2, WFMin
<1>4. ASSUME NEW q \in P PROVE ~(q < p)
  BY <1>1, <1>3, Zenon
<1> QED BY <1>4

(* What holds at 0, and at k when it holds at k - 1, holds up to m.        *)
LEMMA ClosedIsAll ==
  ASSUME NEW m \in Nat, NEW P, 0 \in P, \A k \in 1..m : k - 1 \in P => k \in P
  PROVE  \A k \in 0..m : k \in P
<1> DEFINE Left == (0..m) \ P
<1> SUFFICES ASSUME Left # {} PROVE FALSE
  OBVIOUS
<1>1. PICK k \in Left : \A j \in Left : k <= j
  <2>1. Left \in SUBSET Nat
    OBVIOUS
  <2> QED BY <2>1, SmallestExists
<1>2. k # 0 /\ k \in 1..m
  BY <1>1
<1>3. k - 1 \in 0..m /\ ~(k <= k - 1)
  BY <1>2
<1>4. k - 1 \in P
  BY <1>1, <1>3
<1> QED BY <1>1, <1>2, <1>4

(* Values that begin with base and follow from one another by step.        *)
IsFold(f, base, step, m, S) ==
  f \in [0..m -> S] /\ f[0] = base /\ \A k \in 1..m : f[k] = step[k][f[k - 1]]

LEMMA FoldExists ==
  ASSUME NEW S, NEW base \in S, NEW m \in Nat, NEW step \in [1..m -> [S -> S]]
  PROVE  \E f : IsFold(f, base, step, m, S)
<1> DEFINE Is(f, n) == f \in [0..n -> S] /\ f[0] = base /\ \A k \in 1..n : f[k] = step[k][f[k - 1]]
           P == {n \in 0..m : \E f : Is(f, n)}
<1>1. 0 \in P
  <2>1. Is([n \in 0..0 |-> base], 0)
    OBVIOUS
  <2> HIDE DEF Is
  <2> QED BY <2>1
<1>2. ASSUME NEW n \in 1..m, n - 1 \in P PROVE n \in P
  <2>1. PICK f : Is(f, n - 1)
    BY <1>2
  <2> DEFINE g == [k \in 0..n |-> IF k = n THEN step[n][f[n - 1]] ELSE f[k]]
  <2>2. n - 1 \in 0..(n - 1) /\ f[n - 1] \in S
    BY <2>1
  <2>3. g \in [0..n -> S]
    BY <2>1, <2>2
  <2>4. \A k \in 0..(n - 1) : g[k] = f[k]
    OBVIOUS
  <2>5. \A k \in 1..n : g[k] = step[k][g[k - 1]]
    <3> SUFFICES ASSUME NEW k \in 1..n PROVE g[k] = step[k][g[k - 1]]
      OBVIOUS
    <3>1. g[k - 1] = f[k - 1]
      BY <2>4
    <3>2. CASE k = n
      BY <3>1, <3>2
    <3>3. CASE k # n
      <4>1. k \in 1..(n - 1) /\ k \in 0..(n - 1)
        BY <3>3
      <4> QED BY <2>1, <2>4, <3>1, <4>1
    <3> QED BY <3>2, <3>3
  <2>6. g[0] = base
    BY <2>1, <2>4
  <2>7. Is(g, n)
    BY <2>3, <2>5, <2>6
  <2> HIDE DEF Is, g
  <2> QED BY <2>7
<1> HIDE DEF Is
<1>3. m \in P
  <2> HIDE DEF P
  <2>1. m \in 0..m
    OBVIOUS
  <2>2. \A k \in 1..m : k - 1 \in P => k \in P
    BY <1>2
  <2>3. \A k \in 0..m : k \in P
    BY <1>1, <2>2, ClosedIsAll, Zenon
  <2> QED BY <2>1, <2>3
<1>4. PICK f : Is(f, m)
  BY <1>3
<1> QED BY <1>4 DEF Is, IsFold

=============================================================================
