-------------------------------- MODULE Loops ---------------------------------
(***************************************************************************)
(* Loops with a counter: induction over the rounds, and that the sequence  *)
(* of tables a loop builds exists, which is what a recursive function of   *)
(* the models needs to be equal to its definition.                         *)
(***************************************************************************)
EXTENDS Integers, FiniteSets, FiniteSetTheorems, WellFoundedInduction, TLAPS

(* A nonempty set of natural numbers has a smallest element.  (The subset  *)
(* ordering of finite sets is well founded; apply it to the intervals that *)
(* end in S.)                                                              *)
LEMMA NatMin ==
  ASSUME NEW S \in SUBSET Nat, S # {}
  PROVE  \E m \in S : \A k \in S : m <= k
<1> DEFINE F == {0 .. m : m \in S}
<1>1. F \subseteq FiniteSubsetsOf(Nat)
  <2>1. ASSUME NEW m \in S PROVE 0 .. m \in SUBSET Nat /\ IsFiniteSet(0 .. m)
    BY FS_Interval
  <2> QED BY <2>1 DEF FiniteSubsetsOf
<1>2. F # {} OBVIOUS
<1>3. PICK U \in F : \A V \in F : <<V, U>> \notin StrictSubsetOrdering(Nat)
  <2> HIDE DEF F
  <2> QED BY <1>1, <1>2, WFMin, FS_StrictSubsetOrderingWellFounded
<1>4. PICK m \in S : U = 0 .. m OBVIOUS
<1>5. ASSUME NEW k \in S, k < m PROVE FALSE
  <2>1. 0 .. k \in F OBVIOUS
  <2>2. (0 .. k) \subseteq (0 .. m) /\ (0 .. k) # (0 .. m) BY <1>5
  <2>3. (0 .. k) \in SUBSET Nat /\ (0 .. m) \in SUBSET Nat OBVIOUS
  <2>4. <<0 .. k, U>> \in StrictSubsetOrdering(Nat)
    BY <2>2, <2>3, <1>4, Zenon DEF StrictSubsetOrdering
  <2> QED BY <2>1, <2>4, <1>3
<1> QED BY <1>5

(* Induction up to a bound, for a set of numbers.                          *)
LEMMA UpTo ==
  ASSUME NEW N \in Nat, NEW G, 0 \in G, \A n \in 1 .. N : n - 1 \in G => n \in G
  PROVE  \A n \in 0 .. N : n \in G
<1> SUFFICES ASSUME NEW k \in 0 .. N, k \notin G PROVE FALSE
  OBVIOUS
<1>1. PICK S : S = {n \in 0 .. N : n \notin G}
  OBVIOUS
<1>2. S \in SUBSET Nat /\ S # {}
  BY <1>1
<1>3. PICK m \in S : \A n \in S : m <= n
  BY <1>2, NatMin
<1>4. m \in 1 .. N /\ m - 1 \in 0 .. N /\ m - 1 \notin S
  BY <1>1, <1>3
<1> QED BY <1>1, <1>4

(* A loop of N rounds runs: there is the sequence of its tables.           *)
Loop(N, S) == [1 .. N -> [S -> S]]

Run(t, N, S, first, step) ==
    /\ t \in [0 .. N -> S]
    /\ t[0] = first
    /\ \A n \in 1 .. N : t[n] = step[n][t[n - 1]]

LEMMA RoundsExist ==
  ASSUME NEW N \in Nat, NEW S, NEW first \in S, NEW step \in Loop(N, S)
  PROVE  \E t : Run(t, N, S, first, step)
<1> USE DEF Loop
<1>1. PICK G : G = {k \in 0 .. N : \E t \in [0 .. k -> S] :
                                t[0] = first /\ \A n \in 1 .. k : t[n] = step[n][t[n - 1]]}
  OBVIOUS
<1>2. 0 \in G
  <2>1. PICK t : t = [n \in 0 .. 0 |-> first]
    OBVIOUS
  <2>2. t \in [0 .. 0 -> S] /\ t[0] = first /\ \A n \in 1 .. 0 : t[n] = step[n][t[n - 1]]
    BY <2>1
  <2>3. 0 \in 0 .. N
    OBVIOUS
  <2> QED BY <1>1, <2>2, <2>3
<1>3. ASSUME NEW k \in 1 .. N, k - 1 \in G PROVE k \in G
  <2>1. PICK t \in [0 .. k - 1 -> S] : t[0] = first /\ \A n \in 1 .. k - 1 : t[n] = step[n][t[n - 1]]
    BY <1>1, <1>3
  <2>2. PICK u : u = [n \in 0 .. k |-> IF n = k THEN step[k][t[k - 1]] ELSE t[n]]
    OBVIOUS
  <2>3. k - 1 \in 0 .. k - 1
    OBVIOUS
  <2>4. t[k - 1] \in S
    BY <2>3
  <2>5. step[k][t[k - 1]] \in S
    BY <2>4
  <2>6. u \in [0 .. k -> S]
    BY <2>2, <2>5
  <2>7. u[0] = first
    BY <2>1, <2>2
  <2>8. ASSUME NEW n \in 1 .. k PROVE u[n] = step[n][u[n - 1]]
    <3>1. n \in 0 .. k /\ n - 1 \in 0 .. k /\ n - 1 # k /\ (n # k => n \in 1 .. k - 1)
      OBVIOUS
    <3>2. u[n - 1] = t[n - 1]
      BY <2>2, <3>1
    <3> QED BY <2>1, <2>2, <3>1, <3>2
  <2> QED BY <1>1, <2>6, <2>7, <2>8
<1>4. \A k \in 0 .. N : k \in G
  BY <1>2, <1>3, UpTo
<1>5. N \in 0 .. N
  OBVIOUS
<1> QED BY <1>1, <1>4, <1>5 DEF Run
===============================================================================
