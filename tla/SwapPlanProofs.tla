---------------------------- MODULE SwapPlanProofs ----------------------------
(***************************************************************************)
(* What the loops of SwapPlan compute, for every cluster and every plan:   *)
(* exchanging the pairs one after the other is the same as exchanging them *)
(* all at once if no two pairs share a slot, and the assertions on the way *)
(* see to it that they do not.                                             *)
(***************************************************************************)
EXTENDS SwapPlan, ControllerProofs, SequenceTheorems

-------------------------------------------------------------------------------
(* The configurations a scheduler may move: at most one slot per machine.  *)
OnePerMachine(C) == C \subseteq Elem /\ \A c, d \in C : c[1] = d[1] => c = d

LEMMA ElementFound ==
  ASSUME NEW C, OnePerMachine(C), NEW move \in [C -> Elem]
  PROVE  /\ \A n : ~Idle(move, n) => ElementOf(move, n) \in C /\ ElementOf(move, n)[1] = n - 1
         /\ \A c \in C : /\ c[1] + 1 \in 1 .. NMachines /\ ~Idle(move, c[1] + 1)
                         /\ ElementOf(move, c[1] + 1) = c
<1>1. DOMAIN move = C
  OBVIOUS
<1>2. \A n : ~Idle(move, n) => ElementOf(move, n) \in C /\ ElementOf(move, n)[1] = n - 1
  BY <1>1 DEF Idle, ElementOf
<1>3. ASSUME NEW c \in C
      PROVE  /\ c[1] + 1 \in 1 .. NMachines /\ ~Idle(move, c[1] + 1)
             /\ ElementOf(move, c[1] + 1) = c
  <2>1. c[1] \in 0 .. NMachines - 1
    BY DEF OnePerMachine, Elem, Machine
  <2>2. c[1] + 1 \in 1 .. NMachines /\ (c[1] + 1) - 1 = c[1]
    BY <2>1, NMachinesAssumption
  <2>3. ~Idle(move, c[1] + 1)
    BY <1>1, <2>2 DEF Idle
  <2> QED BY <1>2, <2>2, <2>3 DEF OnePerMachine
<1> QED BY <1>2, <1>3

LEMMA Transposes ==
  ASSUME NEW a \in Elem, NEW b \in Elem
  PROVE  /\ \A e \in Elem : Transpose(a, b, e) \in Elem /\ Transpose(a, b, Transpose(a, b, e)) = e
         /\ \A d, e \in Elem : Transpose(a, b, d) = Transpose(a, b, e) => d = e
BY DEF Transpose

(* The tables of the loop of swaps.                                        *)
IsSwapLoop(t, f, move) ==
    /\ t[0] = f
    /\ \A n \in 1 .. NMachines :
            t[n] = IF Idle(move, n) THEN t[n - 1]
                   ELSE SwapAt(t[n - 1], ElementOf(move, n), move[ElementOf(move, n)])

LEMMA SwapRounds ==
  ASSUME NEW C, OnePerMachine(C), NEW move \in [C -> Elem], NEW V, NEW f \in [Elem -> V]
  PROVE  /\ SwapPairs(f, move) \in [0 .. NMachines -> [Elem -> V]]
         /\ IsSwapLoop(SwapPairs(f, move), f, move)
<1>0. PICK S : S = [Elem -> V]
  OBVIOUS
<1>1. PICK step : step = [n \in 1 .. NMachines |-> [g \in S |->
                IF Idle(move, n) THEN g ELSE SwapAt(g, ElementOf(move, n), move[ElementOf(move, n)])]]
  OBVIOUS
<1>2. step \in [1 .. NMachines -> [S -> S]]
  <2> SUFFICES ASSUME NEW n \in 1 .. NMachines, NEW g \in S
               PROVE  (IF Idle(move, n) THEN g
                       ELSE SwapAt(g, ElementOf(move, n), move[ElementOf(move, n)])) \in S
    BY <1>1
  <2>1. CASE Idle(move, n)
    BY <2>1
  <2>2. CASE ~Idle(move, n)
    <3>1. PICK a, b \in Elem : a = ElementOf(move, n) /\ b = move[ElementOf(move, n)]
      BY <2>2, ElementFound DEF OnePerMachine
    <3>2. DOMAIN g = Elem /\ \A e \in Elem : g[Transpose(a, b, e)] \in V
      BY <1>0, Transposes
    <3>3. SwapAt(g, a, b) \in [Elem -> V]
      BY <3>2 DEF SwapAt
    <3> QED BY <1>0, <2>2, <3>1, <3>3
  <2> QED BY <2>1, <2>2
<1>3. PICK g \in [0 .. NMachines -> S] :
            g[0] = f /\ \A n \in 1 .. NMachines : g[n] = step[n][g[n - 1]]
  <2>1. NMachines \in Nat /\ f \in S /\ step \in Loop(NMachines, S)
    BY <1>0, <1>2, NMachinesAssumption DEF Loop
  <2>2. PICK g : Run(g, NMachines, S, f, step)
    BY <2>1, RoundsExist
  <2> QED BY <2>2 DEF Run
<1>4. \A n \in 1 .. NMachines :
        g[n] = IF Idle(move, n) THEN g[n - 1]
               ELSE SwapAt(g[n - 1], ElementOf(move, n), move[ElementOf(move, n)])
  <2> SUFFICES ASSUME NEW n \in 1 .. NMachines
               PROVE  g[n] = IF Idle(move, n) THEN g[n - 1]
                             ELSE SwapAt(g[n - 1], ElementOf(move, n), move[ElementOf(move, n)])
    OBVIOUS
  <2>1. n - 1 \in 0 .. NMachines
    BY NMachinesAssumption
  <2>2. g[n - 1] \in S /\ g[n] = step[n][g[n - 1]]
    BY <1>3, <2>1
  <2> QED BY <1>1, <2>2
<1> DEFINE Body(t) == [n \in 0 .. NMachines |->
                        IF n = 0 THEN f
                        ELSE IF Idle(move, n) THEN t[n - 1]
                        ELSE SwapAt(t[n - 1], ElementOf(move, n), move[ElementOf(move, n)])]
<1>5. g = Body(g)
  <2>1. \A n \in 0 .. NMachines : g[n] = Body(g)[n]
    BY <1>3, <1>4
  <2> QED BY <1>3, <2>1
<1>6. SwapPairs(f, move) = CHOOSE t : t = Body(t)
  BY DEF SwapPairs
<1>7. SwapPairs(f, move) = Body(SwapPairs(f, move))
  <2> HIDE DEF Body
  <2> QED BY <1>5, <1>6
<1>8. PICK h : h = SwapPairs(f, move)
  OBVIOUS
<1>9. /\ DOMAIN h = 0 .. NMachines /\ h[0] = f
      /\ \A n \in 1 .. NMachines :
            h[n] = IF Idle(move, n) THEN h[n - 1]
                   ELSE SwapAt(h[n - 1], ElementOf(move, n), move[ElementOf(move, n)])
  <2>1. h = Body(h)
    BY <1>7, <1>8
  <2> QED BY <2>1, NMachinesAssumption
<1>10. \A n \in 0 .. NMachines : h[n] = g[n]
  <2>1. PICK G : G = {n \in 0 .. NMachines : h[n] = g[n]}
    OBVIOUS
  <2>2. 0 \in G
    BY <1>3, <1>9, <2>1, NMachinesAssumption
  <2>3. ASSUME NEW n \in 1 .. NMachines, n - 1 \in G PROVE n \in G
    BY <1>4, <1>9, <2>1, <2>3
  <2>4. NMachines \in Nat
    BY NMachinesAssumption
  <2>5. \A n \in 0 .. NMachines : n \in G
    BY <2>2, <2>3, <2>4, UpTo
  <2> QED BY <2>1, <2>5
<1>11. h \in [0 .. NMachines -> [Elem -> V]]
  <2>1. h = [n \in 0 .. NMachines |-> h[n]]
    BY <1>7, <1>8
  <2> QED BY <1>0, <1>3, <1>10, <2>1
<1> QED BY <1>8, <1>9, <1>11 DEF IsSwapLoop

-------------------------------------------------------------------------------
(* No slot is in two pairs.                                                *)
Apart(C, move) == \A c, d \in C : c # d => move[c] # move[d] /\ move[c] # d

(* Table g is table f with the pairs of the first n machines exchanged.    *)
Exchanged(f, g, C, move, n) ==
    /\ \A c \in C : c[1] < n => g[c] = f[move[c]] /\ g[move[c]] = f[c]
    /\ \A x \in Elem : (\A c \in C : c[1] < n => x # c /\ x # move[c]) => g[x] = f[x]

LEMMA ExchangedStart ==
  ASSUME NEW C, OnePerMachine(C), NEW move, NEW f
  PROVE  Exchanged(f, f, C, move, 0)
<1>1. \A c \in C : ~(c[1] < 0)
  BY NMachinesAssumption DEF OnePerMachine, Elem, Machine
<1> QED BY <1>1 DEF Exchanged

LEMMA ExchangedStep ==
  ASSUME NEW C, OnePerMachine(C), NEW move \in [C -> Elem], Apart(C, move),
         NEW f, NEW g, DOMAIN g = Elem, NEW n \in 1 .. NMachines, Exchanged(f, g, C, move, n - 1)
  PROVE  /\ Idle(move, n) => Exchanged(f, g, C, move, n)
         /\ ~Idle(move, n) => Exchanged(f, SwapAt(g, ElementOf(move, n), move[ElementOf(move, n)]), C, move, n)
<1>1. \A c \in C : c \in Elem /\ c[1] \in Int /\ move[c] \in Elem
  BY NMachinesAssumption DEF OnePerMachine, Elem, Machine
<1>2. ASSUME Idle(move, n) PROVE Exchanged(f, g, C, move, n)
  <2>1. \A c \in C : c[1] < n <=> c[1] < n - 1
    BY <1>1, <1>2 DEF Idle
  <2> QED BY <2>1 DEF Exchanged
<1>3. ASSUME ~Idle(move, n)
      PROVE  Exchanged(f, SwapAt(g, ElementOf(move, n), move[ElementOf(move, n)]), C, move, n)
  <2>1. PICK e \in C : e = ElementOf(move, n) /\ e[1] = n - 1
    BY <1>3, ElementFound
  <2>2. PICK h : h = SwapAt(g, e, move[e])
    OBVIOUS
  <2>3. \A c \in C : c # e => (c[1] < n <=> c[1] < n - 1)
    BY <1>1, <2>1 DEF OnePerMachine
  <2>4. /\ h[e] = g[move[e]] /\ h[move[e]] = g[e]
        /\ \A x \in Elem : x # e /\ x # move[e] => h[x] = g[x]
    BY <1>1, <2>2 DEF SwapAt, Transpose
  <2>5. g[e] = f[e] /\ g[move[e]] = f[move[e]]
    <3>1. \A c \in C : c[1] < n - 1 => /\ c # e
                                       /\ e # c /\ e # move[c] /\ move[e] # c /\ move[e] # move[c]
      BY <1>1, <2>1 DEF Apart
    <3> QED BY <1>1, <3>1 DEF Exchanged
  <2>6. \A c \in C : c[1] < n => h[c] = f[move[c]] /\ h[move[c]] = f[c]
    <3> SUFFICES ASSUME NEW c \in C, c[1] < n PROVE h[c] = f[move[c]] /\ h[move[c]] = f[c]
      OBVIOUS
    <3>1. CASE c = e
      BY <2>4, <2>5, <3>1
    <3>2. CASE c # e
      <4>1. c # move[e] /\ move[c] # e /\ move[c] # move[e]
        BY <3>2 DEF Apart
      <4>2. g[c] = f[move[c]] /\ g[move[c]] = f[c]
        BY <2>3, <3>2 DEF Exchanged
      <4> QED BY <1>1, <2>4, <3>2, <4>1, <4>2
    <3> QED BY <3>1, <3>2
  <2>7. ASSUME NEW x \in Elem, \A c \in C : c[1] < n => x # c /\ x # move[c]
        PROVE  h[x] = f[x]
    <3>1. x # e /\ x # move[e] /\ \A c \in C : c[1] < n - 1 => x # c /\ x # move[c]
      BY <1>1, <2>1, <2>7
    <3> QED BY <2>4, <3>1 DEF Exchanged
  <2>8. Exchanged(f, h, C, move, n)
    BY <2>6, <2>7 DEF Exchanged
  <2> QED BY <2>1, <2>2, <2>8
<1> QED BY <1>2, <1>3

(* Swapping pairs that share no slot one after the other exchanges them.   *)
LEMMA SwapsExchange ==
  ASSUME NEW C, OnePerMachine(C), NEW move \in [C -> Elem], Apart(C, move),
         NEW V, NEW f \in [Elem -> V]
  PROVE  \A n \in 0 .. NMachines : Exchanged(f, SwapPairs(f, move)[n], C, move, n)
<1>1. PICK t : t = SwapPairs(f, move)
  OBVIOUS
<1>2. PICK G : G = {n \in 0 .. NMachines : Exchanged(f, t[n], C, move, n)}
  OBVIOUS
<1>3. NMachines \in Nat
  BY NMachinesAssumption
<1>r. t \in [0 .. NMachines -> [Elem -> V]] /\ IsSwapLoop(t, f, move)
  BY <1>1, SwapRounds
<1>i. t[0] = f
  BY <1>r DEF IsSwapLoop
<1>4. 0 \in G
  BY <1>i, <1>2, <1>3, ExchangedStart
<1>5. ASSUME NEW n \in 1 .. NMachines, n - 1 \in G PROVE n \in G
  <2>1. Exchanged(f, t[n - 1], C, move, n - 1) /\ n - 1 \in 0 .. NMachines /\ n \in 0 .. NMachines
    BY <1>2, <1>3, <1>5
  <2>2. DOMAIN t[n - 1] = Elem
    BY <1>r, <2>1
  <2>3. CASE Idle(move, n)
    <3>1. t[n] = t[n - 1]
      BY <1>r, <2>3 DEF IsSwapLoop
    <3> QED BY <1>2, <2>1, <2>2, <2>3, <3>1, ExchangedStep
  <2>4. CASE ~Idle(move, n)
    <3>1. t[n] = SwapAt(t[n - 1], ElementOf(move, n), move[ElementOf(move, n)])
      BY <1>r, <2>4 DEF IsSwapLoop
    <3> QED BY <1>2, <2>1, <2>2, <2>4, <3>1, ExchangedStep
  <2> QED BY <2>3, <2>4
<1>6. \A n \in 0 .. NMachines : n \in G
  BY <1>3, <1>4, <1>5, UpTo
<1> QED BY <1>1, <1>2, <1>6

(* The slot whose entries a slot gets by such an exchange.                 *)
Partner(C, move) ==
    [x \in Elem |-> IF x \in C THEN move[x]
                    ELSE IF \E c \in C : move[c] = x THEN CHOOSE c \in C : move[c] = x
                    ELSE x]

LEMMA Partners ==
  ASSUME NEW C, OnePerMachine(C), NEW move \in [C -> Elem], Apart(C, move)
  PROVE  /\ Partner(C, move) \in [Elem -> Elem]
         /\ \A x \in Elem : Partner(C, move)[Partner(C, move)[x]] = x
         /\ \A c \in C : Partner(C, move)[c] = move[c] /\ Partner(C, move)[move[c]] = c
         /\ \A x \in Elem : (\A c \in C : x # c /\ x # move[c]) => Partner(C, move)[x] = x
<1>1. PICK p : p = Partner(C, move)
  OBVIOUS
<1>2. \A c \in C : c \in Elem /\ move[c] \in Elem
  BY DEF OnePerMachine
<1>3. \A c \in C : p[c] = move[c]
  BY <1>1, <1>2 DEF Partner
<1>4. ASSUME NEW c \in C PROVE p[move[c]] = c
  <2>1. CASE move[c] \in C
    <3>1. move[c] = c
      BY <2>1 DEF Apart
    <3> QED BY <1>3, <3>1
  <2>2. CASE move[c] \notin C
    <3>1. p[move[c]] = CHOOSE d \in C : move[d] = move[c]
      BY <1>1, <1>2, <2>2 DEF Partner
    <3>2. \A d \in C : move[d] = move[c] => d = c
      BY DEF Apart
    <3> QED BY <3>1, <3>2
  <2> QED BY <2>1, <2>2
<1>5. ASSUME NEW x \in Elem, \A c \in C : x # c /\ x # move[c] PROVE p[x] = x
  BY <1>1, <1>5 DEF Partner
<1>6. ASSUME NEW x \in Elem PROVE p[x] \in Elem /\ p[p[x]] = x
  <2>1. CASE x \in C
    BY <1>2, <1>3, <1>4, <2>1
  <2>2. CASE \E c \in C : x = move[c]
    BY <1>2, <1>3, <1>4, <2>2
  <2>3. CASE \A c \in C : x # c /\ x # move[c]
    BY <1>5, <2>3
  <2> QED BY <2>1, <2>2, <2>3
<1>7. p \in [Elem -> Elem]
  BY <1>1, <1>6 DEF Partner
<1> QED BY <1>1, <1>3, <1>4, <1>5, <1>6, <1>7

LEMMA SwapsArePartners ==
  ASSUME NEW C, OnePerMachine(C), NEW move \in [C -> Elem], Apart(C, move),
         NEW V, NEW f \in [Elem -> V]
  PROVE  SwapPairs(f, move)[NMachines] = [x \in Elem |-> f[Partner(C, move)[x]]]
<1>1. PICK p : p = Partner(C, move)
  OBVIOUS
<1>2. PICK g : g = SwapPairs(f, move)[NMachines]
  OBVIOUS
<1>3. NMachines \in 0 .. NMachines
  BY NMachinesAssumption
<1>4. g \in [Elem -> V]
  <2>1. SwapPairs(f, move) \in [0 .. NMachines -> [Elem -> V]]
    BY SwapRounds
  <2> QED BY <1>2, <1>3, <2>1
<1>5. Exchanged(f, g, C, move, NMachines)
  BY <1>2, <1>3, SwapsExchange
<1>6. \A c \in C : c \in Elem /\ c[1] < NMachines
  BY NMachinesAssumption DEF OnePerMachine, Elem, Machine
<1>7. ASSUME NEW x \in Elem PROVE g[x] = f[p[x]]
  <2>1. CASE x \in C
    BY <1>1, <1>5, <1>6, <2>1, Partners DEF Exchanged
  <2>2. CASE \E c \in C : x = move[c]
    BY <1>1, <1>5, <1>6, <2>2, Partners DEF Exchanged
  <2>3. CASE \A c \in C : x # c /\ x # move[c]
    BY <1>1, <1>5, <2>3, Partners DEF Exchanged
  <2> QED BY <2>1, <2>2, <2>3
<1> QED BY <1>1, <1>2, <1>4, <1>7

-------------------------------------------------------------------------------
(* The tables of the loop of update_config.                                *)
MoveTable(C) ==
    [usage : [Elem -> JobId \cup {Empty}], configs : [JobId -> SUBSET Elem],
     mine : [C -> Elem], ok : BOOLEAN]

MoveStart(C) ==
    [usage |-> machine_usage, configs |-> id_to_config, mine |-> [e \in C |-> e], ok |-> TRUE]

LEMMA UpdatePairType ==
  ASSUME NEW C, OnePerMachine(C), NEW move \in [C -> Elem], NEW id \in JobId,
         NEW e \in C, NEW t \in MoveTable(C)
  PROVE  UpdatePair(t, id, move, e) \in MoveTable(C)
<1>1. PICK a, b \in Elem : a = t.mine[e] /\ b = move[e]
  BY DEF MoveTable
<1>2. SwapAt(t.usage, a, b) \in [Elem -> JobId \cup {Empty}]
  <2>1. \A x \in Elem : t.usage[Transpose(a, b, x)] \in JobId \cup {Empty}
    BY Transposes DEF MoveTable
  <2>2. DOMAIN t.usage = Elem
    BY DEF MoveTable
  <2> QED BY <2>1, <2>2 DEF SwapAt
<1>3. [j \in JobId |-> IF j \in {id, t.usage[b]}
                       THEN {Transpose(a, b, c) : c \in t.configs[j]}
                       ELSE t.configs[j]] \in [JobId -> SUBSET Elem]
  <2>1. \A j \in JobId : t.configs[j] \subseteq Elem
    BY DEF MoveTable
  <2>2. \A j \in JobId : {Transpose(a, b, c) : c \in t.configs[j]} \subseteq Elem
    BY <2>1, Transposes
  <2> QED BY <2>1, <2>2
<1>4. [k \in DOMAIN t.mine |-> Transpose(a, b, t.mine[k])] \in [C -> Elem]
  <2>1. DOMAIN t.mine = C /\ \A k \in C : t.mine[k] \in Elem
    BY DEF MoveTable
  <2> QED BY <2>1, Transposes
<1>5. (t.ok /\ (t.usage[b] # Empty => b \in t.configs[t.usage[b]])) \in BOOLEAN
  OBVIOUS
<1> QED BY <1>1, <1>2, <1>3, <1>4, <1>5 DEF UpdatePair, MoveTable

LEMMA UpdateRounds ==
  ASSUME NEW C, OnePerMachine(C), NEW move \in [C -> Elem], NEW id \in JobId,
         machine_usage \in [Elem -> JobId \cup {Empty}], id_to_config \in [JobId -> SUBSET Elem]
  PROVE  \E t \in [0 .. NMachines -> MoveTable(C)] :
            /\ t[0] = MoveStart(C)
            /\ \A n \in 1 .. NMachines :
                    t[n] = IF Idle(move, n) THEN t[n - 1]
                           ELSE UpdatePair(t[n - 1], id, move, ElementOf(move, n))
            /\ update_config(id, move) = t[NMachines]
<1>0. PICK S : S = MoveTable(C)
  OBVIOUS
<1>f. PICK first : first = MoveStart(C)
  OBVIOUS
<1>s. first \in S
  BY <1>0, <1>f DEF MoveStart, MoveTable, OnePerMachine
<1>1. PICK step : step = [n \in 1 .. NMachines |-> [g \in S |->
                IF Idle(move, n) THEN g ELSE UpdatePair(g, id, move, ElementOf(move, n))]]
  OBVIOUS
<1>2. step \in [1 .. NMachines -> [S -> S]]
  <2> SUFFICES ASSUME NEW n \in 1 .. NMachines, NEW g \in S
               PROVE  (IF Idle(move, n) THEN g
                       ELSE UpdatePair(g, id, move, ElementOf(move, n))) \in S
    BY <1>1
  <2>1. CASE Idle(move, n)
    BY <2>1
  <2>2. CASE ~Idle(move, n)
    <3>1. PICK e \in C : e = ElementOf(move, n)
      BY <2>2, ElementFound
    <3>2. UpdatePair(g, id, move, e) \in S
      BY <1>0, UpdatePairType
    <3> QED BY <2>2, <3>1, <3>2
  <2> QED BY <2>1, <2>2
<1>3. PICK g \in [0 .. NMachines -> S] :
            g[0] = first /\ \A n \in 1 .. NMachines : g[n] = step[n][g[n - 1]]
  <2>1. NMachines \in Nat /\ first \in S /\ step \in Loop(NMachines, S)
    BY <1>s, <1>2, NMachinesAssumption DEF Loop
  <2>2. PICK g : Run(g, NMachines, S, first, step)
    BY <2>1, RoundsExist
  <2> QED BY <2>2 DEF Run
<1>4. \A n \in 1 .. NMachines :
        g[n] = IF Idle(move, n) THEN g[n - 1]
               ELSE UpdatePair(g[n - 1], id, move, ElementOf(move, n))
  <2> SUFFICES ASSUME NEW n \in 1 .. NMachines
               PROVE  g[n] = IF Idle(move, n) THEN g[n - 1]
                             ELSE UpdatePair(g[n - 1], id, move, ElementOf(move, n))
    OBVIOUS
  <2>1. n - 1 \in 0 .. NMachines
    BY NMachinesAssumption
  <2>2. g[n - 1] \in S /\ g[n] = step[n][g[n - 1]]
    BY <1>3, <2>1
  <2> QED BY <1>1, <2>2
<1> DEFINE Body(t) == [n \in 0 .. NMachines |->
                        IF n = 0 THEN MoveStart(C)
                        ELSE IF Idle(move, n) THEN t[n - 1]
                        ELSE UpdatePair(t[n - 1], id, move, ElementOf(move, n))]
<1>5. g = Body(g)
  <2>1. \A n \in 0 .. NMachines : g[n] = Body(g)[n]
    BY <1>f, <1>3, <1>4
  <2> QED BY <1>3, <2>1
<1>6. update_config(id, move) = (CHOOSE t : t = Body(t))[NMachines]
  <2>1. DOMAIN move = C
    OBVIOUS
  <2> QED BY <2>1 DEF update_config, MoveStart
<1>7. PICK h : h = CHOOSE t : t = Body(t)
  OBVIOUS
<1>8. h = Body(h)
  <2> HIDE DEF Body
  <2> QED BY <1>5, <1>7
<1>9. /\ DOMAIN h = 0 .. NMachines /\ h[0] = MoveStart(C)
      /\ \A n \in 1 .. NMachines :
            h[n] = IF Idle(move, n) THEN h[n - 1]
                   ELSE UpdatePair(h[n - 1], id, move, ElementOf(move, n))
  BY <1>8, NMachinesAssumption
<1>10. \A n \in 0 .. NMachines : h[n] = g[n]
  <2>1. PICK G : G = {n \in 0 .. NMachines : h[n] = g[n]}
    OBVIOUS
  <2>2. 0 \in G
    BY <1>f, <1>3, <1>9, <2>1, NMachinesAssumption
  <2>3. ASSUME NEW n \in 1 .. NMachines, n - 1 \in G PROVE n \in G
    BY <1>4, <1>9, <2>1, <2>3
  <2>4. NMachines \in Nat
    BY NMachinesAssumption
  <2>5. \A n \in 0 .. NMachines : n \in G
    BY <2>2, <2>3, <2>4, UpTo
  <2> QED BY <2>1, <2>5
<1>11. h = g
  <2>1. h = [n \in 0 .. NMachines |-> h[n]]
    BY <1>8
  <2> QED BY <1>3, <1>10, <2>1
<1>12. update_config(id, move) = g[NMachines]
  BY <1>6, <1>7, <1>11
<1> QED BY <1>0, <1>f, <1>3, <1>4, <1>12

(* assert(old_config == new_config): no two slots of the job have moved to *)
(* the same place, as a round permutes the places of the slots.            *)
LEMMA AssertedInjective ==
  ASSUME NEW C, OnePerMachine(C), NEW move \in [C -> Elem], NEW id \in JobId,
         machine_usage \in [Elem -> JobId \cup {Empty}], id_to_config \in [JobId -> SUBSET Elem],
         UpdateAsserts(update_config(id, move), move)
  PROVE  \A c, d \in C : move[c] = move[d] => c = d
<1>1. PICK t \in [0 .. NMachines -> MoveTable(C)] :
            /\ t[0] = MoveStart(C)
            /\ \A n \in 1 .. NMachines :
                    t[n] = IF Idle(move, n) THEN t[n - 1]
                           ELSE UpdatePair(t[n - 1], id, move, ElementOf(move, n))
            /\ update_config(id, move) = t[NMachines]
  BY UpdateRounds
<1>2. PICK G : G = {n \in 0 .. NMachines : \A c, d \in C : t[n].mine[c] = t[n].mine[d] => c = d}
  OBVIOUS
<1>3. NMachines \in Nat
  BY NMachinesAssumption
<1>4. 0 \in G
  BY <1>1, <1>2, <1>3 DEF MoveStart
<1>5. ASSUME NEW n \in 1 .. NMachines, n - 1 \in G PROVE n \in G
  <2>1. n - 1 \in 0 .. NMachines /\ n \in 0 .. NMachines
    BY <1>3
  <2>2. CASE Idle(move, n)
    BY <1>1, <1>2, <1>5, <2>1, <2>2
  <2>3. CASE ~Idle(move, n)
    <3>1. PICK u : u = t[n - 1]
      OBVIOUS
    <3>2. u \in MoveTable(C)
      BY <1>1, <2>1, <3>1
    <3>3. PICK a, b \in Elem : a = u.mine[ElementOf(move, n)] /\ b = move[ElementOf(move, n)]
      BY <2>3, <3>2, ElementFound DEF MoveTable
    <3>4. t[n] = UpdatePair(u, id, move, ElementOf(move, n))
      BY <1>1, <2>3, <3>1
    <3>5. t[n].mine = [k \in DOMAIN u.mine |-> Transpose(a, b, u.mine[k])]
      BY <3>3, <3>4 DEF UpdatePair
    <3>6. DOMAIN u.mine = C /\ \A k \in C : u.mine[k] \in Elem
      BY <3>2 DEF MoveTable
    <3>7. \A c, d \in C : t[n].mine[c] = t[n].mine[d] => u.mine[c] = u.mine[d]
      BY <3>5, <3>6, Transposes
    <3> QED BY <1>2, <1>5, <2>1, <3>1, <3>7
  <2> QED BY <2>2, <2>3
<1>6. NMachines \in G
  <2>1. \A n \in 0 .. NMachines : n \in G
    BY <1>3, <1>4, <1>5, UpTo
  <2> QED BY <1>3, <2>1
<1> QED BY <1>1, <1>2, <1>6 DEF UpdateAsserts

(* The table t of update_config after round n, w being the slot table with *)
(* the pairs of the first n machines exchanged.                            *)
MovedTo(t, w, C, move, n) ==
    /\ t.usage = w
    /\ t.ok
    /\ \A c \in C : t.mine[c] = IF c[1] < n THEN move[c] ELSE c
    /\ \A j \in JobId : Active(j) => \A x \in Elem : x \in t.configs[j] <=> w[x] = j
    /\ \A j \in JobId : ~Active(j) => t.configs[j] = id_to_config[j]

LEMMA MovedStart ==
  ASSUME Tables, NEW C, OnePerMachine(C), NEW move
  PROVE  MovedTo(MoveStart(C), machine_usage, C, move, 0)
<1>1. \A c \in C : ~(c[1] < 0)
  BY NMachinesAssumption DEF OnePerMachine, Elem, Machine
<1> QED BY <1>1 DEF MovedTo, MoveStart, Tables, UsageMatchesConfig

LEMMA MovedStep ==
  ASSUME Tables, NEW id \in JobId, Active(id), NEW C, C = id_to_config[id], OnePerMachine(C),
         NEW move \in [C -> Elem], Apart(C, move),
         NEW n \in 1 .. NMachines, NEW e \in C, e[1] = n - 1, NEW t \in MoveTable(C),
         MovedTo(t, t.usage, C, move, n - 1), Exchanged(machine_usage, t.usage, C, move, n - 1)
  PROVE  MovedTo(UpdatePair(t, id, move, e), SwapAt(t.usage, e, move[e]), C, move, n)
<1>0. /\ machine_usage \in [Elem -> JobId \cup {Empty}]
      /\ \A x \in Elem, j \in JobId : machine_usage[x] = j <=> Active(j) /\ x \in id_to_config[j]
  BY DEF Tables, UsageMatchesConfig
<1>1. \A c \in C : c \in Elem /\ c[1] \in Int /\ move[c] \in Elem
  BY NMachinesAssumption DEF OnePerMachine, Elem, Machine
<1>2. PICK b \in Elem : b = move[e]
  BY <1>1
<1>3. PICK w : w = SwapAt(t.usage, e, b)
  OBVIOUS
<1>4. PICK u : u = UpdatePair(t, id, move, e)
  OBVIOUS
<1>5. t.mine[e] = e /\ e \in Elem
  BY <1>1 DEF MovedTo
<1>6. /\ u.usage = w
      /\ u.ok = (t.ok /\ (t.usage[b] # Empty => b \in t.configs[t.usage[b]]))
      /\ u.mine = [k \in C |-> Transpose(e, b, t.mine[k])]
      /\ \A j \in JobId : u.configs[j] =
            IF j \in {id, t.usage[b]} THEN {Transpose(e, b, c) : c \in t.configs[j]}
            ELSE t.configs[j]
  <2>1. DOMAIN t.mine = C
    BY DEF MoveTable
  <2> QED BY <1>2, <1>3, <1>4, <1>5, <2>1 DEF UpdatePair
<1>7. t.usage \in [Elem -> JobId \cup {Empty}] /\ \A x \in Elem : w[x] = t.usage[Transpose(e, b, x)]
  BY <1>3 DEF MoveTable, SwapAt
<1>8. t.usage[e] = id
  <2>1. \A c \in C : c[1] < n - 1 => e # c /\ e # move[c]
    BY <1>1 DEF Apart
  <2>2. t.usage[e] = machine_usage[e]
    BY <1>5, <2>1 DEF Exchanged
  <2> QED BY <1>0, <1>5, <2>2
<1>9. t.usage[b] = machine_usage[b]
  <2>1. \A c \in C : c[1] < n - 1 => b # c /\ b # move[c]
    BY <1>1, <1>2 DEF Apart
  <2> QED BY <2>1 DEF Exchanged
<1>10. t.usage[b] # Empty => t.usage[b] \in JobId /\ Active(t.usage[b])
  BY <1>0, <1>9
<1>11. u.ok
  <2>1. t.usage[b] # Empty => b \in t.configs[t.usage[b]]
    BY <1>10 DEF MovedTo
  <2>2. t.ok
    BY DEF MovedTo
  <2> QED BY <1>6, <2>1, <2>2
<1>12. ASSUME NEW c \in C PROVE u.mine[c] = IF c[1] < n THEN move[c] ELSE c
  <2>1. t.mine[c] = IF c[1] < n - 1 THEN move[c] ELSE c
    BY DEF MovedTo
  <2>2. u.mine[c] = Transpose(e, b, t.mine[c])
    BY <1>6
  <2>3. CASE c = e
    BY <1>1, <1>2, <1>5, <2>2, <2>3 DEF Transpose
  <2>4. CASE c # e
    <3>1. c[1] < n - 1 <=> c[1] < n
      BY <1>1, <2>4 DEF OnePerMachine
    <3>2. move[c] # e /\ move[c] # b /\ c # b
      BY <1>2, <2>4 DEF Apart
    <3> QED BY <2>1, <2>2, <2>4, <3>1, <3>2 DEF Transpose
  <2> QED BY <2>3, <2>4
<1>13. ASSUME NEW j \in JobId, ~Active(j) PROVE u.configs[j] = id_to_config[j]
  <2>1. j # id /\ j # t.usage[b]
    BY <1>10, <1>13 DEF Empty, JobId
  <2>2. u.configs[j] = t.configs[j]
    BY <1>6, <2>1
  <2> QED BY <1>13, <2>2 DEF MovedTo
<1>14. ASSUME NEW j \in JobId, Active(j), NEW x \in Elem PROVE x \in u.configs[j] <=> w[x] = j
  <2>1. \A y \in Elem : y \in t.configs[j] <=> t.usage[y] = j
    BY <1>14 DEF MovedTo
  <2>2. t.configs[j] \subseteq Elem
    BY DEF MoveTable
  <2>3. Transpose(e, b, x) \in Elem /\ Transpose(e, b, Transpose(e, b, x)) = x
    BY <1>5, Transposes
  <2>4. CASE j \in {id, t.usage[b]}
    <3>1. u.configs[j] = {Transpose(e, b, c) : c \in t.configs[j]}
      BY <1>6, <2>4
    <3>2. x \in u.configs[j] <=> Transpose(e, b, x) \in t.configs[j]
      <4>1. ASSUME NEW c \in t.configs[j], x = Transpose(e, b, c) PROVE Transpose(e, b, x) = c
        BY <1>5, <2>2, <4>1, Transposes
      <4> QED BY <2>3, <3>1, <4>1
    <3> QED BY <1>7, <2>1, <2>3, <3>2
  <2>5. CASE j \notin {id, t.usage[b]}
    <3>1. u.configs[j] = t.configs[j]
      BY <1>6, <2>5
    <3>2. w[x] = j <=> t.usage[x] = j
      BY <1>7, <1>8, <2>5 DEF Transpose
    <3> QED BY <2>1, <3>1, <3>2
  <2> QED BY <2>4, <2>5
<1>15. MovedTo(u, w, C, move, n)
  BY <1>6, <1>11, <1>12, <1>13, <1>14 DEF MovedTo
<1> QED BY <1>2, <1>3, <1>4, <1>15

(* The two facts about the loop of swaps, for the slot table.              *)
LEMMA UsageSwaps ==
  ASSUME NEW C, OnePerMachine(C), NEW move \in [C -> Elem],
         machine_usage \in [Elem -> JobId \cup {Empty}]
  PROVE  /\ IsSwapLoop(SwapPairs(machine_usage, move), machine_usage, move)
         /\ Apart(C, move) =>
                SwapPairs(machine_usage, move)[NMachines] = [x \in Elem |-> machine_usage[Partner(C, move)[x]]]
<1>1. PICK V, f : V = JobId \cup {Empty} /\ f = machine_usage
  OBVIOUS
<1>2. f \in [Elem -> V]
  BY <1>1
<1>3. IsSwapLoop(SwapPairs(f, move), f, move)
  BY <1>2, SwapRounds
<1>4. ASSUME Apart(C, move)
      PROVE  SwapPairs(f, move)[NMachines] = [x \in Elem |-> f[Partner(C, move)[x]]]
  BY <1>2, <1>4, SwapsArePartners
<1> QED BY <1>1, <1>3, <1>4

(* What update_config leaves in the tables: the slots of the job and of    *)
(* whoever held the destinations have changed hands in both tables.        *)
LEMMA UpdateResult ==
  ASSUME Tables, NEW id \in JobId, Active(id), NEW C, C = id_to_config[id], OnePerMachine(C),
         NEW move \in [C -> Elem], Apart(C, move)
  PROVE  LET t == update_config(id, move)
         IN /\ t \in MoveTable(C)
            /\ t.usage = [x \in Elem |-> machine_usage[Partner(C, move)[x]]]
            /\ \A j \in JobId : Active(j) => t.configs[j] = {x \in Elem : t.usage[x] = j}
            /\ \A j \in JobId : ~Active(j) => t.configs[j] = id_to_config[j]
            /\ UpdateAsserts(t, move)
<1>0. machine_usage \in [Elem -> JobId \cup {Empty}] /\ id_to_config \in [JobId -> SUBSET Elem]
  BY DEF Tables
<1>1. PICK t \in [0 .. NMachines -> MoveTable(C)] :
            /\ t[0] = MoveStart(C)
            /\ \A n \in 1 .. NMachines :
                    t[n] = IF Idle(move, n) THEN t[n - 1]
                           ELSE UpdatePair(t[n - 1], id, move, ElementOf(move, n))
            /\ update_config(id, move) = t[NMachines]
  BY <1>0, UpdateRounds
<1>2. PICK w : w = SwapPairs(machine_usage, move)
  OBVIOUS
<1>3. IsSwapLoop(w, machine_usage, move)
  BY <1>0, <1>2, UsageSwaps
<1>4. \A n \in 0 .. NMachines : Exchanged(machine_usage, w[n], C, move, n)
  <2> HIDE DEF Exchanged
  <2>1. \A n \in 0 .. NMachines : Exchanged(machine_usage, SwapPairs(machine_usage, move)[n], C, move, n)
    BY <1>0, SwapsExchange
  <2> QED BY <1>2, <2>1
<1>5. NMachines \in Nat
  BY NMachinesAssumption
<1>6. \A c \in C : c \in Elem /\ c[1] \in Int /\ c[1] < NMachines
  BY <1>5 DEF OnePerMachine, Elem, Machine
<1>7. PICK G : G = {n \in 0 .. NMachines : MovedTo(t[n], w[n], C, move, n)}
  OBVIOUS
<1>8. 0 \in G
  BY <1>1, <1>3, <1>5, <1>7, MovedStart DEF IsSwapLoop
<1>9. ASSUME NEW n \in 1 .. NMachines, n - 1 \in G PROVE n \in G
  <2>1. n - 1 \in 0 .. NMachines /\ n \in 0 .. NMachines
    BY <1>5
  <2>2. MovedTo(t[n - 1], w[n - 1], C, move, n - 1)
    BY <1>7, <1>9
  <2>3. PICK u \in MoveTable(C) : u = t[n - 1]
    BY <2>1
  <2>4. u.usage = w[n - 1]
    BY <2>2, <2>3 DEF MovedTo
  <2>5. CASE Idle(move, n)
    <3>1. t[n] = u /\ w[n] = w[n - 1]
      BY <1>1, <1>3, <2>3, <2>5 DEF IsSwapLoop
    <3>2. \A c \in C : c[1] < n - 1 <=> c[1] < n
      BY <1>6, <2>5 DEF Idle
    <3>3. MovedTo(u, w[n], C, move, n)
      BY <2>2, <2>3, <3>1, <3>2 DEF MovedTo
    <3> QED BY <1>7, <2>1, <3>1, <3>3
  <2>6. CASE ~Idle(move, n)
    <3>1. PICK e \in C : e = ElementOf(move, n) /\ e[1] = n - 1
      BY <2>6, ElementFound
    <3>2. t[n] = UpdatePair(u, id, move, e) /\ w[n] = SwapAt(u.usage, e, move[e])
      BY <1>1, <1>3, <2>3, <2>4, <2>6, <3>1 DEF IsSwapLoop
    <3>3. MovedTo(u, u.usage, C, move, n - 1) /\ Exchanged(machine_usage, u.usage, C, move, n - 1)
      BY <1>4, <2>1, <2>2, <2>3, <2>4
    <3>4. MovedTo(UpdatePair(u, id, move, e), SwapAt(u.usage, e, move[e]), C, move, n)
      BY <3>1, <3>3, MovedStep
    <3> QED BY <1>7, <2>1, <3>2, <3>4
  <2> QED BY <2>5, <2>6
<1>10. MovedTo(t[NMachines], w[NMachines], C, move, NMachines)
  <2>1. \A n \in 0 .. NMachines : n \in G
    BY <1>5, <1>8, <1>9, UpTo
  <2> QED BY <1>5, <1>7, <2>1
<1>11. PICK u \in MoveTable(C) : u = t[NMachines]
  BY <1>5
<1>12. w[NMachines] = [x \in Elem |-> machine_usage[Partner(C, move)[x]]]
  BY <1>0, <1>2, UsageSwaps
<1>13. u.usage = w[NMachines]
  BY <1>10, <1>11 DEF MovedTo
<1>14. ASSUME NEW j \in JobId, Active(j) PROVE u.configs[j] = {x \in Elem : u.usage[x] = j}
  <2>1. u.configs[j] \subseteq Elem
    BY DEF MoveTable
  <2>2. \A x \in Elem : x \in u.configs[j] <=> u.usage[x] = j
    BY <1>10, <1>11, <1>13, <1>14 DEF MovedTo
  <2> QED BY <2>1, <2>2
<1>15. \A j \in JobId : ~Active(j) => u.configs[j] = id_to_config[j]
  BY <1>10, <1>11 DEF MovedTo
<1>16. UpdateAsserts(u, move)
  <2>1. u.ok /\ \A c \in C : u.mine[c] = move[c]
    BY <1>6, <1>10, <1>11 DEF MovedTo
  <2>2. u.mine \in [C -> Elem]
    BY DEF MoveTable
  <2> QED BY <2>1, <2>2 DEF UpdateAsserts
<1> QED BY <1>1, <1>11, <1>12, <1>13, <1>14, <1>15, <1>16

-------------------------------------------------------------------------------
(* A sorted vector of machines names each of them once.                    *)
Lists(s, S) ==
    /\ s \in [1 .. Cardinality(S) -> S]
    /\ \A i, j \in 1 .. Cardinality(S) : s[i] = s[j] => i = j
    /\ \A m \in S : \E i \in 1 .. Cardinality(S) : s[i] = m

LEMMA SortedMachines ==
  ASSUME NEW S \in SUBSET Machine, NEW reverse, NEW s \in sort_machines_by_membw_util(S, reverse)
  PROVE  Lists(s, S)
<1>1. s \in SetToSeqs(S)
  BY Zenon DEF sort_machines_by_membw_util
<1>2. PICK D : D = 1 .. Cardinality(S)
  OBVIOUS
<1>3. s \in [D -> S] /\ \A i, j \in D : s[i] = s[j] => i = j
  BY <1>1, <1>2 DEF SetToSeqs
<1>4. IsFiniteSet(S) /\ Cardinality(S) \in Nat
  BY MachinesFinite
<1>5. Cardinality(D) = Cardinality(S)
  BY <1>2, <1>4, FS_Interval
<1>6. s \in Injection(D, S)
  BY <1>3 DEF Injection, IsInjective
<1>7. s \in Surjection(D, S)
  BY <1>4, <1>5, <1>6, FS_Injection
<1>8. \A m \in S : \E i \in D : s[i] = m
  BY <1>7 DEF Surjection
<1> QED BY <1>2, <1>3, <1>8 DEF Lists

(* What generate_new_config makes of a choice of candidates: elements on   *)
(* machines that are not overloaded stay, the others go to machines of     *)
(* their own.                                                              *)
PlanFrom(C, marked, move) ==
    /\ move \in [C -> Elem]
    /\ \A e \in C : e[1] \notin marked => move[e] = e
    /\ \A d, e \in C : d # e /\ d[1] \in marked /\ e[1] \in marked => move[d][1] # move[e][1]

LEMMA PlansArePlans ==
  ASSUME NEW C, OnePerMachine(C), NEW marked \in SUBSET Machine,
         NEW cand \in find_swap_candidates(marked), cand # <<>>,
         NEW move \in generate_new_config(C, marked, cand)
  PROVE  PlanFrom(C, marked, move)
<1>1. PICK n : n = Cardinality(marked)
  OBVIOUS
<1>2. PICK k : k = Cardinality(Machine)
  OBVIOUS
<1>3. n \in Nat /\ k \in Nat /\ n <= k
  BY <1>1, <1>2, MachinesFinite, FS_Subset
<1>4. PICK all \in sort_machines_by_membw_util(Machine, FALSE) : cand = SubSeq(all, 1, n)
  BY <1>1 DEF find_swap_candidates
<1>5. /\ all \in [1 .. k -> Machine]
      /\ \A i, j \in 1 .. k : all[i] = all[j] => i = j
  <2>1. Machine \in SUBSET Machine
    OBVIOUS
  <2>2. Lists(all, Machine)
    BY <1>4, <2>1, SortedMachines
  <2> QED BY <1>2, <2>2 DEF Lists
<1>6. \A i \in 1 .. n : cand[i] = all[i]
  <2>1. \A i \in 1 .. n : all[i] \in Machine
    BY <1>3, <1>5
  <2>2. \A i \in 1 .. n - 1 + 1 : SubSeq(all, 1, n)[i] = all[1 + i - 1]
    BY <1>3, <2>1, SubSeqProperties
  <2>3. ASSUME NEW i \in 1 .. n PROVE cand[i] = all[i]
    <3>1. i \in 1 .. n - 1 + 1 /\ 1 + i - 1 = i
      BY <1>3
    <3>2. SubSeq(all, 1, n)[i] = all[1 + i - 1]
      BY <2>2, <3>1
    <3> QED BY <1>4, <3>1, <3>2
  <2> QED BY <2>3
<1>7. \A i, j \in 1 .. n : cand[i] \in Machine /\ (cand[i] = cand[j] => i = j)
  BY <1>3, <1>5, <1>6
<1>8. PICK s \in sort_machines_by_membw_util(marked, TRUE) :
        move = [e \in C |-> IF e[1] \in marked
                            THEN SwapSlot(e, cand[CHOOSE i \in DOMAIN s : s[i] = e[1]])
                            ELSE e]
  BY DEF generate_new_config
<1>9. DOMAIN s = 1 .. n /\ \A m \in marked : \E i \in 1 .. n : s[i] = m
  <2>1. Lists(s, marked)
    BY SortedMachines
  <2> QED BY <1>1, <2>1 DEF Lists
<1>10. PICK at : at = [m \in marked |-> CHOOSE i \in 1 .. n : s[i] = m]
  OBVIOUS
<1>11. \A m \in marked : at[m] \in 1 .. n /\ s[at[m]] = m
  BY <1>9, <1>10
<1>12. \A e \in C : move[e] = IF e[1] \in marked THEN SwapSlot(e, cand[at[e[1]]]) ELSE e
  <2>1. \A e \in C : e[1] \in marked => at[e[1]] = CHOOSE i \in DOMAIN s : s[i] = e[1]
    BY <1>9, <1>10
  <2>2. \A e \in C : move[e] = IF e[1] \in marked
                               THEN SwapSlot(e, cand[CHOOSE i \in DOMAIN s : s[i] = e[1]])
                               ELSE e
    BY <1>8
  <2> QED BY <2>1, <2>2
<1>13. \A e \in C, m \in Machine : SwapSlot(e, m) \in Elem /\ SwapSlot(e, m)[1] = m
  BY DEF SwapSlot, MaxSlot, MinSlot, Elem, Slot
<1>14. \A e \in C : move[e] \in Elem
  BY <1>7, <1>11, <1>12, <1>13 DEF OnePerMachine
<1>15. \A d, e \in C : d # e /\ d[1] \in marked /\ e[1] \in marked => move[d][1] # move[e][1]
  <2> SUFFICES ASSUME NEW d \in C, NEW e \in C, d[1] \in marked, e[1] \in marked,
                      move[d][1] = move[e][1]
               PROVE  d = e
    OBVIOUS
  <2>1. cand[at[d[1]]] = cand[at[e[1]]]
    BY <1>7, <1>11, <1>12, <1>13
  <2>2. at[d[1]] = at[e[1]]
    BY <1>7, <1>11, <2>1
  <2>3. d[1] = e[1]
    BY <1>11, <2>2
  <2> QED BY <2>3 DEF OnePerMachine
<1>16. move \in [C -> Elem]
  BY <1>8, <1>14
<1> QED BY <1>12, <1>15, <1>16 DEF PlanFrom

-------------------------------------------------------------------------------
(* The two slots of a machine.                                             *)
LEMMA SlotPairs ==
  ASSUME NEW e \in Elem
  PROVE  /\ Opposing(e) \in Elem /\ Opposing(e)[1] = e[1] /\ Opposing(e) # e
         /\ Opposing(Opposing(e)) = e
         /\ e[1] \in Machine
         /\ \A x \in Elem : x[1] = e[1] => x = e \/ x = Opposing(e)
         /\ \/ e = <<e[1], 0>> /\ Opposing(e) = <<e[1], 1>>
            \/ e = <<e[1], 1>> /\ Opposing(e) = <<e[1], 0>>
<1>1. \A s \in Slot : s = 0 \/ s = 1
  BY DEF Slot
<1>2. e = <<e[1], e[2]>> /\ e[1] \in Machine /\ e[2] \in Slot
  BY DEF Elem
<1>3. (0 + 1) % 2 = 1 /\ (1 + 1) % 2 = 0 /\ 0 \in Slot /\ 1 \in Slot
  BY DEF Slot
<1>4. \A x \in Elem : x = <<x[1], x[2]>> /\ x[2] \in Slot
  BY DEF Elem
<1>5. \/ e = <<e[1], 0>> /\ Opposing(e) = <<e[1], 1>>
      \/ e = <<e[1], 1>> /\ Opposing(e) = <<e[1], 0>>
  BY <1>1, <1>2, <1>3 DEF Opposing
<1>6. <<e[1], 0>> \in Elem /\ <<e[1], 1>> \in Elem
  BY <1>2, <1>3 DEF Elem
<1>7. Opposing(Opposing(e)) = e
  <2>1. CASE e = <<e[1], 0>> /\ Opposing(e) = <<e[1], 1>>
    BY <1>3, <2>1 DEF Opposing
  <2>2. CASE e = <<e[1], 1>> /\ Opposing(e) = <<e[1], 0>>
    BY <1>3, <2>2 DEF Opposing
  <2> QED BY <1>5, <2>1, <2>2
<1> QED BY <1>1, <1>2, <1>4, <1>5, <1>6, <1>7

LEMMA NodeSum ==
  ASSUME NEW u \in [Elem -> 0 .. 10], NEW e \in Elem
  PROVE  /\ u[e] \in 0 .. 10 /\ u[Opposing(e)] \in 0 .. 10
         /\ membw_util_of_node(u, e[1]) = u[e] + u[Opposing(e)]
BY SlotPairs DEF membw_util_of_node

(* What the assertions of generate_new_config add: the destinations are    *)
(* machines with room to spare, so none of them is overloaded.             *)
Planned(C, move) ==
    /\ PlanFrom(C, check_membw(C), move)
    /\ \A e \in C : e[1] \in check_membw(C) => PairAsserts(e, move[e])

LEMMA MarkedMachines ==
  ASSUME NEW C, OnePerMachine(C)
  PROVE  /\ check_membw(C) \in SUBSET Machine
         /\ \A e \in C : e[1] \in check_membw(C) <=> membw_util_of_node(membw_util, e[1]) > PER_MACHINE_TH
         /\ \A m \in check_membw(C) : \E e \in C : e[1] = m
BY DEF check_membw, OnePerMachine, Elem

LEMMA DestinationsFine ==
  ASSUME membw_util \in [Elem -> 0 .. 10], NEW C, OnePerMachine(C), NEW move, Planned(C, move),
         NEW e \in C, e[1] \in check_membw(C)
  PROVE  /\ membw_util_of_node(membw_util, move[e][1]) < PER_MACHINE_TH
         /\ move[e][1] \notin check_membw(C)
<1>1. e \in Elem /\ move[e] \in Elem
  BY DEF OnePerMachine, Planned, PlanFrom
<1>2. PICK d \in Elem : d = move[e]
  BY <1>1
<1>3. membw_util_of_node(membw_util, e[1]) > PER_MACHINE_TH
  BY MarkedMachines
<1>4. membw_util_of_node(membw_util, e[1]) = membw_util[e] + membw_util[Opposing(e)]
  BY <1>1, NodeSum
<1>5. membw_util_of_node(membw_util, d[1]) = membw_util[d] + membw_util[Opposing(d)]
  BY NodeSum
<1>6. /\ membw_util[Opposing(e)] + membw_util[d] < PER_MACHINE_TH
      /\ membw_util[Opposing(d)] + membw_util[e] < PER_MACHINE_TH
  BY <1>2 DEF Planned, PairAsserts
<1>7. /\ membw_util[e] \in 0 .. 10 /\ membw_util[Opposing(e)] \in 0 .. 10
      /\ membw_util[d] \in 0 .. 10 /\ membw_util[Opposing(d)] \in 0 .. 10
  BY <1>1, NodeSum
<1>8. membw_util_of_node(membw_util, d[1]) < PER_MACHINE_TH
  BY <1>3, <1>4, <1>5, <1>6, <1>7 DEF PER_MACHINE_TH
<1>9. d[1] \notin check_membw(C)
  BY <1>5, <1>7, <1>8 DEF check_membw, PER_MACHINE_TH
<1> QED BY <1>2, <1>8, <1>9

(* Then no slot is in two pairs, if no two elements have one destination.  *)
LEMMA PlannedIsApart ==
  ASSUME membw_util \in [Elem -> 0 .. 10], NEW C, OnePerMachine(C), NEW move, Planned(C, move),
         \A c, d \in C : move[c] = move[d] => c = d
  PROVE  Apart(C, move)
<1> SUFFICES ASSUME NEW c \in C, NEW d \in C, c # d PROVE move[c] # d
  BY DEF Apart
<1>1. CASE c[1] \notin check_membw(C)
  BY <1>1 DEF Planned, PlanFrom
<1>2. CASE c[1] \in check_membw(C)
  <2> SUFFICES ASSUME move[c] = d PROVE FALSE
    OBVIOUS
  <2>1. d[1] \notin check_membw(C)
    BY <1>2, DestinationsFine
  <2>2. move[d] = d
    BY <2>1 DEF Planned, PlanFrom
  <2> QED BY <2>2
<1> QED BY <1>1, <1>2

LEMMA OverloadedIsApart ==
  ASSUME membw_util \in [Elem -> 0 .. 10], NEW C, OnePerMachine(C), NEW move, Planned(C, move),
         \A e \in C : e[1] \in check_membw(C)
  PROVE  Apart(C, move) /\ MigrateAsserts(move)
<1>1. \A c, d \in C : move[c] = move[d] => c = d
  BY DEF Planned, PlanFrom
<1>2. Apart(C, move)
  BY <1>1, PlannedIsApart
<1>3. \A e \in C : e[1] # move[e][1]
  BY DestinationsFine
<1>4. DOMAIN move = C
  BY DEF Planned, PlanFrom
<1> QED BY <1>2, <1>3, <1>4 DEF MigrateAsserts, Migrations

(* The load of the machines while the values are moved: an overloaded      *)
(* machine is below the threshold from its round on, and no other machine  *)
(* ever gets worse than it was, except below the threshold.                *)
LEMMA NodesAfter ==
  ASSUME membw_util \in [Elem -> 0 .. 10], NEW C, OnePerMachine(C), NEW move, Planned(C, move),
         NEW n \in Nat, NEW g \in [Elem -> 0 .. 10], Exchanged(membw_util, g, C, move, n)
  PROVE  \A m \in Machine :
            /\ m \in check_membw(C) /\ m < n => membw_util_of_node(g, m) < PER_MACHINE_TH
            /\ m \notin check_membw(C) => \/ membw_util_of_node(g, m) < PER_MACHINE_TH
                                          \/ membw_util_of_node(g, m) = membw_util_of_node(membw_util, m)
<1> DEFINE marked == check_membw(C)
<1>1. \A c \in C : c \in Elem /\ c[1] \in Int /\ move[c] \in Elem
  BY NMachinesAssumption DEF OnePerMachine, Elem, Machine, Planned, PlanFrom
<1>2. \A c \in C : c[1] \notin marked => move[c] = c
  BY DEF Planned, PlanFrom
<1>3. \A c \in C : c[1] \in marked => move[c][1] \notin marked
  BY DestinationsFine
<1> HIDE DEF marked
<1>4. ASSUME NEW z \in Elem, \A c \in C : c[1] \in marked /\ c[1] < n => z # c /\ z # move[c]
      PROVE  g[z] = membw_util[z]
  <2>1. CASE \E c \in C : c[1] < n /\ (z = c \/ z = move[c])
    <3>1. PICK c \in C : c[1] < n /\ (z = c \/ z = move[c])
      BY <2>1
    <3>2. move[c] = c /\ z = c
      BY <1>2, <1>4, <3>1
    <3> QED BY <3>1, <3>2 DEF Exchanged
  <2>2. CASE \A c \in C : c[1] < n => z # c /\ z # move[c]
    BY <2>2 DEF Exchanged
  <2> QED BY <2>1, <2>2
<1>5. ASSUME NEW m \in Machine, m \in marked, m < n PROVE membw_util_of_node(g, m) < PER_MACHINE_TH
  <2>1. PICK e \in C : e[1] = m
    BY <1>5, MarkedMachines DEF marked
  <2>2. PICK z \in Elem : z = Opposing(e)
    BY <1>1, SlotPairs
  <2>3. z # e /\ z[1] = m
    BY <1>1, <2>1, <2>2, SlotPairs
  <2>4. \A c \in C : z # c
    BY <2>1, <2>3 DEF OnePerMachine
  <2>5. \A c \in C : c[1] \in marked => z # move[c]
    BY <1>3, <1>5, <2>3
  <2>6. g[z] = membw_util[z]
    BY <1>4, <2>4, <2>5
  <2>7. g[e] = membw_util[move[e]]
    BY <1>5, <2>1 DEF Exchanged
  <2>8. membw_util_of_node(g, m) = g[e] + g[z]
    BY <1>1, <2>1, <2>2, NodeSum
  <2>9. membw_util[z] + membw_util[move[e]] < PER_MACHINE_TH
    BY <1>5, <2>1, <2>2 DEF Planned, PairAsserts, marked
  <2>10. membw_util[z] \in Int /\ membw_util[move[e]] \in Int
    BY <1>1
  <2> QED BY <2>6, <2>7, <2>8, <2>9, <2>10 DEF PER_MACHINE_TH
<1>6. ASSUME NEW m \in Machine, m \notin marked
      PROVE  \/ membw_util_of_node(g, m) < PER_MACHINE_TH
             \/ membw_util_of_node(g, m) = membw_util_of_node(membw_util, m)
  <2>1. CASE \E e \in C : e[1] \in marked /\ e[1] < n /\ move[e][1] = m
    <3>1. PICK e \in C : e[1] \in marked /\ e[1] < n /\ move[e][1] = m
      BY <2>1
    <3>2. PICK d \in Elem : d = move[e]
      BY <1>1
    <3>3. PICK z \in Elem : z = Opposing(d)
      BY SlotPairs
    <3>4. z # d /\ z[1] = m
      BY <3>1, <3>2, <3>3, SlotPairs
    <3>5. \A c \in C : c[1] \in marked => z # c /\ z # move[c]
      <4>1. \A c \in C : c[1] \in marked /\ c # e => move[c][1] # m
        BY <3>1 DEF Planned, PlanFrom, marked
      <4> QED BY <1>6, <3>2, <3>4, <4>1
    <3>6. g[z] = membw_util[z]
      BY <1>4, <3>5
    <3>7. g[d] = membw_util[e]
      BY <3>1, <3>2 DEF Exchanged
    <3>8. membw_util_of_node(g, m) = g[d] + g[z]
      BY <3>1, <3>2, <3>3, NodeSum
    <3>9. membw_util[z] + membw_util[e] < PER_MACHINE_TH
      BY <3>1, <3>2, <3>3 DEF Planned, PairAsserts, marked
    <3>10. membw_util[z] \in Int /\ membw_util[e] \in Int
      BY <1>1
    <3> QED BY <3>6, <3>7, <3>8, <3>9, <3>10 DEF PER_MACHINE_TH
  <2>2. CASE \A e \in C : e[1] \in marked /\ e[1] < n => move[e][1] # m
    <3>1. <<m, 0>> \in Elem /\ <<m, 1>> \in Elem
      BY DEF Elem, Slot
    <3>2. \A z \in Elem : z[1] = m => g[z] = membw_util[z]
      BY <1>4, <1>6, <2>2
    <3>3. g[<<m, 0>>] = membw_util[<<m, 0>>] /\ g[<<m, 1>>] = membw_util[<<m, 1>>]
      BY <3>1, <3>2
    <3> QED BY <3>3 DEF membw_util_of_node
  <2> QED BY <2>1, <2>2
<1> QED BY <1>5, <1>6 DEF marked

(* What update_membw_util leaves behind: no machine of the job is          *)
(* overloaded, no other one more than before; its assertions fail only for *)
(* a machine at exactly the threshold.                                     *)
LEMMA MembwResult ==
  ASSUME membw_util \in [Elem -> 0 .. 10], NEW C, OnePerMachine(C), NEW move, Planned(C, move),
         Apart(C, move)
  PROVE  LET r == update_membw_util(move)
         IN /\ r.util = [x \in Elem |-> membw_util[Partner(C, move)[x]]]
            /\ \A m \in Machine : membw_util_of_node(r.util, m) > PER_MACHINE_TH =>
                    /\ \A e \in C : e[1] # m
                    /\ membw_util_of_node(membw_util, m) > PER_MACHINE_TH
            /\ ~r.ok => \E e \in C : membw_util_of_node(membw_util, e[1]) = PER_MACHINE_TH
<1>1. PICK t : t = SwapPairs(membw_util, move)
  OBVIOUS
<1>2. NMachines \in Nat
  BY NMachinesAssumption
<1>3. move \in [C -> Elem] /\ DOMAIN move = C
  BY DEF Planned, PlanFrom
<1>4. PICK V, f : V = 0 .. 10 /\ f = membw_util /\ f \in [Elem -> V]
  OBVIOUS
<1>5. t \in [0 .. NMachines -> [Elem -> 0 .. 10]]
  <2>1. SwapPairs(f, move) \in [0 .. NMachines -> [Elem -> V]]
    BY <1>3, <1>4, SwapRounds
  <2> QED BY <1>1, <1>4, <2>1
<1>6. \A n \in 0 .. NMachines : Exchanged(membw_util, t[n], C, move, n)
  <2>1. \A n \in 0 .. NMachines : Exchanged(f, SwapPairs(f, move)[n], C, move, n)
    BY <1>3, <1>4, SwapsExchange
  <2> QED BY <1>1, <1>4, <2>1
<1>7. t[NMachines] = [x \in Elem |-> membw_util[Partner(C, move)[x]]]
  <2>1. SwapPairs(f, move)[NMachines] = [x \in Elem |-> f[Partner(C, move)[x]]]
    BY <1>3, <1>4, SwapsArePartners
  <2> QED BY <1>1, <1>4, <2>1
<1>8. \A n \in 0 .. NMachines : \A m \in Machine :
        /\ m \in check_membw(C) /\ m < n => membw_util_of_node(t[n], m) < PER_MACHINE_TH
        /\ m \notin check_membw(C) =>
                \/ membw_util_of_node(t[n], m) < PER_MACHINE_TH
                \/ membw_util_of_node(t[n], m) = membw_util_of_node(membw_util, m)
  <2> SUFFICES ASSUME NEW n \in 0 .. NMachines
               PROVE  \A m \in Machine :
                        /\ m \in check_membw(C) /\ m < n => membw_util_of_node(t[n], m) < PER_MACHINE_TH
                        /\ m \notin check_membw(C) =>
                                \/ membw_util_of_node(t[n], m) < PER_MACHINE_TH
                                \/ membw_util_of_node(t[n], m) = membw_util_of_node(membw_util, m)
    OBVIOUS
  <2>1. n \in Nat /\ t[n] \in [Elem -> 0 .. 10] /\ Exchanged(membw_util, t[n], C, move, n)
    BY <1>2, <1>5, <1>6
  <2> QED BY <2>1, NodesAfter
<1>9. \A e \in C : e[1] \in Machine /\ e[1] \in Nat /\ e[1] + 1 \in 0 .. NMachines /\ e[1] < e[1] + 1
  BY <1>2 DEF OnePerMachine, Elem, Machine
<1>10. \A m \in Machine : m < NMachines /\ m \in Int
  BY <1>2 DEF Machine
<1>11. \A u \in [Elem -> 0 .. 10], m \in Machine : membw_util_of_node(u, m) \in Int
  BY DEF membw_util_of_node, Elem, Slot
<1>12. ASSUME NEW m \in Machine, membw_util_of_node(t[NMachines], m) > PER_MACHINE_TH
       PROVE  /\ \A e \in C : e[1] # m
              /\ membw_util_of_node(membw_util, m) > PER_MACHINE_TH
  <2>1. NMachines \in 0 .. NMachines /\ t[NMachines] \in [Elem -> 0 .. 10]
    BY <1>2, <1>5
  <2>2. membw_util_of_node(t[NMachines], m) \in Int
    BY <1>11, <2>1
  <2>3. /\ m \in check_membw(C) => membw_util_of_node(t[NMachines], m) < PER_MACHINE_TH
        /\ m \notin check_membw(C) =>
                \/ membw_util_of_node(t[NMachines], m) < PER_MACHINE_TH
                \/ membw_util_of_node(t[NMachines], m) = membw_util_of_node(membw_util, m)
    BY <1>8, <1>10, <2>1
  <2>4. m \notin check_membw(C) /\ membw_util_of_node(membw_util, m) > PER_MACHINE_TH
    BY <1>12, <2>2, <2>3 DEF PER_MACHINE_TH
  <2> QED BY <2>4, MarkedMachines
<1>13. ASSUME \A e \in C : membw_util_of_node(membw_util, e[1]) # PER_MACHINE_TH, NEW e \in C
       PROVE  /\ membw_util_of_node(t[e[1] + 1], e[1]) < PER_MACHINE_TH
              /\ membw_util_of_node(t[e[1] + 1], move[e][1]) < PER_MACHINE_TH
  <2>1. CASE e[1] \in check_membw(C)
    <3>1. membw_util_of_node(t[e[1] + 1], e[1]) < PER_MACHINE_TH
      BY <1>8, <1>9, <2>1
    <3>2. PICK m \in Machine : m = move[e][1]
      BY <1>3 DEF Elem
    <3>3. m \notin check_membw(C) /\ membw_util_of_node(membw_util, m) < PER_MACHINE_TH
      BY <2>1, <3>2, DestinationsFine
    <3>4. membw_util_of_node(t[e[1] + 1], m) < PER_MACHINE_TH
      BY <1>8, <1>9, <3>3
    <3> QED BY <3>1, <3>2, <3>4
  <2>2. CASE e[1] \notin check_membw(C)
    <3>1. move[e] = e
      BY <2>2 DEF Planned, PlanFrom
    <3>2. ~(membw_util_of_node(membw_util, e[1]) > PER_MACHINE_TH)
      BY <2>2, MarkedMachines
    <3>3. membw_util_of_node(membw_util, e[1]) < PER_MACHINE_TH
      BY <1>9, <1>11, <1>13, <3>2 DEF PER_MACHINE_TH
    <3>4. membw_util_of_node(t[e[1] + 1], e[1]) < PER_MACHINE_TH
      BY <1>8, <1>9, <2>2, <3>3
    <3> QED BY <3>1, <3>4
  <2> QED BY <2>1, <2>2
<1>14. PICK r : r = update_membw_util(move)
  OBVIOUS
<1>15. /\ r.util = t[NMachines]
       /\ r.ok = \A e \in C :
                    /\ membw_util_of_node(t[e[1] + 1], e[1]) < PER_MACHINE_TH
                    /\ membw_util_of_node(t[e[1] + 1], move[e][1]) < PER_MACHINE_TH
  BY <1>1, <1>3, <1>14 DEF update_membw_util
<1> QED BY <1>7, <1>12, <1>13, <1>14, <1>15

===============================================================================
