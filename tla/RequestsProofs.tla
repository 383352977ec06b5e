---------------------------- MODULE RequestsProofs ----------------------------
(***************************************************************************)
(* The safety properties of Requests for any number of machines and of     *)
(* critical sections: results reach the critical section that asked for    *)
(* them, nobody sleeps on a queue with a message, and the exchange with    *)
(* the agents implements AtomicRequests.                                   *)
(*                                                                         *)
(* The heart of the inductive invariant is Accounting: every message under *)
(* way belongs to one place that the critical section with the mutex still *)
(* expects an answer for, and no place has two messages.  Since no two     *)
(* places of a loop are on one machine, the topic of the machine tells     *)
(* which task a result answers, although the result does not.              *)
(***************************************************************************)
EXTENDS Requests, TLAPS

(* The mutex is held from Lock to Return, and only its holder sleeps.      *)
Holder ==
    \A o \in Op :
        /\ mutex = o <=> phase[o] \in {"send", "receive"}
        /\ sleeping[o] => /\ phase[o] = "receive" /\ todo[o] # {}
                          /\ ~Skipped(o, Current(o))

(* The call of the critical section, and the tables it began with.         *)
Section(o) ==
    /\ todo[o] \subseteq Loop(call[o])
    /\ call[o].kind \in {"suspend", "resume"} => call[o].config \in OnePerMachine
    /\ jobs = IF call[o].kind = "start" THEN before[1] \cup {call[o].config} ELSE before[1]
    /\ call[o].kind = "start" =>
            call[o].config # {} /\ call[o].config \cap UNION before[1] = {}
    /\ call[o].kind = "stop" => call[o].config \in before[1]

(* The places that the critical section expects, or will expect, a result  *)
(* for.                                                                    *)
Awaiting(o) ==
    {p \in Loop(call[o]) :
        ~Skipped(o, p) /\ IF phase[o] = "send" THEN p \notin todo[o] ELSE p \in todo[o]}

Expected(op, p) == op \in Op /\ mutex = op /\ p \in Awaiting(op)

Accounting ==
    /\ \A t \in tasks : Expected(t.op, t.place) /\ t = Task(t.op, t.place)
    /\ \A r \in net : Expected(r.op, r.place)
    /\ \A m \in Machine : results[m] # <<>> =>
            Expected(results[m][1].op, results[m][1].place) /\ results[m][1].place[1] = m
    /\ \A t \in tasks, r \in net : t.place # r.place
    /\ \A r, s \in net : r.place = s.place => r = s
    /\ \A t \in tasks : results[t.place[1]] = <<>>
    /\ \A r \in net : results[r.place[1]] = <<>>

(* A place is answered: a success has been sent, or its result was taken.  *)
Answered(o, p) ==
    \/ phase[o] = "receive" /\ p \notin todo[o]
    \/ \E r \in net : r.place = p /\ r.status = "success"
    \/ results[p[1]] # <<>> /\ results[p[1]][1].status = "success"

(* What has become of the domains since the critical section began.        *)
Effect(o) ==
    LET c == call[o] IN
    /\ c.kind \in {"suspend", "resume"} =>
            \A q \in Place : \/ state[q] = before[2][q]
                             \/ q \in usage /\ state[q] = After[c.kind]
    /\ c.kind \in {"start", "stop"} /\ ~aborted =>
            /\ \A q \in Place \ c.config : state[q] = before[2][q]
            /\ \A p \in Loop(c) : Answered(o, p) =>
                    \A q \in c.config : q[1] = p[1] => state[q] = After[c.kind]

Inv ==
    /\ TypeOK
    /\ before[2] \in [Place -> {"none", "running", "suspended"}]
    /\ Holder
    /\ \A o \in Op : mutex = o => Section(o) /\ Effect(o)
    /\ Accounting
    /\ NoSleepOnMessage

-------------------------------------------------------------------------------
(* The elements of a loop are places on different machines.                *)
LEMMA LoopPlaces ==
  ASSUME TypeOK, NEW o \in Op, Section(o)
  PROVE  /\ Loop(call[o]) \subseteq Place
         /\ \A p, q \in Loop(call[o]) : p[1] = q[1] => p = q
<1>1. call[o].config \subseteq Place /\ call[o].kind \in Kinds
  BY DEF TypeOK
<1>2. CASE call[o].kind \in {"start", "stop"}
  BY <1>1, <1>2 DEF Loop, Place
<1>3. CASE call[o].kind \in {"suspend", "resume"}
  BY <1>1, <1>3 DEF Loop, Section, OnePerMachine
<1> QED BY <1>1, <1>2, <1>3 DEF Kinds

LEMMA AfterKinds ==
  /\ After["suspend"] = "suspended" /\ After["resume"] = "running"
  /\ After["start"] = "running" /\ After["stop"] = "none"
BY DEF After

LEMMA AfterType == \A k \in Kinds : After[k] \in {"none", "running", "suspended"}
BY AfterKinds DEF Kinds

(* The element a loop is at is one of those that are left.                 *)
LEMMA CurrentIsLeft == ASSUME NEW o \in Op, todo[o] # {} PROVE Current(o) \in todo[o]
BY DEF Current, First

(* A critical section that sends or receives has the mutex to itself.      *)
LEMMA HolderAlone ==
  ASSUME Inv, NEW o \in Op, phase[o] \in {"send", "receive"}
  PROVE  /\ mutex = o /\ Section(o) /\ Effect(o)
         /\ \A k \in Op : k # o => ~sleeping[k]
         /\ phase[o] = "send" => ~sleeping[o]
BY DEF Inv, Holder

(* While nobody holds the mutex, nothing is under way.                     *)
LEMMA QuietWithoutHolder ==
  ASSUME Inv, mutex = NoOp
  PROVE  tasks = {} /\ net = {} /\ \A m \in Machine : results[m] = <<>>
BY DEF Inv, Accounting, Expected, Op, NoOp

(* What a call may be for.                                                 *)
LEMMA ConfigsByKind ==
  /\ Configs("start") = SUBSET (Place \ usage)
  /\ Configs("stop") = jobs
  /\ Configs("suspend") = OnePerMachine /\ Configs("resume") = OnePerMachine
BY Zenon DEF Configs

LEMMA InitInv == Init => Inv
<1> SUFFICES ASSUME Init PROVE Inv
  OBVIOUS
<1>1. TypeOK
  <2>1. jobs \subseteq SUBSET Place
    BY DEF Init
  <2>2. state \in [Place -> {"none", "running", "suspended"}]
    BY DEF Init
  <2>3. call \in [Op -> [kind : Kinds, config : SUBSET Place]]
    BY DEF Init, NoCall, Kinds
  <2>4. results \in [Machine -> Seq(Reply)] /\ \A m \in Machine : Len(results[m]) <= 1
    BY DEF Init
  <2>5. mutex \in Op \cup {NoOp} /\ phase \in [Op -> {"idle", "send", "receive", "ended"}]
    BY DEF Init
  <2>6. /\ todo \in [Op -> SUBSET Place] /\ sleeping \in [Op -> BOOLEAN]
        /\ tasks = {} /\ net = {} /\ dead = {} /\ aborted = FALSE
    BY DEF Init
  <2> QED BY <2>1, <2>2, <2>3, <2>4, <2>5, <2>6 DEF TypeOK
<1>2. before[2] = state /\ state \in [Place -> {"none", "running", "suspended"}]
  BY DEF Init
<1>3. Holder
  BY DEF Init, Holder, Op, NoOp
<1>4. Accounting /\ NoSleepOnMessage
  BY DEF Init, Accounting, NoSleepOnMessage
<1>5. \A o \in Op : mutex # o
  BY DEF Init, Op, NoOp
<1> QED BY <1>1, <1>2, <1>3, <1>4, <1>5 DEF Inv

(* A critical section begins when nothing is under way.                    *)
LEMMA LockStep ==
  ASSUME Inv, NEW o \in Op, Lock(o)
  PROVE  Inv'
<1> USE DEF Inv
<1>0. PICK kind \in Kinds : \E config \in Configs(kind) \ {{}} :
        LET c == [kind |-> kind, config |-> config] IN
        /\ call' = [call EXCEPT ![o] = c]
        /\ todo' = [todo EXCEPT ![o] = Loop(c)]
        /\ jobs' = IF kind = "start" THEN jobs \cup {config} ELSE jobs
  BY DEF Lock
<1>1. PICK config \in Configs(kind) \ {{}} :
        /\ call' = [call EXCEPT ![o] = [kind |-> kind, config |-> config]]
        /\ todo' = [todo EXCEPT ![o] = Loop([kind |-> kind, config |-> config])]
        /\ jobs' = IF kind = "start" THEN jobs \cup {config} ELSE jobs
  BY <1>0
<1>2. /\ mutex = NoOp /\ mutex' = o /\ phase[o] = "idle"
      /\ phase' = [phase EXCEPT ![o] = "send"]
      /\ before' = <<jobs, state>>
      /\ UNCHANGED <<state, tasks, net, results, sleeping, dead, aborted>>
  BY DEF Lock
<1>3. tasks = {} /\ net = {} /\ \A m \in Machine : results[m] = <<>>
  BY <1>2, QuietWithoutHolder
<1>4. config \subseteq Place /\ config # {}
  BY <1>1, ConfigsByKind DEF OnePerMachine, usage, TypeOK, Kinds
<1>5. call'[o] = [kind |-> kind, config |-> config] /\ todo'[o] = Loop(call'[o])
  BY <1>1 DEF TypeOK
<1>6. Loop(call'[o]) \subseteq Place
  BY <1>4, <1>5 DEF Loop, Place
<1>7. TypeOK'
  BY <1>1, <1>2, <1>4, <1>5, <1>6 DEF TypeOK
<1>8. Holder'
  <2>1. \A k \in Op : ~sleeping[k] /\ phase[k] \notin {"send", "receive"}
    BY <1>2 DEF Holder, Op, NoOp
  <2>2. \A k \in Op : phase'[k] = IF k = o THEN "send" ELSE phase[k]
    BY <1>2 DEF TypeOK
  <2> QED BY <1>2, <2>1, <2>2 DEF Holder
<1>9. Section(o)'
  <2>1. todo'[o] \subseteq Loop(call'[o])
    BY <1>5
  <2>2. /\ kind \in {"suspend", "resume"} => config \in OnePerMachine
        /\ kind = "start" => config \cap UNION jobs = {}
        /\ kind = "stop" => config \in jobs
    BY ConfigsByKind DEF usage
  <2>3. before'[1] = jobs
    BY <1>2
  <2>4. call'[o].kind = kind /\ call'[o].config = config
    BY <1>5
  <2>5. jobs' = IF kind = "start" THEN before'[1] \cup {config} ELSE before'[1]
    BY <1>1, <2>3
  <2> QED BY <1>4, <2>1, <2>2, <2>3, <2>4, <2>5 DEF Section
<1>10. Effect(o)'
  <2>1. \A p \in Loop(call'[o]) : p \in todo'[o] /\ p[1] \in Machine
    BY <1>5, <1>6 DEF Place
  <2>2. \A p \in Loop(call'[o]) : ~Answered(o, p)'
    BY <2>1, <1>2, <1>3 DEF Answered, TypeOK
  <2> QED BY <2>2, <1>2 DEF Effect
<1>11. Accounting' /\ NoSleepOnMessage'
  <2>1. \A k \in Op : ~sleeping[k]
    BY <1>2 DEF Holder, Op, NoOp
  <2> QED BY <2>1, <1>2, <1>3 DEF Accounting, NoSleepOnMessage
<1>12. before'[2] = state
  BY <1>2
<1> QED BY <1>2, <1>7, <1>8, <1>9, <1>10, <1>11, <1>12 DEF TypeOK

-------------------------------------------------------------------------------
(* Steps that leave the critical sections and the tables alone.            *)
LEMMA CtlFrame ==
  ASSUME UNCHANGED ctl
  PROVE  /\ \A o \in Op : Section(o)' <=> Section(o)
         /\ \A op, p : (Expected(op, p)' <=> Expected(op, p)) /\ Task(op, p)' = Task(op, p)
         /\ \A o \in Op : Current(o)' = Current(o) /\ (Skipped(o, Current(o))' <=> Skipped(o, Current(o)))
BY DEF ctl, Section, Expected, Awaiting, Task, Current, Skipped, usage

LEMMA SendStep ==
  ASSUME Inv, NEW o \in Op, Send(o)
  PROVE  Inv'
<1> USE DEF Inv
<1>0. PICK p : p = Current(o)
  OBVIOUS
<1>1. /\ phase[o] = "send" /\ todo[o] # {}
      /\ todo' = [todo EXCEPT ![o] = @ \ {p}]
      /\ tasks' = IF Skipped(o, p) THEN tasks ELSE tasks \cup {Task(o, p)}
      /\ UNCHANGED <<mutex, phase, call, jobs, before, state, net, results, sleeping, dead, aborted>>
  BY <1>0 DEF Send, Advance
<1>2. mutex = o /\ Section(o) /\ Effect(o) /\ \A k \in Op : ~sleeping[k]
  BY <1>1, HolderAlone
<1>3. p \in todo[o] /\ p \in Loop(call[o]) /\ p \in Place
  BY <1>0, <1>1, <1>2, CurrentIsLeft, LoopPlaces DEF Section
<1>4. todo'[o] = todo[o] \ {p} /\ todo' \in [Op -> SUBSET Place]
  BY <1>1 DEF TypeOK
<1>5. TypeOK'
  <2>1. Task(o, p) \in [op : Op, place : Place, kind : Kinds, domains : SUBSET Place]
    BY <1>3 DEF Task, TypeOK
  <2> QED BY <1>1, <1>4, <2>1 DEF TypeOK
<1>6. Holder' /\ NoSleepOnMessage'
  BY <1>1, <1>2 DEF Holder, NoSleepOnMessage
<1>7. Section(o)'
  BY <1>1, <1>2, <1>4 DEF Section, Loop
<1>8. Effect(o)'
  BY <1>1, <1>2 DEF Effect, Answered, Loop, usage
<1>9. Accounting'
  <2>1. \A op, q : Expected(op, q) => Expected(op, q)'
    BY <1>1, <1>2, <1>4 DEF Expected, Awaiting, Skipped, Loop, usage
  <2>2. \A op, q : Task(op, q)' = Task(op, q)
    BY <1>1 DEF Task
  <2>3. CASE Skipped(o, p)
    BY <1>1, <2>1, <2>2, <2>3 DEF Accounting
  <2>4. CASE ~Skipped(o, p)
    <3>1. tasks' = tasks \cup {Task(o, p)} /\ Task(o, p).op = o /\ Task(o, p).place = p
      BY <1>1, <2>4 DEF Task
    <3>2. Expected(o, p)'
      <4>1. p \in Loop(call'[o]) /\ phase'[o] = "send" /\ p \notin todo'[o]
        BY <1>1, <1>3, <1>4
      <4>2. ~Skipped(o, p)'
        BY <1>1, <2>4 DEF Skipped, usage
      <4> QED BY <1>1, <1>2, <4>1, <4>2 DEF Expected, Awaiting
    <3>3. \A op : ~Expected(op, p)
      BY <1>1, <1>2, <1>3 DEF Expected, Awaiting
    <3>4. \A r \in net : r.place # p
      BY <3>3 DEF Accounting
    <3>5. results[p[1]] = <<>>
      <4> SUFFICES ASSUME results[p[1]] # <<>> PROVE FALSE
        OBVIOUS
      <4>1. p[1] \in Machine
        BY <1>3 DEF Place
      <4>2. /\ Expected(results[p[1]][1].op, results[p[1]][1].place)
            /\ results[p[1]][1].place[1] = p[1]
        BY <4>1 DEF Accounting
      <4>3. results[p[1]][1].place \in Loop(call[o])
        BY <1>2, <4>2 DEF Expected, Awaiting
      <4> QED BY <1>2, <1>3, <3>3, <4>2, <4>3, LoopPlaces
    <3>6. \A t \in tasks' : Expected(t.op, t.place)' /\ t = Task(t.op, t.place)'
      BY <2>1, <2>2, <3>1, <3>2 DEF Accounting
    <3>7. /\ \A t \in tasks', r \in net : t.place # r.place
          /\ \A t \in tasks' : results[t.place[1]] = <<>>
      BY <3>1, <3>4, <3>5 DEF Accounting
    <3>8. /\ \A r \in net : Expected(r.op, r.place)'
          /\ \A m \in Machine : results'[m] # <<>> =>
                /\ Expected(results[m][1].op, results[m][1].place)'
                /\ results'[m][1].place[1] = m
      BY <1>1, <2>1 DEF Accounting
    <3>9. /\ \A r, s \in net : r.place = s.place => r = s
          /\ \A r \in net : results[r.place[1]] = <<>>
      BY DEF Accounting
    <3>10. net' = net /\ results' = results
      BY <1>1
    <3> QED BY <3>6, <3>7, <3>8, <3>9, <3>10 DEF Accounting
  <2> QED BY <2>3, <2>4
<1> QED BY <1>1, <1>2, <1>5, <1>6, <1>7, <1>8, <1>9

LEMMA AllSentStep ==
  ASSUME Inv, NEW o \in Op, AllSent(o)
  PROVE  Inv'
<1> USE DEF Inv
<1>1. /\ phase[o] = "send" /\ todo[o] = {}
      /\ phase' = [phase EXCEPT ![o] = "receive"]
      /\ todo' = [todo EXCEPT ![o] = Loop(call[o])]
      /\ UNCHANGED <<mutex, call, jobs, before, state, tasks, net, results, sleeping, dead, aborted>>
  BY DEF AllSent
<1>2. mutex = o /\ Section(o) /\ Effect(o) /\ \A k \in Op : ~sleeping[k]
  BY <1>1, HolderAlone
<1>3. Loop(call[o]) \subseteq Place
  BY <1>2, LoopPlaces
<1>4. todo'[o] = Loop(call[o]) /\ phase'[o] = "receive" /\ call'[o] = call[o]
  BY <1>1 DEF TypeOK
<1>5. TypeOK'
  BY <1>1, <1>3 DEF TypeOK
<1>6. Holder' /\ NoSleepOnMessage'
  BY <1>1, <1>2 DEF Holder, NoSleepOnMessage, TypeOK
<1>7. Section(o)'
  BY <1>1, <1>2, <1>4 DEF Section
<1>8. Effect(o)'
  <2>1. \A p \in Loop(call[o]) : Answered(o, p)' => Answered(o, p)
    BY <1>1, <1>4 DEF Answered
  <2> QED BY <1>1, <1>2, <1>4, <2>1 DEF Effect, usage
<1>9. Accounting'
  <2>1. \A op, q : Expected(op, q) => Expected(op, q)'
    BY <1>1, <1>2, <1>4 DEF Expected, Awaiting, Skipped, usage
  <2>2. \A op, q : Task(op, q)' = Task(op, q)
    BY <1>1 DEF Task
  <2> QED BY <1>1, <2>1, <2>2 DEF Accounting
<1> QED BY <1>1, <1>2, <1>5, <1>6, <1>7, <1>8, <1>9

LEMMA SkipStep ==
  ASSUME Inv, NEW o \in Op, SkipResult(o)
  PROVE  Inv'
<1> USE DEF Inv
<1>0. PICK p : p = Current(o)
  OBVIOUS
<1>1. /\ phase[o] = "receive" /\ todo[o] # {} /\ Skipped(o, p)
      /\ todo' = [todo EXCEPT ![o] = @ \ {p}]
      /\ UNCHANGED <<mutex, phase, call, jobs, before, state, tasks, net, results, sleeping, dead,
                     aborted>>
  BY <1>0 DEF SkipResult, Advance
<1>2. mutex = o /\ Section(o) /\ Effect(o) /\ \A k \in Op : ~sleeping[k]
  BY <1>0, <1>1, HolderAlone DEF Holder
<1>3. todo'[o] = todo[o] \ {p} /\ call[o].kind \in {"suspend", "resume"}
  BY <1>1 DEF TypeOK, Skipped
<1>4. TypeOK'
  BY <1>1 DEF TypeOK
<1>5. Holder' /\ NoSleepOnMessage'
  BY <1>1, <1>2 DEF Holder, NoSleepOnMessage
<1>6. Section(o)' /\ Effect(o)'
  <2>1. Section(o)'
    BY <1>1, <1>2, <1>3 DEF Section
  <2>2. Effect(o)'
    BY <1>1, <1>2, <1>3 DEF Effect, usage
  <2> QED BY <2>1, <2>2
<1>7. Accounting'
  <2>1. \A op, q : Expected(op, q) => Expected(op, q)'
    BY <1>1, <1>2, <1>3 DEF Expected, Awaiting, Skipped, Loop, usage
  <2>2. \A op, q : Task(op, q)' = Task(op, q)
    BY <1>1 DEF Task
  <2> QED BY <1>1, <2>1, <2>2 DEF Accounting
<1> QED BY <1>1, <1>2, <1>4, <1>5, <1>6, <1>7

LEMMA SleepStep ==
  ASSUME Inv, NEW o \in Op, WaitForMessage(o) \/ WakeUp(o)
  PROVE  Inv'
<1> USE DEF Inv
<1>1. /\ UNCHANGED ctl
      /\ UNCHANGED <<mutex, phase, call, todo, jobs, before, state, tasks, net, results, dead, aborted>>
  BY DEF WaitForMessage, WakeUp, ctl
<1>2. PICK b \in BOOLEAN : sleeping' = [sleeping EXCEPT ![o] = b]
  BY DEF WaitForMessage, WakeUp
<1>3. /\ b => phase[o] = "receive" /\ todo[o] # {} /\ ~Skipped(o, Current(o))
      /\ b => results[Current(o)[1]] = <<>>
  BY <1>2 DEF WaitForMessage, WakeUp, AtResult, TypeOK
<1>4. TypeOK'
  BY <1>1, <1>2 DEF TypeOK
<1>5. Holder'
  BY <1>1, <1>2, <1>3, CtlFrame DEF Holder, TypeOK
<1>6. NoSleepOnMessage'
  BY <1>1, <1>2, <1>3, CtlFrame DEF NoSleepOnMessage, TypeOK
<1>7. \A k \in Op : mutex' = k => Section(k)' /\ Effect(k)'
  BY <1>1, CtlFrame DEF Effect, Answered, usage
<1>8. Accounting'
  BY <1>1, CtlFrame DEF Accounting
<1> QED BY <1>1, <1>4, <1>5, <1>6, <1>7, <1>8

LEMMA GetStep ==
  ASSUME Inv, ~aborted, NEW o \in Op, get_message(o)
  PROVE  Inv'
<1> USE DEF Inv
<1>0. PICK p, r : p = Current(o) /\ r = results[p[1]][1]
  OBVIOUS
<1>1. /\ phase[o] = "receive" /\ todo[o] # {} /\ ~Skipped(o, p) /\ ~sleeping[o]
      /\ results[p[1]] # <<>>
      /\ results' = [results EXCEPT ![p[1]] = Tail(@)]
      /\ todo' = [todo EXCEPT ![o] = @ \ {p}]
      /\ aborted' = (aborted \/ Fatal(call[o].kind, r.status))
      /\ UNCHANGED <<mutex, phase, call, jobs, before, state, tasks, net, sleeping, dead>>
  BY <1>0 DEF get_message, AtResult, Advance
<1>2. mutex = o /\ Section(o) /\ Effect(o) /\ \A k \in Op : ~sleeping[k]
  BY <1>1, HolderAlone
<1>3. p \in todo[o] /\ p \in Loop(call[o]) /\ p \in Place /\ p[1] \in Machine
  <2>1. p \in todo[o]
    BY <1>0, <1>1, CurrentIsLeft
  <2>2. p \in Loop(call[o])
    BY <1>2, <2>1 DEF Section
  <2> QED BY <1>2, <2>1, <2>2, LoopPlaces DEF Place
<1>4. todo'[o] = todo[o] \ {p} /\ todo' \in [Op -> SUBSET Place]
  BY <1>1 DEF TypeOK
<1>5. results'[p[1]] = <<>> /\ \A m \in Machine : m # p[1] => results'[m] = results[m]
  BY <1>1, <1>3 DEF TypeOK
(* The result that is taken answers the place the loop is at.              *)
<1>6. r.place = p /\ \A m \in Machine : results'[m] # <<>> => results[m][1].place # p
  <2>1. Expected(r.op, r.place) /\ r.place[1] = p[1]
    BY <1>0, <1>1, <1>3 DEF Accounting
  <2>2. r.place \in Loop(call[o])
    BY <1>2, <2>1 DEF Expected, Awaiting
  <2> QED BY <1>2, <1>3, <1>5, <2>1, <2>2, LoopPlaces DEF Accounting
<1>7. TypeOK'
  <2>1. results' \in [Machine -> Seq(Reply)] /\ \A m \in Machine : Len(results'[m]) <= 1
    <3>1. results' \in [Machine -> Seq(Reply)]
      BY <1>1, <1>3 DEF TypeOK
    <3>2. ASSUME NEW m \in Machine PROVE Len(results'[m]) <= 1
      <4>1. CASE m = p[1]
        BY <1>5, <4>1
      <4>2. CASE m # p[1]
        BY <1>5, <4>2 DEF TypeOK
      <4> QED BY <4>1, <4>2
    <3> QED BY <3>1, <3>2
  <2> QED BY <1>1, <1>4, <2>1 DEF TypeOK
<1>8. Holder' /\ NoSleepOnMessage'
  BY <1>1, <1>2 DEF Holder, NoSleepOnMessage
<1>9. Section(o)'
  BY <1>1, <1>2, <1>4 DEF Section
<1>10. Effect(o)'
  <2>1. CASE call[o].kind \in {"suspend", "resume"}
    BY <1>1, <1>2, <2>1 DEF Effect, usage
  <2>2. CASE call[o].kind \in {"start", "stop"} /\ aborted'
    BY <1>1, <2>2 DEF Effect
  <2>3. CASE call[o].kind \in {"start", "stop"} /\ ~aborted'
    <3>1. r.status = "success"
      BY <1>1, <2>3 DEF Fatal
    <3>2. \A q \in Loop(call[o]) : q # p /\ Answered(o, q)' => Answered(o, q)
      <4> SUFFICES ASSUME NEW q \in Loop(call[o]), q # p, Answered(o, q)' PROVE Answered(o, q)
        OBVIOUS
      <4>1. q[1] \in Machine /\ q[1] # p[1]
        BY <1>2, <1>3, LoopPlaces DEF Place
      <4> QED BY <1>1, <1>4, <1>5, <4>1 DEF Answered
    <3>3. Answered(o, p)
      BY <1>0, <1>1, <3>1 DEF Answered
    <3>4. \A q \in Loop(call[o]) : Answered(o, q)' => Answered(o, q)
      BY <3>2, <3>3
    <3> QED BY <1>1, <1>2, <2>3, <3>4 DEF Effect, usage
  <2> QED BY <2>1, <2>2, <2>3 DEF TypeOK, Kinds
<1>11. Accounting'
  <2>1. \A op, q : Expected(op, q) /\ q # p => Expected(op, q)'
    BY <1>1, <1>2, <1>4 DEF Expected, Awaiting, Skipped, usage
  <2>2. \A op, q : Task(op, q)' = Task(op, q)
    BY <1>1 DEF Task
  <2>3. /\ \A t \in tasks : t.place # p
        /\ \A s \in net : s.place # p
    BY <1>1 DEF Accounting
  <2>4. /\ \A t \in tasks : results'[t.place[1]] = <<>>
        /\ \A s \in net : results'[s.place[1]] = <<>>
    <3>1. /\ \A t \in tasks : t.place[1] \in Machine
          /\ \A s \in net : s.place[1] \in Machine
      BY DEF TypeOK, Reply, Place
    <3> QED BY <1>5, <3>1 DEF Accounting
  <2>5. /\ \A t \in tasks : Expected(t.op, t.place)' /\ t = Task(t.op, t.place)'
        /\ \A s \in net : Expected(s.op, s.place)'
    BY <2>1, <2>2, <2>3 DEF Accounting
  <2>6. \A m \in Machine : results'[m] # <<>> =>
            /\ Expected(results[m][1].op, results[m][1].place)'
            /\ results'[m][1].place[1] = m
    BY <1>5, <1>6, <2>1 DEF Accounting
  <2>7. /\ \A t \in tasks, s \in net : t.place # s.place
        /\ \A s, t \in net : s.place = t.place => s = t
        /\ tasks' = tasks /\ net' = net
    BY <1>1 DEF Accounting
  <2> QED BY <2>4, <2>5, <2>6, <2>7 DEF Accounting
<1> QED BY <1>1, <1>2, <1>7, <1>8, <1>9, <1>10, <1>11

LEMMA ReturnStep ==
  ASSUME Inv, NEW o \in Op, Return(o)
  PROVE  Inv'
<1> USE DEF Inv
<1>1. /\ phase[o] = "receive" /\ todo[o] = {}
      /\ phase' = [phase EXCEPT ![o] = "ended"]
      /\ jobs' \subseteq jobs
      /\ mutex' = NoOp
      /\ call' = [call EXCEPT ![o] = NoCall]
      /\ before' = <<jobs', state>>
      /\ UNCHANGED <<todo, state, tasks, net, results, sleeping, dead, aborted>>
  BY DEF Return
<1>2. mutex = o /\ \A k \in Op : ~sleeping[k]
  BY <1>1, HolderAlone DEF Holder
<1>3. tasks = {} /\ net = {} /\ \A m \in Machine : results[m] = <<>>
  BY <1>1, <1>2 DEF Accounting, Expected, Awaiting
<1>4. TypeOK'
  <2>1. NoCall \in [kind : Kinds, config : SUBSET Place]
    BY DEF NoCall, Kinds
  <2> QED BY <1>1, <2>1 DEF TypeOK
<1>5. Holder'
  <2>1. \A k \in Op : phase'[k] = IF k = o THEN "ended" ELSE phase[k]
    BY <1>1 DEF TypeOK
  <2>2. \A k \in Op : k # NoOp
    BY DEF Op, NoOp
  <2> QED BY <1>1, <1>2, <2>1, <2>2 DEF Holder
<1>6. Accounting' /\ NoSleepOnMessage'
  BY <1>1, <1>2, <1>3 DEF Accounting, NoSleepOnMessage
<1>7. before'[2] = state
  BY <1>1
<1>8. \A k \in Op : mutex' # k
  BY <1>1 DEF Op, NoOp
<1> QED BY <1>4, <1>5, <1>6, <1>7, <1>8 DEF TypeOK

-------------------------------------------------------------------------------
LEMMA AgentStep ==
  ASSUME Inv, ~aborted, NEW t \in tasks, Agent(t)
  PROVE  Inv'
<1> USE DEF Inv
<1>0. PICK status \in {"success", "error", "not running"} :
        /\ state' = [p \in Place |-> IF status = "success" /\ p \in t.domains
                                     THEN After[t.kind] ELSE state[p]]
        /\ net' = net \cup {[op |-> t.op, place |-> t.place, status |-> status]}
  BY DEF Agent
<1>1. PICK r : r = [op |-> t.op, place |-> t.place, status |-> status]
  OBVIOUS
<1>2. /\ net' = net \cup {r} /\ tasks' = tasks \ {t}
      /\ UNCHANGED <<ctl, results, sleeping, dead, aborted>>
      /\ UNCHANGED <<mutex, phase, call, todo, jobs, before>>
  BY <1>0, <1>1 DEF Agent, ctl
<1>3. PICK o \in Op : o = t.op /\ mutex = o
  BY DEF Accounting, Expected
<1>4. PICK p : p = t.place /\ p \in Loop(call[o]) /\ ~Skipped(o, p) /\ Expected(o, p)
  BY <1>3 DEF Accounting, Expected, Awaiting
<1>5. /\ t.kind = call[o].kind
      /\ t.domains = IF call[o].kind \in {"start", "stop"}
                     THEN {q \in call[o].config : q[1] = p[1]} ELSE {p}
      /\ t = Task(o, p)
  <2>1. t = Task(o, p)
    BY <1>3, <1>4 DEF Accounting
  <2> QED BY <2>1 DEF Task
<1>6. Section(o) /\ Effect(o)
  BY <1>3
<1>7. call[o].kind \in Kinds /\ call[o].config \subseteq Place /\ p \in Place
  BY <1>4, <1>6, LoopPlaces DEF TypeOK
<1>8. /\ \A s \in tasks : s # t => s.place # p
      /\ \A s \in net : s.place # p
      /\ results[p[1]] = <<>>
  <2>1. \A s \in tasks : s.op = o /\ s = Task(s.op, s.place)
    BY <1>3 DEF Accounting, Expected
  <2> QED BY <1>4, <1>5, <2>1 DEF Accounting
<1>9. TypeOK'
  <2>1. After[t.kind] \in {"none", "running", "suspended"}
    BY <1>5, <1>7, AfterType
  <2>2. state' \in [Place -> {"none", "running", "suspended"}]
    BY <1>0, <2>1 DEF TypeOK
  <2>3. r \in Reply
    BY <1>1, <1>3, <1>4, <1>7 DEF Reply
  <2> QED BY <1>2, <2>2, <2>3 DEF TypeOK
<1>10. Holder' /\ NoSleepOnMessage'
  BY <1>2, CtlFrame DEF Holder, NoSleepOnMessage
<1>11. Section(o)'
  BY <1>2, <1>6, CtlFrame
<1>12. Effect(o)'
  <2>1. CASE call[o].kind \in {"suspend", "resume"}
    <3>1. p \in usage /\ t.domains = {p}
      BY <1>4, <1>5, <2>1 DEF Skipped
    <3> QED BY <1>0, <1>2, <1>5, <1>6, <2>1, <3>1 DEF Effect, usage
  <2>2. CASE call[o].kind \in {"start", "stop"}
    <3>1. t.domains = {q \in call[o].config : q[1] = p[1]}
      BY <1>5, <2>2
    <3>2. /\ \A q \in Place \ call[o].config : state[q] = before[2][q]
          /\ \A q \in Loop(call[o]) : Answered(o, q) =>
                \A e \in call[o].config : e[1] = q[1] => state[e] = After[call[o].kind]
      BY <1>2, <1>6, <2>2 DEF Effect
    <3>3. \A q \in Place \ call[o].config : state'[q] = before[2][q]
      BY <1>0, <3>1, <3>2
    <3>4. ASSUME NEW q \in Loop(call[o]), Answered(o, q)',
                 NEW e \in call[o].config, e[1] = q[1]
          PROVE  state'[e] = After[call[o].kind]
      <4>1. CASE Answered(o, q)
        BY <1>0, <1>5, <1>7, <3>2, <3>4, <4>1
      <4>2. CASE ~Answered(o, q)
        <5>1. status = "success" /\ q = p
          <6>1. PICK u \in net' : u.place = q /\ u.status = "success" /\ u \notin net
            BY <1>2, <3>4, <4>2 DEF Answered
          <6>2. u = r
            BY <1>2, <6>1
          <6> QED BY <1>1, <1>4, <6>1, <6>2
        <5> QED BY <1>0, <1>5, <1>7, <3>1, <3>4, <5>1
      <4> QED BY <4>1, <4>2
    <3> QED BY <1>2, <2>2, <3>3, <3>4 DEF Effect
  <2> QED BY <1>7, <2>1, <2>2 DEF Kinds
<1>13. Accounting'
  <2>1. r.op = o /\ r.place = p
    BY <1>1, <1>3, <1>4
  <2>2. /\ \A s \in net' : Expected(s.op, s.place)
        /\ \A s, u \in net' : s.place = u.place => s = u
        /\ \A s \in net' : results'[s.place[1]] = <<>>
    BY <1>2, <1>4, <1>8, <2>1 DEF Accounting
  <2>3. /\ \A s \in tasks', u \in net' : s.place # u.place
        /\ \A s \in tasks' : Expected(s.op, s.place) /\ s = Task(s.op, s.place)
        /\ \A s \in tasks' : results'[s.place[1]] = <<>>
    BY <1>2, <1>8, <2>1 DEF Accounting
  <2>4. \A m \in Machine : results'[m] # <<>> =>
            Expected(results'[m][1].op, results'[m][1].place) /\ results'[m][1].place[1] = m
    BY <1>2 DEF Accounting
  <2>5. /\ \A op, q : (Expected(op, q)' <=> Expected(op, q)) /\ Task(op, q)' = Task(op, q)
    BY <1>2, CtlFrame
  <2>6. /\ \A s \in tasks' : Expected(s.op, s.place)' /\ s = Task(s.op, s.place)'
        /\ \A s \in net' : Expected(s.op, s.place)'
        /\ \A m \in Machine : results'[m] # <<>> => Expected(results[m][1].op, results[m][1].place)'
    BY <2>2, <2>3, <2>4, <2>5
  <2> QED BY <2>2, <2>3, <2>4, <2>6 DEF Accounting
<1> QED BY <1>2, <1>3, <1>9, <1>10, <1>11, <1>12, <1>13

LEMMA CrashStep ==
  ASSUME Inv, NEW m \in Machine, Crash(m)
  PROVE  Inv'
<1> USE DEF Inv
<1>1. /\ dead' = dead \cup {m}
      /\ UNCHANGED <<ctl, state, tasks, net, results, sleeping, aborted>>
      /\ UNCHANGED <<mutex, phase, call, todo, jobs, before>>
  BY DEF Crash, ctl
<1>2. TypeOK' /\ Holder' /\ NoSleepOnMessage'
  BY <1>1, CtlFrame DEF TypeOK, Holder, NoSleepOnMessage
<1>3. \A k \in Op : mutex' = k => Section(k)' /\ Effect(k)'
  BY <1>1, CtlFrame DEF Effect, Answered, usage
<1>4. Accounting'
  BY <1>1, CtlFrame DEF Accounting
<1> QED BY <1>1, <1>2, <1>3, <1>4

LEMMA DeliverStep ==
  ASSUME Inv, NEW r \in net, add_message(r)
  PROVE  Inv'
<1> USE DEF Inv
<1>0. PICK m : m = r.place[1]
  OBVIOUS
<1>1. /\ net' = net \ {r}
      /\ results' = [results EXCEPT ![m] = Append(@, r)]
      /\ UNCHANGED <<ctl, state, tasks, dead, aborted>>
      /\ UNCHANGED <<mutex, phase, call, todo, jobs, before>>
  BY <1>0 DEF add_message, ctl
<1>2. PICK o \in Op : o = r.op /\ mutex = o /\ Expected(o, r.place)
  BY DEF Accounting, Expected
<1>3. /\ Section(o) /\ Effect(o) /\ phase[o] \in {"send", "receive"}
      /\ \A k \in Op : sleeping[k] => k = o
  BY <1>2 DEF Holder
<1>4. r \in Reply /\ r.place \in Place /\ m \in Machine
  BY <1>0 DEF TypeOK, Reply, Place
<1>5. results[m] = <<>> /\ results'[m] = <<r>> /\ \A n \in Machine : n # m => results'[n] = results[n]
  <2>1. results[m] = <<>>
    BY <1>0 DEF Accounting
  <2> QED BY <1>1, <1>4, <2>1 DEF TypeOK
(* No other task or result is for this machine.                            *)
<1>6. \A p \in Loop(call[o]) : p[1] = m => p = r.place
  BY <1>0, <1>2, <1>3, LoopPlaces DEF Expected, Awaiting
<1>7. \A op, p : Expected(op, p) => op = o /\ p \in Loop(call[o])
  BY <1>2 DEF Expected, Awaiting
<1>8. /\ sleeping' \in [Op -> BOOLEAN] /\ \A k \in Op : sleeping'[k] => sleeping[k]
      /\ \A k \in Op : sleeping'[k] => Current(k)[1] # m
  <2>1. CASE Sleepers(m) = {}
    BY <1>0, <2>1 DEF add_message, Sleepers, TypeOK
  <2>2. CASE Sleepers(m) # {}
    <3>1. PICK k \in Sleepers(m) : sleeping' = [sleeping EXCEPT ![k] = FALSE]
      BY <1>0, <1>5, <2>2 DEF add_message
    <3>2. k = o
      BY <1>3 DEF Sleepers
    <3> QED BY <1>3, <3>1, <3>2 DEF TypeOK
  <2> QED BY <2>1, <2>2
<1>9. TypeOK'
  <2>1. results' \in [Machine -> Seq(Reply)]
    BY <1>1, <1>4 DEF TypeOK
  <2>2. ASSUME NEW n \in Machine PROVE Len(results'[n]) <= 1
    <3>1. CASE n = m
      <4>1. Len(<<r>>) = 1
        OBVIOUS
      <4>2. results'[n] = <<r>>
        BY <1>5, <3>1
      <4> QED BY <4>1, <4>2
    <3>2. CASE n # m
      BY <1>5, <3>2 DEF TypeOK
    <3> QED BY <3>1, <3>2
  <2> QED BY <1>1, <1>8, <2>1, <2>2 DEF TypeOK
<1>10. Holder'
  BY <1>1, <1>8, CtlFrame DEF Holder
<1>11. NoSleepOnMessage'
  <2> SUFFICES ASSUME NEW k \in Op, sleeping'[k] PROVE results'[Current(k)[1]] = <<>>
    BY <1>1, CtlFrame DEF NoSleepOnMessage
  <2>1. sleeping[k] /\ Current(k)[1] # m /\ todo[k] # {}
    BY <1>8 DEF Holder
  <2>2. Current(k)[1] \in Machine
    BY <2>1, CurrentIsLeft DEF TypeOK, Place
  <2> QED BY <1>5, <2>1, <2>2 DEF NoSleepOnMessage
<1>12. Effect(o)'
  <2>1. \A p \in Loop(call[o]) : p[1] \in Machine
    BY <1>3, LoopPlaces DEF Place
  <2>2. ASSUME NEW p \in Loop(call[o]), Answered(o, p)' PROVE Answered(o, p)
    BY <1>1, <1>5, <1>6, <2>1, <2>2 DEF Answered
  <2> QED BY <1>1, <1>3, <2>2 DEF Effect, usage
<1>13. Accounting'
  <2>1. /\ \A t \in tasks : t.place[1] \in Machine /\ t.place[1] # m
        /\ \A s \in net' : s.place[1] \in Machine /\ s.place[1] # m
    <3>1. /\ \A t \in tasks : t.place[1] \in Machine
          /\ \A s \in net : s.place[1] \in Machine
      BY DEF TypeOK, Reply, Place
    <3>2. /\ \A t \in tasks : t.place \in Loop(call[o]) /\ t.place # r.place
          /\ \A s \in net' : s.place \in Loop(call[o]) /\ s.place # r.place
      BY <1>1, <1>7 DEF Accounting
    <3> QED BY <1>1, <1>6, <3>1, <3>2
  <2>2. /\ \A t \in tasks : results'[t.place[1]] = <<>>
        /\ \A s \in net' : results'[s.place[1]] = <<>>
    BY <1>1, <1>5, <2>1 DEF Accounting
  <2>3. \A n \in Machine : results'[n] # <<>> =>
            Expected(results'[n][1].op, results'[n][1].place) /\ results'[n][1].place[1] = n
    <3> SUFFICES ASSUME NEW n \in Machine, results'[n] # <<>>
                 PROVE  /\ Expected(results'[n][1].op, results'[n][1].place)
                        /\ results'[n][1].place[1] = n
      OBVIOUS
    <3>1. CASE n = m
      BY <1>0, <1>2, <1>5, <3>1
    <3>2. CASE n # m
      BY <1>5, <3>2 DEF Accounting
    <3> QED BY <3>1, <3>2
  <2>4. /\ \A t \in tasks : Expected(t.op, t.place) /\ t = Task(t.op, t.place)
        /\ \A s \in net' : Expected(s.op, s.place)
        /\ \A t \in tasks, s \in net' : t.place # s.place
        /\ \A s, t \in net' : s.place = t.place => s = t
    BY <1>1 DEF Accounting
  <2> QED BY <1>1, <2>2, <2>3, <2>4, CtlFrame DEF Accounting
<1> QED BY <1>1, <1>2, <1>3, <1>9, <1>10, <1>11, <1>12, <1>13, CtlFrame

-------------------------------------------------------------------------------
(* Inv is preserved by every step.                                         *)
LEMMA NextInv == Inv /\ [Next]_vars => Inv'
<1> SUFFICES ASSUME Inv, [Next]_vars PROVE Inv'
  OBVIOUS
<1>1. CASE ~aborted /\ \E o \in Op : Lock(o) \/ Thread(o) \/ WakeUp(o)
  <2>1. PICK o \in Op : Lock(o) \/ Thread(o) \/ WakeUp(o)
    BY <1>1
  <2> QED BY <1>1, <2>1, LockStep, SendStep, AllSentStep, SkipStep, SleepStep, GetStep, ReturnStep
          DEF Thread
<1>2. CASE ~aborted /\ Work
  BY <1>2, AgentStep DEF Work
<1>3. CASE Deliver
  BY <1>3, DeliverStep DEF Deliver
<1>4. CASE \E m \in Machine : Crash(m)
  BY <1>4, CrashStep
<1>5. CASE UNCHANGED vars
  <2> USE DEF Inv
  <2>1. /\ UNCHANGED ctl /\ UNCHANGED <<state, tasks, net, results, sleeping, dead, aborted>>
        /\ UNCHANGED <<mutex, phase, call, todo, jobs, before>>
    BY <1>5 DEF vars, ctl
  <2>2. TypeOK' /\ Holder' /\ NoSleepOnMessage'
    BY <2>1, CtlFrame DEF TypeOK, Holder, NoSleepOnMessage
  <2>3. \A k \in Op : mutex' = k => Section(k)' /\ Effect(k)'
    BY <2>1, CtlFrame DEF Effect, Answered, usage
  <2>4. Accounting'
    BY <2>1, CtlFrame DEF Accounting
  <2> QED BY <2>1, <2>2, <2>3, <2>4
<1> QED BY <1>1, <1>2, <1>3, <1>4, <1>5 DEF Next

(* Inv holds in every reachable state.                                     *)
THEOREM InvHolds == Spec => []Inv
BY InitInv, NextInv, PTL DEF Spec

(* Type correctness of the exchange with the agents; in particular the     *)
(* queue of a machine's result topic never holds two messages.             *)
THEOREM TypeCorrect == Spec => []TypeOK
<1>1. Inv => TypeOK
  BY DEF Inv
<1> QED BY <1>1, InvHolds, PTL

(* A result never reaches another critical section than the one that sent  *)
(* the task, although the message does not identify it.                    *)
THEOREM ResultsReachTheirOwner == Spec => []ResultsAreMine
<1>1. Inv => ResultsAreMine
  <2> SUFFICES ASSUME Inv PROVE ResultsAreMine
    OBVIOUS
  <2>1. (\A t \in tasks : t.op = mutex) /\ \A r \in net : r.op = mutex
    BY DEF Inv, Accounting, Expected
  <2>2. ASSUME NEW m \in Machine, NEW i \in DOMAIN results[m]
        PROVE  results[m][i].op = mutex
    <3>1. results[m] \in Seq(Reply) /\ Len(results[m]) <= 1
      BY DEF Inv, TypeOK
    <3>2. i = 1 /\ results[m] # <<>>
      BY <2>2, <3>1
    <3> QED BY <3>2 DEF Inv, Accounting, Expected
  <2> QED BY <2>1, <2>2 DEF ResultsAreMine
<1> QED BY <1>1, InvHolds, PTL

(* get_message() never sleeps on a queue that has a message.               *)
THEOREM SleepersHaveNoMessage == Spec => []NoSleepOnMessage
<1>1. Inv => NoSleepOnMessage
  BY DEF Inv
<1> QED BY <1>1, InvHolds, PTL

-------------------------------------------------------------------------------
(* Refinement of AtomicRequests.  Only Return is a step of it.             *)
LEMMA AtomicInit == Init => Atomic!Init
<1> SUFFICES ASSUME Init PROVE Atomic!Init
  OBVIOUS
<1>1. /\ mutex = NoOp /\ jobs \subseteq SUBSET Place
      /\ \A c, d \in jobs : c # d => c \cap d = {}
      /\ state = [p \in Place |-> IF p \in UNION jobs THEN "running" ELSE "none"]
  BY DEF Init, usage
<1> QED BY <1>1 DEF Atomic!Init

LEMMA AtomicStutter ==
  ASSUME UNCHANGED <<mutex, before>>, mutex = NoOp => UNCHANGED <<jobs, state>>
  PROVE  UNCHANGED Atomic!vars
BY DEF Atomic!vars

(* When a critical section returns, all domains it has a result for have   *)
(* followed; those of a job that starts or stops are all of them.          *)
LEMMA AtomicReturn ==
  ASSUME Inv, ~aborted, NEW o \in Op, Return(o)
  PROVE  Atomic!Suspend \/ Atomic!Resume \/ Atomic!Start \/ Atomic!Stop
<1>1. /\ phase[o] = "receive" /\ todo[o] = {} /\ mutex' = NoOp /\ state' = state
      /\ jobs' = IF call[o].kind = "stop" THEN jobs \ {call[o].config} ELSE jobs
  BY DEF Return
<1>2. /\ mutex = o /\ mutex # NoOp /\ Section(o) /\ Effect(o)
  BY <1>1, HolderAlone DEF Op, NoOp
<1>3. PICK old, J, c : old = before[2] /\ J = before[1] /\ c = call[o].config
  OBVIOUS
<1>4. /\ call[o].kind \in Kinds /\ c \subseteq Place
      /\ old \in [Place -> {"none", "running", "suspended"}]
      /\ state \in [Place -> {"none", "running", "suspended"}]
  BY <1>3 DEF Inv, TypeOK
<1>5. ASSUME NEW S \in SUBSET Place, NEW s,
             \A q \in Place : state[q] = IF q \in S THEN s ELSE old[q]
      PROVE  (IF mutex = NoOp THEN state ELSE before[2])' = Atomic!With(S, s)
  <2>1. state = [q \in Place |-> IF q \in S THEN s ELSE old[q]]
    BY <1>4, <1>5
  <2> QED BY <1>1, <1>2, <1>3, <2>1 DEF Atomic!With
<1>6. CASE call[o].kind \in {"suspend", "resume"}
  <2>1. PICK s : s = After[call[o].kind]
    OBVIOUS
  <2>2. PICK S : S = {q \in usage : state[q] = s}
    OBVIOUS
  <2>3. jobs' = J /\ jobs = J /\ S \subseteq UNION J /\ S \subseteq Place
    <3>1. jobs' = jobs /\ jobs = J
      BY <1>1, <1>2, <1>3, <1>6 DEF Section
    <3>2. UNION jobs \subseteq Place
      BY DEF Inv, TypeOK
    <3> QED BY <2>2, <3>1, <3>2 DEF usage
  <2>4. \A q \in Place : state[q] = IF q \in S THEN s ELSE old[q]
    BY <1>2, <1>3, <1>6, <2>1, <2>2 DEF Effect
  <2>5. (IF mutex = NoOp THEN state ELSE before[2])' = Atomic!With(S, s)
    BY <1>5, <2>3, <2>4
  <2>6. s = "suspended" \/ s = "running"
    BY <1>6, <2>1, AfterKinds
  <2> QED BY <1>1, <1>2, <1>3, <2>3, <2>5, <2>6 DEF Atomic!Suspend, Atomic!Resume
<1>7. CASE call[o].kind \in {"start", "stop"}
  <2>1. PICK s : s = After[call[o].kind]
    OBVIOUS
  <2>2. \A q \in Place : state[q] = IF q \in c THEN s ELSE old[q]
    <3>1. ASSUME NEW q \in c PROVE state[q] = s
      <4>1. <<q[1], 0>> \in Loop(call[o])
        BY <1>3, <1>7 DEF Loop
      <4>2. Answered(o, <<q[1], 0>>)
        BY <1>1 DEF Answered
      <4> QED BY <1>2, <1>3, <1>7, <2>1, <4>1, <4>2 DEF Effect
    <3>2. ASSUME NEW q \in Place \ c PROVE state[q] = old[q]
      BY <1>2, <1>3, <1>7 DEF Effect
    <3> QED BY <3>1, <3>2
  <2>3. (IF mutex = NoOp THEN state ELSE before[2])' = Atomic!With(c, s)
    BY <1>4, <1>5, <2>2
  <2>4. CASE call[o].kind = "start"
    <3>1. /\ jobs' = J \cup {c} /\ c # {} /\ c \cap UNION J = {} /\ s = "running"
      BY <1>1, <1>2, <1>3, <2>1, <2>4, AfterKinds DEF Section
    <3>2. c \in (SUBSET (Place \ UNION J)) \ {{}}
      BY <1>4, <3>1
    <3> QED BY <1>1, <1>2, <1>3, <2>3, <3>1, <3>2 DEF Atomic!Start
  <2>5. CASE call[o].kind = "stop"
    <3>1. jobs' = J \ {c} /\ c \in J /\ s = "none"
      BY <1>1, <1>2, <1>3, <2>1, <2>5, AfterKinds DEF Section
    <3> QED BY <1>1, <1>2, <1>3, <2>3, <3>1 DEF Atomic!Stop
  <2> QED BY <1>7, <2>4, <2>5
<1> QED BY <1>4, <1>6, <1>7 DEF Kinds

LEMMA AtomicStep ==
  Inv /\ [Next]_vars =>
    [Atomic!Suspend \/ Atomic!Resume \/ Atomic!Start \/ Atomic!Stop]_Atomic!vars
<1> DEFINE AtomicNext == Atomic!Suspend \/ Atomic!Resume \/ Atomic!Start \/ Atomic!Stop
<1> SUFFICES ASSUME Inv, [Next]_vars PROVE AtomicNext \/ UNCHANGED Atomic!vars
  OBVIOUS
<1> USE DEF ctl
<1>1. CASE ~aborted /\ \E o \in Op : Return(o)
  BY <1>1, AtomicReturn
<1>2. CASE \E o \in Op : Lock(o)
  <2>1. PICK o \in Op : Lock(o)
    BY <1>2
  <2>2. mutex = NoOp /\ mutex' # NoOp /\ before' = <<jobs, state>>
    BY <2>1 DEF Lock, Op, NoOp
  <2> QED BY <2>2 DEF Atomic!vars
<1>3. CASE \E o \in Op : Send(o) \/ AllSent(o) \/ SkipResult(o) \/ WaitForMessage(o)
                         \/ get_message(o) \/ WakeUp(o)
  BY <1>3, AtomicStutter
     DEF Send, AllSent, SkipResult, WaitForMessage, get_message, WakeUp
<1>4. CASE Work
  <2>1. mutex # NoOp
    BY <1>4, QuietWithoutHolder DEF Work
  <2> QED BY <1>4, <2>1, AtomicStutter DEF Work, Agent
<1>5. CASE Deliver \/ \E m \in Machine : Crash(m)
  BY <1>5, AtomicStutter DEF Deliver, add_message, Crash
<1>6. CASE UNCHANGED vars
  BY <1>6, AtomicStutter DEF vars
<1> QED BY <1>1, <1>2, <1>3, <1>4, <1>5, <1>6 DEF Next, Thread

(* To the rest of the program an exchange of tasks and results with the    *)
(* agents is one atomic operation on the domains.                          *)
THEOREM RequestsAreAtomic == Spec => ImplementsAtomicRequests
BY AtomicInit, AtomicStep, InvHolds, PTL DEF Spec, ImplementsAtomicRequests, Atomic!Spec
===============================================================================
