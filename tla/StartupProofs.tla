----------------------------- MODULE StartupProofs -----------------------------
(***************************************************************************)
(* What Startup guarantees to the scheduler, for every machine file, pool  *)
(* and command line: the topics it waits on are subscribed, and the        *)
(* virtual machines that run are the ones it was told of.                  *)
(***************************************************************************)
EXTENDS Startup, Loops

(* pop_front() has taken two VMs for each machine that has its own, in the *)
(* order of the pool.                                                      *)
Taken ==
    /\ vm_locations \in Seq(Nat \X Nat)
    /\ Len(vm_locations) <= Len(machines)
    /\ \A i \in 1 .. Len(vm_locations) : vm_locations[i] = <<2 * i - 1, 2 * i>>
    /\ pool \in Seq(Nat)
    /\ Len(pool) = PoolSize - 2 * Len(vm_locations)
    /\ \A k \in 1 .. Len(pool) : pool[k] = 2 * Len(vm_locations) + k

(* The VMs that run on the machines of the file are those given to them.   *)
Pairs(n, p) == {<<e[1], p[e[1]][e[2]]>> : e \in (1 .. n) \X (1 .. 2)}

OnlyOurs == {r \in running : r[1] \in Index} = Pairs(Len(vm_locations), vm_locations)

(* The places in main() before the controller exists, and those at which   *)
(* all VMs are started.                                                    *)
Before == {"options", "load", "controller"}
Ready  == {"subscribe"} \cup Schedulers

Inv ==
    /\ file \in MachineFiles
    /\ machines \in Seq({"host", "blank"})
    /\ pc \in Before \cup {"stop"} => pool = glob_vm_pool /\ vm_locations = <<>>
    /\ pc \in {"stop", "start"} => use_vms
    /\ pc \in {"start"} \cup Ready /\ use_vms /\ 2 * Len(machines) <= PoolSize =>
            Taken /\ OnlyOurs
    /\ pc = "abort_pool" => 2 * Len(machines) > PoolSize
    /\ pc \in Ready /\ use_vms => Len(vm_locations) = Len(machines)
    /\ TopicsSubscribed

-------------------------------------------------------------------------------
(* The lines that read_file keeps are a list of machines.                  *)
LEMMA HostsType ==
  ASSUME file \in MachineFiles
  PROVE  Hosts \in Seq({"host", "blank"})
<1>0. file.lines \in Seq({"host", "comment", "blank"})
  BY MachineFilesAssumption
<1>a. PICK lines : lines = file.lines
  OBVIOUS
<1>b. PICK N : N = Len(lines)
  OBVIOUS
<1>c. PICK S : S = Seq({"host", "blank"})
  OBVIOUS
<1>1. /\ N \in Nat /\ \A n \in 1 .. N : lines[n] \in {"host", "comment", "blank"}
      /\ <<>> \in S /\ \A q \in S, l \in {"host", "blank"} : Append(q, l) \in S
  BY <1>0, <1>a, <1>b, <1>c
<1>2. PICK step : step = [n \in 1 .. N |-> [q \in S |->
                            IF lines[n] = "comment" THEN q ELSE Append(q, lines[n])]]
  OBVIOUS
<1>3. step \in [1 .. N -> [S -> S]]
  <2> SUFFICES ASSUME NEW n \in 1 .. N, NEW q \in S
               PROVE  (IF lines[n] = "comment" THEN q ELSE Append(q, lines[n])) \in S
    BY <1>2
  <2>1. lines[n] \in {"host", "comment", "blank"}
    BY <1>1
  <2> QED BY <1>1, <2>1
<1>4. PICK t \in [0 .. N -> S] :
            t[0] = <<>> /\ \A n \in 1 .. N : t[n] = step[n][t[n - 1]]
  <2>1. N \in Nat /\ <<>> \in S /\ step \in Loop(N, S)
    BY <1>1, <1>3 DEF Loop
  <2>2. PICK t : Run(t, N, S, <<>>, step)
    BY <2>1, RoundsExist
  <2> QED BY <2>2 DEF Run
<1>5. \A n \in 1 .. N : t[n] = IF lines[n] = "comment" THEN t[n - 1] ELSE Append(t[n - 1], lines[n])
  <2> SUFFICES ASSUME NEW n \in 1 .. N
               PROVE  t[n] = IF lines[n] = "comment" THEN t[n - 1] ELSE Append(t[n - 1], lines[n])
    OBVIOUS
  <2>1. n - 1 \in 0 .. N
    BY <1>1
  <2>2. t[n - 1] \in S /\ t[n] = step[n][t[n - 1]]
    BY <1>4, <2>1
  <2> QED BY <1>2, <2>2
<1> DEFINE Body(u) == [n \in 0 .. N |->
                        IF n = 0 THEN <<>>
                        ELSE IF lines[n] = "comment" THEN u[n - 1]
                        ELSE Append(u[n - 1], lines[n])]
<1>6. t = Body(t)
  <2>1. ASSUME NEW n \in 0 .. N PROVE t[n] = Body(t)[n]
    <3>1. CASE n = 0
      BY <1>1, <1>4, <3>1
    <3>2. CASE n # 0
      <4>1. n \in 1 .. N
        BY <1>1, <3>2
      <4> QED BY <1>5, <3>2, <4>1
    <3> QED BY <3>1, <3>2
  <2> QED BY <1>4, <2>1
<1>7. PICK h : h = CHOOSE u : u = Body(u)
  OBVIOUS
<1>8. h = Body(h)
  <2> HIDE DEF Body
  <2> QED BY <1>6, <1>7
<1>9. Hosts = h[N]
  BY <1>a, <1>b, <1>7 DEF Hosts
<1>10. h[0] = <<>> /\ \A n \in 1 .. N : h[n] = IF lines[n] = "comment" THEN h[n - 1]
                                               ELSE Append(h[n - 1], lines[n])
  <2> DEFINE Round(n) == IF n = 0 THEN <<>>
                         ELSE IF lines[n] = "comment" THEN h[n - 1]
                         ELSE Append(h[n - 1], lines[n])
  <2>1. \A n \in 0 .. N : h[n] = Round(n)
    <3> HIDE DEF Round
    <3>1. h = [n \in 0 .. N |-> Round(n)]
      BY <1>8 DEF Round
    <3> QED BY <3>1
  <2> QED BY <1>1, <2>1
<1>11. \A n \in 0 .. N : h[n] \in S
  <2>1. PICK G : G = {n \in 0 .. N : h[n] \in S}
    OBVIOUS
  <2>2. 0 \in G
    BY <1>1, <1>10, <2>1
  <2>3. ASSUME NEW n \in 1 .. N, n - 1 \in G PROVE n \in G
    <3>1. lines[n] \in {"host", "comment", "blank"} /\ n \in 0 .. N
      BY <1>1
    <3> QED BY <1>1, <1>10, <2>1, <2>3, <3>1
  <2>4. \A n \in 0 .. N : n \in G
    BY <1>1, <2>2, <2>3, UpTo
  <2> QED BY <2>1, <2>4
<1> QED BY <1>1, <1>c, <1>9, <1>11

-------------------------------------------------------------------------------
LEMMA InvInit == Init => Inv
<1> SUFFICES ASSUME Init PROVE Inv
  OBVIOUS
<1>1. <<>> \in Seq({"host", "blank"}) /\ Len(<<>>) = 0
  OBVIOUS
<1>2. TopicsSubscribed
  BY DEF Init, TopicsSubscribed, Schedulers
<1> QED BY <1>1, <1>2 DEF Init, Inv, Before, Ready, Schedulers

(* The steps before the controller exists leave everything but the options *)
(* and the place in main() alone.                                          *)
LEMMA EarlySteps ==
  ASSUME Inv, pc \in {"options", "load"},
         pc' \in {"options", "load", "controller", "help", "abort_stoul", "abort_load"},
         UNCHANGED <<file, machines, topics, pool, running, vm_locations>>
  PROVE  Inv'
<1> USE DEF Inv, Before, Ready, Schedulers
<1>1. TopicsSubscribed'
  BY DEF TopicsSubscribed
<1>2. glob_vm_pool' = glob_vm_pool
  BY DEF glob_vm_pool
<1> QED BY <1>1, <1>2

(* The steps to an end, and those that only go on: what they need of the   *)
(* places in main() they lead from and to.                                 *)
NotRead == Before \cup {"help", "abort_stoul", "abort_load", "abort_file"}

GoesOn ==
    /\ pc' \notin {"stop", "start", "abort_pool"} \cup NotRead \/ pc' = pc
    /\ pc' \in Schedulers => pc \in Schedulers \/ {<<"response", i>> : i \in Index} \subseteq topics'
    /\ pc' \in Ready /\ use_vms => pc \in Ready \/ (pc = "start" /\ Len(vm_locations) = Len(machines))
    /\ pc \in NotRead => pc' \in NotRead

LEMMA LateSteps ==
  ASSUME Inv, UNCHANGED <<opts, file, machines, pool, running, vm_locations>>,
         topics \subseteq topics', GoesOn
  PROVE  Inv'
<1> USE DEF Inv, Before, Ready, Schedulers, GoesOn, NotRead
<1>1. Index' = Index /\ use_vms' = use_vms /\ glob_vm_pool' = glob_vm_pool
  BY DEF Index, use_vms, glob_vm_pool
<1>2. Taken' = Taken /\ OnlyOurs' = OnlyOurs
  BY <1>1 DEF Taken, OnlyOurs
<1>3. TopicsSubscribed'
  BY <1>1 DEF TopicsSubscribed
<1> QED BY <1>1, <1>2, <1>3

(* The controller reads the machine file.                                  *)
LEMMA ControllerStep ==
  ASSUME Inv, new_controller
  PROVE  Inv'
<1> USE DEF new_controller, Inv, Before, Ready, Schedulers
<1>1. use_vms' = use_vms /\ glob_vm_pool' = glob_vm_pool
  BY DEF use_vms, glob_vm_pool
<1>2. CASE ReadAsserts
  <2>1. machines' \in Seq({"host", "blank"})
    BY <1>2, HostsType
  <2>2. pc' = IF use_vms THEN "stop" ELSE "subscribe"
    BY <1>2
  <2>3. TopicsSubscribed'
    <3>1. Index' = 1 .. Len(Hosts)
      BY <1>2 DEF Index
    <3>2. {<<"result", i>> : i \in 1 .. Len(Hosts)} \subseteq topics'
      BY <1>2
    <3> QED BY <2>2, <3>1, <3>2 DEF TopicsSubscribed
  <2> QED BY <1>1, <2>1, <2>2, <2>3
<1>3. CASE ~ReadAsserts
  <2>1. TopicsSubscribed'
    BY <1>3 DEF TopicsSubscribed
  <2> QED BY <1>1, <1>3, <2>1
<1> QED BY <1>2, <1>3

(* All VMs of the machines are stopped; at first no machine has its own.   *)
LEMMA StopStep ==
  ASSUME Inv, stop_all_VMs("stop", "start") \/ stop_all_VMs("dismantle", "exit")
  PROVE  Inv'
<1> USE DEF Inv, Before, Ready, Schedulers
<1>1. UNCHANGED <<opts, file, machines, topics, pool, vm_locations>>
  BY DEF stop_all_VMs
<1>2. /\ use_vms' = use_vms /\ glob_vm_pool' = glob_vm_pool /\ Index' = Index
      /\ Len(machines) \in Nat
  BY <1>1 DEF use_vms, glob_vm_pool, Index
<1>3. /\ pc' \in {"start", "exit", "abort_agent"} /\ pc \in {"stop", "dismantle"}
      /\ pc' = "start" => pc = "stop"
  BY DEF stop_all_VMs
<1>4. TopicsSubscribed'
  BY <1>1, <1>2, <1>3 DEF TopicsSubscribed
<1>5. ASSUME pc' = "start" PROVE use_vms' /\ (2 * Len(machines) <= PoolSize => Taken' /\ OnlyOurs')
  <2>1. pool = glob_vm_pool /\ vm_locations = <<>> /\ use_vms
    BY <1>3, <1>5
  <2>2. PICK ok \in [Index -> BOOLEAN] :
            /\ running' = {r \in running : r[1] \in Index => ~ok[r[1]]}
            /\ \A i \in Index : ok[i]
    BY <1>5 DEF stop_all_VMs
  <2>3. {r \in running' : r[1] \in Index} = {}
    BY <2>2
  <2>4. Len(vm_locations) = 0 /\ 1 .. 0 = {}
    BY <2>1
  <2>5. OnlyOurs'
    BY <1>1, <1>2, <2>3, <2>4 DEF OnlyOurs, Pairs
  <2>6. Taken'
    <3>1. vm_locations \in Seq(Nat \X Nat)
      BY <2>1
    <3>2. pool \in Seq(Nat) /\ Len(pool) = PoolSize /\ \A k \in 1 .. Len(pool) : pool[k] = k
      BY <2>1, PoolSizeAssumption DEF glob_vm_pool
    <3> QED BY <1>1, <1>2, <2>4, <3>1, <3>2, PoolSizeAssumption DEF Taken
  <2> QED BY <1>2, <2>1, <2>5, <2>6
<1> QED BY <1>1, <1>2, <1>3, <1>4, <1>5

(* The VMs of k + 1 machines are those of the first k and two more.        *)
LEMMA OneMore ==
  ASSUME NEW k \in Nat, NEW p, NEW q, \A i \in 1 .. k : q[i] = p[i]
  PROVE  Pairs(k + 1, q) = Pairs(k, p) \cup {<<k + 1, q[k + 1][1]>>, <<k + 1, q[k + 1][2]>>}
<1>1. PICK Old : Old = Pairs(k, p)
  OBVIOUS
<1>2. PICK New : New = Pairs(k + 1, q)
  OBVIOUS
<1>3. ASSUME NEW r \in New
      PROVE  r \in Old \cup {<<k + 1, q[k + 1][1]>>, <<k + 1, q[k + 1][2]>>}
  <2>1. PICK i \in 1 .. k + 1, s \in 1 .. 2 : r = <<i, q[i][s]>>
    BY <1>2, <1>3, Zenon DEF Pairs
  <2>2. CASE i = k + 1
    <3>1. s = 1 \/ s = 2
      OBVIOUS
    <3> QED BY <2>1, <2>2, <3>1
  <2>3. CASE i # k + 1
    <3>1. i \in 1 .. k
      BY <2>3
    <3>2. r = <<i, p[i][s]>>
      BY <2>1, <3>1
    <3>3. r \in Old
      <4>1. <<i, s>> \in (1 .. k) \X (1 .. 2)
        BY <3>1
      <4> QED BY <1>1, <3>2, <4>1 DEF Pairs
    <3> QED BY <3>3
  <2> QED BY <2>2, <2>3
<1>4. ASSUME NEW r \in Old PROVE r \in New
  <2>1. PICK i \in 1 .. k, s \in 1 .. 2 : r = <<i, p[i][s]>>
    BY <1>1, <1>4, Zenon DEF Pairs
  <2>2. i \in 1 .. k + 1 /\ r = <<i, q[i][s]>>
    BY <2>1
  <2>3. <<i, s>> \in (1 .. k + 1) \X (1 .. 2)
    BY <2>2
  <2> QED BY <1>2, <2>2, <2>3 DEF Pairs
<1>5. <<k + 1, q[k + 1][1]>> \in New /\ <<k + 1, q[k + 1][2]>> \in New
  <2>1. <<k + 1, 1>> \in (1 .. k + 1) \X (1 .. 2) /\ <<k + 1, 2>> \in (1 .. k + 1) \X (1 .. 2)
    OBVIOUS
  <2> QED BY <1>2, <2>1 DEF Pairs
<1>6. New = Old \cup {<<k + 1, q[k + 1][1]>>, <<k + 1, q[k + 1][2]>>}
  BY <1>3, <1>4, <1>5
<1> QED BY <1>1, <1>2, <1>6

(* The next machine is given the first two VMs of the pool.                *)
LEMMA StartStep ==
  ASSUME Inv, start_on
  PROVE  Inv'
<1> USE DEF Inv, Before, Ready, Schedulers
<1>0. UNCHANGED <<opts, file, machines, topics>> /\ pc = "start" /\ pc' \in {"start", "abort_pool"}
  BY DEF start_on
<1>1. /\ use_vms' = use_vms /\ use_vms /\ Index' = Index /\ Index = 1 .. Len(machines)
      /\ Len(machines) \in Nat
  BY <1>0 DEF use_vms, Index
<1>2. TopicsSubscribed'
  BY <1>0, <1>1 DEF TopicsSubscribed
<1>3. ASSUME pc' = "start", 2 * Len(machines) <= PoolSize
      PROVE  Taken' /\ OnlyOurs'
  <2>1. Taken /\ OnlyOurs
    BY <1>0, <1>1, <1>3
  <2>2. PICK k \in Nat : k = Len(vm_locations) /\ k < Len(machines)
    BY <2>1 DEF Taken, start_on
  <2>3. PICK first, second, rest : /\ first = 2 * k + 1 /\ second = 2 * k + 2
                                   /\ rest = Tail(Tail(pool))
    OBVIOUS
  <2>4. Len(pool) \in Nat /\ Len(pool) >= 2 /\ pool \in Seq(Nat)
    BY <1>1, <1>3, <2>1, <2>2, PoolSizeAssumption DEF Taken
  <2>5. pool # <<>> /\ Tail(pool) # <<>> /\ Tail(pool) \in Seq(Nat) /\ Len(Tail(pool)) = Len(pool) - 1
    <3>1. \A q \in Seq(Nat) : Len(q) >= 1 => /\ q # <<>> /\ Tail(q) \in Seq(Nat)
                                             /\ Len(Tail(q)) = Len(q) - 1
      OBVIOUS
    <3>2. pool # <<>> /\ Tail(pool) \in Seq(Nat) /\ Len(Tail(pool)) = Len(pool) - 1
      BY <2>4, <3>1
    <3>3. PICK q \in Seq(Nat) : q = Tail(pool)
      BY <3>2
    <3>4. Len(q) >= 1
      BY <2>4, <3>2, <3>3
    <3>5. Tail(pool) # <<>>
      BY <3>1, <3>3, <3>4
    <3> QED BY <3>2, <3>5
  <2>6. Head(pool) = first /\ Head(Tail(pool)) = second
    <3>1. pool[1] = first /\ pool[2] = second
      BY <2>1, <2>2, <2>3, <2>4 DEF Taken
    <3> QED BY <2>4, <2>5, <3>1
  <2>7. /\ rest \in Seq(Nat) /\ Len(rest) = Len(pool) - 2
        /\ \A i \in 1 .. Len(rest) : rest[i] = pool[i + 2]
    BY <2>3, <2>4, <2>5
  <2>8. /\ pool' = rest
        /\ vm_locations' = Append(vm_locations, <<first, second>>)
        /\ running' = running \cup {<<k + 1, first>>, <<k + 1, second>>}
    BY <1>3, <2>2, <2>3, <2>5, <2>6, Zenon DEF start_on, TakeVM
  <2>9. /\ vm_locations' \in Seq(Nat \X Nat) /\ Len(vm_locations') = k + 1
        /\ vm_locations'[k + 1] = <<first, second>>
        /\ \A i \in 1 .. k : vm_locations'[i] = vm_locations[i]
    <3>1. <<first, second>> \in Nat \X Nat
      BY <2>3
    <3> QED BY <2>1, <2>2, <2>8, <3>1 DEF Taken
  <2>10. Taken'
    <3>1. ASSUME NEW i \in 1 .. k + 1
          PROVE  vm_locations'[i] = <<2 * i - 1, 2 * i>>
      <4>1. CASE i = k + 1
        <5>1. first = 2 * i - 1 /\ second = 2 * i
          BY <2>3, <4>1
        <5> QED BY <2>9, <4>1, <5>1
      <4>2. CASE i # k + 1
        <5>1. i \in 1 .. k
          BY <4>2
        <5> QED BY <2>1, <2>2, <2>9, <5>1 DEF Taken
      <4> QED BY <4>1, <4>2
    <3>2. ASSUME NEW i \in 1 .. Len(rest)
          PROVE  rest[i] = 2 * (k + 1) + i
      <4>0. Len(rest) \in Nat
        BY <2>7
      <4>1. i + 2 \in 1 .. Len(pool) /\ i \in Nat
        BY <2>4, <2>7, <4>0
      <4>2. pool[i + 2] = 2 * k + (i + 2)
        BY <2>1, <2>2, <4>1 DEF Taken
      <4> QED BY <2>7, <4>1, <4>2
    <3>3. Len(rest) = PoolSize - 2 * (k + 1)
      BY <2>1, <2>2, <2>7, PoolSizeAssumption DEF Taken
    <3>4. pool' \in Seq(Nat) /\ Len(pool') = PoolSize - 2 * Len(vm_locations')
      BY <2>7, <2>8, <2>9, <3>3
    <3>5. Len(vm_locations') <= Len(machines')
      BY <1>0, <1>1, <2>2, <2>9
    <3>6. \A i \in 1 .. Len(vm_locations') : vm_locations'[i] = <<2 * i - 1, 2 * i>>
      BY <2>9, <3>1
    <3>7. \A i \in 1 .. Len(pool') : pool'[i] = 2 * Len(vm_locations') + i
      BY <2>8, <2>9, <3>2
    <3> QED BY <2>9, <3>4, <3>5, <3>6, <3>7, Zenon DEF Taken
  <2>11. OnlyOurs'
    <3>1. {r \in running' : r[1] \in Index}
            = {r \in running : r[1] \in Index} \cup {<<k + 1, first>>, <<k + 1, second>>}
      <4>1. k + 1 \in Index
        BY <1>1, <2>2
      <4> QED BY <2>8, <4>1
    <3>2. Pairs(k + 1, vm_locations')
            = Pairs(k, vm_locations) \cup {<<k + 1, first>>, <<k + 1, second>>}
      <4>1. vm_locations'[k + 1][1] = first /\ vm_locations'[k + 1][2] = second
        BY <2>9
      <4>2. PICK p, q : p = vm_locations /\ q = vm_locations'
        OBVIOUS
      <4>3. \A i \in 1 .. k : q[i] = p[i]
        BY <2>9, <4>2
      <4>4. Pairs(k + 1, q) = Pairs(k, p) \cup {<<k + 1, q[k + 1][1]>>, <<k + 1, q[k + 1][2]>>}
        BY <4>3, OneMore, Zenon
      <4> QED BY <4>1, <4>2, <4>4
    <3> QED BY <1>1, <2>1, <2>2, <2>9, <3>1, <3>2 DEF OnlyOurs
  <2> QED BY <2>10, <2>11
<1>4. ASSUME pc' = "abort_pool" PROVE 2 * Len(machines) > PoolSize
  <2> SUFFICES ASSUME 2 * Len(machines) <= PoolSize PROVE FALSE
    BY <1>1, PoolSizeAssumption
  <2>1. Taken
    BY <1>0, <1>1
  <2>2. PICK k \in Nat : k = Len(vm_locations) /\ k < Len(machines)
    BY <2>1 DEF Taken, start_on
  <2>3. Len(pool) >= 2
    BY <1>1, <2>1, <2>2, PoolSizeAssumption DEF Taken
  <2>4. Len(pool) \in Nat /\ Len(pool) < 2
    BY <1>0, <1>4, <2>1 DEF start_on, Taken
  <2> QED BY <2>3, <2>4
<1> QED BY <1>0, <1>1, <1>2, <1>3, <1>4

LEMMA InvNext == Inv /\ [Next]_vars => Inv'
<1> SUFFICES ASSUME Inv, [Next]_vars PROVE Inv'
  OBVIOUS
<1>1. CASE ParseSwitch \/ ParseValue \/ ParseLast \/ EndOptions \/ load
  <2>1. /\ pc \in {"options", "load"}
        /\ pc' \in {"options", "load", "controller", "help", "abort_stoul", "abort_load"}
        /\ UNCHANGED <<file, machines, topics, pool, running, vm_locations>>
    BY <1>1 DEF ParseSwitch, ParseValue, ParseLast, EndOptions, load
  <2> QED BY <2>1, EarlySteps
<1>2. CASE new_controller
  BY <1>2, ControllerStep
<1>3. CASE stop_all_VMs("stop", "start") \/ stop_all_VMs("dismantle", "exit")
  BY <1>3, StopStep
<1>4. CASE start_on
  BY <1>4, StartStep
<1>5. CASE started
  <2>1. GoesOn
    BY <1>5 DEF started, GoesOn, NotRead, Before, Ready, Schedulers
  <2> QED BY <1>5, <2>1, LateSteps DEF started
<1>6. CASE subscribe
  <2>1. pc' \in Schedulers /\ pc = "subscribe"
    BY <1>6 DEF subscribe, Schedulers, ChooseScheduler
  <2>2. {<<"response", i>> : i \in Index} \subseteq topics' /\ topics \subseteq topics'
    BY <1>6 DEF subscribe
  <2>3. GoesOn
    <3>1. /\ pc' \notin {"stop", "start", "abort_pool"} \cup NotRead
          /\ pc \in Ready /\ pc \notin NotRead
      BY <2>1 DEF NotRead, Before, Ready, Schedulers
    <3> QED BY <2>2, <3>1 DEF GoesOn
  <2>4. UNCHANGED <<opts, file, machines, pool, running, vm_locations>>
    BY <1>6 DEF subscribe
  <2> QED BY <2>2, <2>3, <2>4, LateSteps
<1>7. CASE schedule
  <2>1. GoesOn
    BY <1>7 DEF schedule, GoesOn, NotRead, Before, Ready, Schedulers
  <2> QED BY <1>7, <2>1, LateSteps DEF schedule
<1>8. CASE UNCHANGED vars
  <2>1. UNCHANGED <<pc, opts, file, machines, topics, pool, running, vm_locations>>
    BY <1>8 DEF vars
  <2>2. GoesOn
    BY <2>1 DEF GoesOn, Schedulers, Ready, Inv
  <2> QED BY <2>1, <2>2, LateSteps
<1> QED BY <1>1, <1>2, <1>3, <1>4, <1>5, <1>6, <1>7, <1>8 DEF Next

(* The invariant of main(): the VMs are taken from the pool in its order.  *)
THEOREM InvHolds == Spec => []Inv
<1> QED BY InvInit, InvNext, PTL DEF Spec

-------------------------------------------------------------------------------
(* Every topic that is waited on is subscribed before, whatever the file   *)
(* and the options are.                                                    *)
THEOREM TopicsAreSubscribed == Spec => []TopicsSubscribed
<1>1. Inv => TopicsSubscribed
  BY DEF Inv
<1> QED BY <1>1, InvHolds, PTL

(* The pairs taken for n machines are 2 * n different VMs.                 *)
LEMMA TwoEach ==
  ASSUME NEW n \in Nat, NEW q, \A i \in 1 .. n : q[i][1] = 2 * i - 1 /\ q[i][2] = 2 * i
  PROVE  Cardinality({q[e[1]][e[2]] : e \in (1 .. n) \X (1 .. 2)}) = 2 * n
<1>1. PICK V : V = {q[e[1]][e[2]] : e \in (1 .. n) \X (1 .. 2)}
  OBVIOUS
<1>2. ASSUME NEW v \in V PROVE v \in 1 .. 2 * n
  <2>1. PICK i \in 1 .. n, s \in 1 .. 2 : v = q[i][s]
    BY <1>1, <1>2, Zenon
  <2>2. s = 1 \/ s = 2
    OBVIOUS
  <2>3. v = 2 * i - 1 \/ v = 2 * i
    BY <2>1, <2>2
  <2> QED BY <2>3
<1>3. ASSUME NEW v \in 1 .. 2 * n PROVE v \in V
  <2>1. CASE v % 2 = 0
    <3>1. PICK i \in 1 .. n : v = 2 * i
      <4>1. v \div 2 \in 1 .. n /\ v = 2 * (v \div 2)
        BY <2>1
      <4> QED BY <4>1
    <3>2. v = q[i][2] /\ <<i, 2>> \in (1 .. n) \X (1 .. 2)
      BY <3>1
    <3> QED BY <1>1, <3>2
  <2>2. CASE v % 2 # 0
    <3>1. PICK i \in 1 .. n : v = 2 * i - 1
      <4>1. (v + 1) \div 2 \in 1 .. n /\ v = 2 * ((v + 1) \div 2) - 1
        BY <2>2
      <4> QED BY <4>1
    <3>2. v = q[i][1] /\ <<i, 1>> \in (1 .. n) \X (1 .. 2)
      BY <3>1
    <3> QED BY <1>1, <3>2
  <2> QED BY <2>1, <2>2
<1>4. V = 1 .. 2 * n
  BY <1>2, <1>3
<1>5. Cardinality(1 .. 2 * n) = 2 * n
  BY FS_Interval
<1> QED BY <1>1, <1>4, <1>5, Zenon

(* The scheduler finds exactly the VMs it was told of, each in one slot,   *)
(* for every number of machines the pool is large enough for; and such a   *)
(* pool is never found empty.                                              *)
THEOREM SlotsHaveTheirVMs == Spec => []VMsMatchSlots
<1>1. ASSUME Inv PROVE VMsMatchSlots
  <2>0. pc = "abort_pool" => ~(2 * Len(machines) <= PoolSize)
    BY <1>1, PoolSizeAssumption DEF Inv
  <2> SUFFICES ASSUME pc \in Schedulers, use_vms, 2 * Len(machines) <= PoolSize
               PROVE  /\ {r \in running : r[1] \in Index} =
                            {<<e[1], vm_locations[e[1]][e[2]]>> : e \in Index \X (1 .. 2)}
                      /\ Cardinality({vm_locations[e[1]][e[2]] : e \in Index \X (1 .. 2)})
                            = 2 * Len(machines)
    BY <2>0 DEF VMsMatchSlots
  <2>1. Taken /\ OnlyOurs /\ Len(vm_locations) = Len(machines) /\ Len(machines) \in Nat
    BY <1>1 DEF Inv, Ready
  <2>2. Index = 1 .. Len(vm_locations)
    BY <2>1 DEF Index
  <2>3. \A i \in 1 .. Len(machines) : /\ vm_locations[i][1] = 2 * i - 1
                                        /\ vm_locations[i][2] = 2 * i
    BY <2>1 DEF Taken
  <2>4. Cardinality({vm_locations[e[1]][e[2]] : e \in (1 .. Len(machines)) \X (1 .. 2)})
            = 2 * Len(machines)
    BY <2>1, <2>3, TwoEach
  <2> QED BY <2>1, <2>2, <2>4, Zenon DEF OnlyOurs, Pairs
<1> QED BY <1>1, InvHolds, PTL

===============================================================================
