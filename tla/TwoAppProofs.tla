----------------------------- MODULE TwoAppProofs -----------------------------
(***************************************************************************)
(* The safety properties of TwoApp for every cluster, every queue and      *)
(* whatever distgen measures.  What is said about the aborts and about     *)
(* nobody staying frozen holds with cgroups; with VMs, a VM may be left    *)
(* suspended and be given to another job.                                  *)
(*                                                                         *)
(* Two arguments carry the inductive invariant.  First, the markers of the *)
(* scheduler are wrong in general (the callback takes a job id for a       *)
(* slot), but only in one direction: an unmarked slot is free on every     *)
(* machine, because the two jobs whose ids are slots really got these      *)
(* slots (Markers).  Second, the mutex is held from the start of a job     *)
(* until the scheduler waits again, so nobody is cleaned up while he is    *)
(* frozen on behalf of a measurement (Frozenness).                         *)
(***************************************************************************)
EXTENDS TwoApp, ControllerProofs

LoopPoints == {"freeze_old", "distgen", "thaw_old", "decide", "yield"}

(* Where the newest job is being placed beside the old one; it has its     *)
(* slots all the time, except in the last of these places.                 *)
Measuring == pc \in {"freeze_old", "distgen", "thaw_old", "decide"}

Bookkeeping ==
    /\ pc = "init" => cmd_counter = 0 /\ suspended = {}
    /\ Alive /\ cv # "running" => pc \in {"acquire", "yield", "done"}
    /\ owns
    /\ Measuring => Active(job_id)
    /\ UseVMs /\ pc \notin {"init", "destroy", "exit"} => domains = Elem

(* Every job has one slot of every machine, the same on all of them.       *)
WholeColumns ==
    \A j \in JobId : j < cmd_counter => \E s \in Slot : id_to_config[j] = Config(s)

Markers ==
    /\ \A s \in Unmarked : \A m \in Machine : machine_usage[<<m, s>>] = Empty
    /\ \A j \in JobId : j \in Slot /\ j < cmd_counter => id_to_config[j] = Config(j)
    /\ cmd_counter <= 2 => \A s \in Slot \ Unmarked : s < cmd_counter /\ Active(s)

(* Nobody can interrupt the scheduler between the first two jobs, so the   *)
(* second gets slot 1; only with two markers a job is frozen.              *)
Order ==
    /\ cmd_counter = 1 /\ (pc \in {"acquire", "yield"} \/ Measuring) =>
            Unmarked = {1} /\ cv = "running"
    /\ pc \in {"decide", "yield"} => cmd_counter >= 2

(* With cgroups: which cgroups may be suspended at which point.            *)
Frozenness ==
    /\ \A x, y \in suspended : x[2] = y[2]
    /\ pc \in {"distgen", "thaw_old"} =>
        /\ suspended \subseteq {CgroupAt(e) : e \in InUse(generate_opposing_config(job_id))}
        /\ ~TwoInUse => suspended = {}
    /\ pc = "yield" =>
        /\ suspended \subseteq {<<e[1], job_id>> : e \in id_to_config[job_id]}
        /\ ~Active(job_id) => suspended = {}
    /\ NothingStaysFrozen

Inv ==
    /\ TypeOK
    /\ Tables
    /\ Mutex
    /\ Bookkeeping
    /\ WholeColumns
    /\ Markers
    /\ Order
    /\ NoLostWakeup
    /\ SafeTeardown
    /\ ~UseVMs => Frozenness /\ AbortsExplained

-------------------------------------------------------------------------------
(* A slot of a machine is an element of the tables, and so is the other.   *)
LEMMA Elements ==
  /\ \A m \in Machine, s \in Slot : <<m, s>> \in Elem
  /\ \A e \in Elem : Opposing(e) \in Elem
  /\ \A s \in Slot : Config(s) \in (SUBSET Elem) \ {{}}
<1>1. \A m \in Machine, s \in Slot : <<m, s>> \in Elem
  BY DEF Elem
<1>2. ASSUME NEW e \in Elem PROVE Opposing(e) \in Elem
  <2>1. e[1] \in Machine /\ (e[2] = 0 \/ e[2] = 1)
    BY DEF Elem, Slot
  <2>2. (0 + 1) % 2 = 1 /\ (1 + 1) % 2 = 0
    OBVIOUS
  <2>3. (e[2] + 1) % 2 = 0 \/ (e[2] + 1) % 2 = 1
    BY <2>1, <2>2
  <2> QED BY <2>1, <2>3 DEF Opposing, Elem, Slot
<1>3. ASSUME NEW s \in Slot PROVE Config(s) \in (SUBSET Elem) \ {{}}
  <2>1. 0 \in Machine
    BY NMachinesAssumption DEF Machine
  <2>2. <<0, s>> \in Config(s)
    BY <2>1 DEF Config
  <2>3. Config(s) \subseteq Elem
    BY DEF Config, Elem
  <2> QED BY <2>2, <2>3
<1> QED BY <1>1, <1>2, <1>3

(* wait_for_ressource() returns if there is a free slot on every machine.  *)
LEMMA RoomOnEveryMachine ==
  ASSUME \A m \in Machine : \E s \in Slot : machine_usage[<<m, s>>] = Empty
  PROVE  RessourceFree(Width, 1)
<1>1. ASSUME NEW m \in Machine PROVE Cardinality(FreeSlots(m)) >= 1
  <2>1. FreeSlots(m) # {} /\ FreeSlots(m) \subseteq Slot
    BY DEF FreeSlots
  <2>2. IsFiniteSet(FreeSlots(m))
    BY <2>1, SlotIsPair, FS_Subset
  <2>3. Cardinality(FreeSlots(m)) \in Nat /\ Cardinality(FreeSlots(m)) # 0
    BY <2>1, <2>2, FS_CardinalityType, FS_EmptySet
  <2> QED BY <2>3
<1>2. {m \in Machine : Cardinality(FreeSlots(m)) >= 1} = Machine
  BY <1>1
<1>3. Cardinality(Machine) = NMachines
  BY NMachinesAssumption, FS_Interval DEF Machine
<1>4. ASSUME NEW a \in Nat, NEW b \in Nat PROVE a * b * 1 >= a * b
  OBVIOUS
<1>5. NMachines * SlotSize * 1 >= NMachines * SlotSize
  BY <1>4, NMachinesAssumption, SlotSizeAssumption
<1> QED BY <1>2, <1>3, <1>5 DEF RessourceFree, Width

(* It does not return while there is none at all.                          *)
LEMMA NoRoom ==
  ASSUME \A m \in Machine, s \in Slot : machine_usage[<<m, s>>] # Empty
  PROVE  ~RessourceFree(Width, 1)
<1>1. \A m \in Machine : FreeSlots(m) = {}
  BY DEF FreeSlots
<1>2. {m \in Machine : Cardinality(FreeSlots(m)) >= 1} = {}
  BY <1>1, FS_EmptySet
<1>3. Cardinality({}) = 0 /\ 0 * SlotSize * 1 = 0
  BY FS_EmptySet, SlotSizeAssumption
<1>4. NMachines * SlotSize > 0
  <2>1. ASSUME NEW a \in Nat \ {0}, NEW b \in Nat \ {0} PROVE a * b > 0
    OBVIOUS
  <2> QED BY <2>1, NMachinesAssumption, SlotSizeAssumption
<1>5. ~(0 * SlotSize * 1 >= Width)
  BY <1>3, <1>4, NMachinesAssumption, SlotSizeAssumption DEF Width
<1> QED BY <1>2, <1>3, <1>5 DEF RessourceFree

(* The slots of one column are held by one job.                            *)
LEMMA OneJobPerColumn ==
  ASSUME Inv, NEW t \in Slot, NEW d \in InUse(Config(t)), NEW e \in InUse(Config(t))
  PROVE  machine_usage[d] = machine_usage[e]
<1>1. /\ d \in Elem /\ d[2] = t /\ machine_usage[d] # Empty
      /\ e \in Elem /\ e[2] = t
  BY Elements DEF InUse, Config
<1>2. PICK j \in JobId : j = machine_usage[d] /\ Active(j) /\ d \in id_to_config[j]
  BY <1>1 DEF Inv, Tables, UsageMatchesConfig
<1>3. j < cmd_counter
  BY <1>2 DEF Inv, Tables, Active, JobId
<1>4. PICK s \in Slot : id_to_config[j] = Config(s)
  BY <1>3 DEF Inv, WholeColumns
<1>5. e \in id_to_config[j]
  <2>1. d[2] = s
    BY <1>2, <1>4 DEF Config
  <2> QED BY <1>1, <1>4, <2>1 DEF InUse, Config
<1> QED BY <1>1, <1>2, <1>5 DEF Inv, Tables, UsageMatchesConfig

(* The neighbours of a job are in one column.                              *)
LEMMA OpposingColumn ==
  ASSUME Inv, pc \in LoopPoints
  PROVE  /\ job_id \in JobId /\ job_id < cmd_counter /\ id_to_config[job_id] \subseteq Elem
         /\ generate_opposing_config(job_id) \subseteq Elem
         /\ \E t \in Slot : generate_opposing_config(job_id) \subseteq Config(t)
<1>1. job_id \in JobId /\ job_id < cmd_counter
  BY DEF Inv, TypeOK, LoopPoints, job_id, JobId
<1>2. PICK s \in Slot : id_to_config[job_id] = Config(s)
  BY <1>1 DEF Inv, WholeColumns
<1>3. PICK t : t = (s + 1) % 2
  OBVIOUS
<1>4. t \in Slot
  <2>1. (0 + 1) % 2 = 1 /\ (1 + 1) % 2 = 0
    OBVIOUS
  <2> QED BY <1>3, <2>1 DEF Slot
<1>5. \A e \in Config(s) : Opposing(e) \in Config(t)
  BY <1>3 DEF Config, Opposing
<1>6. generate_opposing_config(job_id) \subseteq Config(t) /\ id_to_config[job_id] \subseteq Elem
  BY <1>2, <1>5, Elements DEF generate_opposing_config
<1> QED BY <1>1, <1>4, <1>6, Elements

(* Whatever is suspended exists.                                           *)
LEMMA DomainsExist ==
  ASSUME Inv, pc \in LoopPoints, NEW e \in Elem, machine_usage[e] # Empty
  PROVE  DomainAt(e) \in domains
<1>1. CASE UseVMs
  BY <1>1 DEF Inv, Bookkeeping, TypeOK, DomainAt, VmAt, LoopPoints
<1>2. CASE ~UseVMs
  BY <1>2 DEF Inv, Tables, CgroupsFollowJobs, DomainAt, CgroupAt, InUse
<1> QED BY <1>1, <1>2

-------------------------------------------------------------------------------
LEMMA InitInv == Init => Inv
<1> SUFFICES ASSUME Init PROVE Inv
  OBVIOUS
<1>1. Tables /\ Mutex
  BY TablesInit, MutexInit DEF Init
<1> USE DEF Init, CtlInit
<1>2. TypeOK
  <2>1. job_queue \in [JobId -> Jobs]
    BY <1>1 DEF Tables
  <2>2. /\ co_config_in_use \in [Slot -> BOOLEAN] /\ co_config_distgend \in [Slot -> Distgen \cup {0}]
        /\ new_slot \in Slot
    BY DEF Slot
  <2> QED BY <1>1, <2>1, <2>2 DEF Tables, TypeOK
<1>3. Bookkeeping /\ WholeColumns /\ Order
  BY NJobsAssumption DEF Bookkeeping, WholeColumns, Order, Measuring, JobId, Alive, Aborts
<1>4. Markers
  <2>1. Unmarked = Slot
    BY DEF Unmarked
  <2> QED BY <2>1, NJobsAssumption, Elements DEF Markers, JobId
<1>5. NoLostWakeup /\ SafeTeardown
  BY DEF NoLostWakeup, SafeTeardown
<1>6. Frozenness /\ AbortsExplained
  BY DEF Frozenness, NothingStaysFrozen, AbortsExplained, Alive, Aborts
<1> QED BY <1>1, <1>2, <1>3, <1>4, <1>5, <1>6 DEF Inv

-------------------------------------------------------------------------------
(* Steps that leave the tables, the worker threads and the markers alone.  *)
LEMMA Frame ==
  ASSUME Inv, UNCHANGED <<job_queue, tableVars, thread, co_config_in_use>>,
         UseVMs \/ domains' = domains
  PROVE  /\ Tables' /\ WholeColumns' /\ Markers'
         /\ \A j : Active(j)' <=> Active(j)
         /\ \A r : RessourceFree(r, 1)' <=> RessourceFree(r, 1)
         /\ \A j : Runnable(j)' <=> Runnable(j)
<1>1. \A j : Active(j)' <=> Active(j)
  BY DEF Active
<1>2. Tables'
  BY <1>1, TablesFrame DEF Inv, Tables
<1>3. WholeColumns'
  BY DEF Inv, WholeColumns, Config, tableVars
<1>4. Markers'
  BY <1>1 DEF Inv, Markers, Unmarked, Config, tableVars
<1>5. \A r : RessourceFree(r, 1)' <=> RessourceFree(r, 1)
  BY DEF RessourceFree, FreeSlots, tableVars
<1>6. \A j : Runnable(j)' <=> Runnable(j)
  BY DEF Runnable, req_cpus, Width
<1> QED BY <1>1, <1>2, <1>3, <1>4, <1>5, <1>6

(* The scheduler thread goes to sleep in one of its three waits.           *)
LEMMA WaitStep ==
  ASSUME Inv, Alive, Ctl(wait_for_ressource) \/ Ctl(wait_frozen) \/ Ctl(DoneWait)
  PROVE  Inv'
<1> USE DEF Inv
<1>1. /\ cv = "running" /\ cv' = "waiting" /\ locked' = FALSE
      /\ pc \in {"acquire", "yield", "done"}
      /\ UNCHANGED <<pc, job_queue, tableVars, owns, thread, domainVars>>
      /\ UNCHANGED <<domains, suspended, vm_locations, cmd_counter>>
      /\ UNCHANGED <<co_config_in_use, co_config_distgend, new_slot>>
  BY DEF Ctl, wait_for_ressource, wait_frozen, DoneWait, CvWait, AtLoopHead, schedVars,
         tableVars, domainVars
<1>2. /\ Tables' /\ WholeColumns' /\ Markers' /\ Mutex'
      /\ \A j : Active(j)' <=> Active(j)
  BY <1>1, Frame, MutexWait
<1>3. ~Awaited /\ ~Awaited'
  <2>1. ~Awaited
    BY <1>1 DEF Awaited, Ctl, wait_for_ressource, wait_frozen, DoneWait, AtLoopHead
  <2> QED BY <1>1, <2>1, Frame DEF Awaited, AllSlotsFree, tableVars
<1>4. TypeOK' /\ NoLostWakeup' /\ SafeTeardown'
  <2>1. TypeOK'
    BY <1>1, <1>2 DEF TypeOK, Tables, job_id
  <2> QED BY <1>1, <1>2, <1>3, <2>1 DEF NoLostWakeup, SafeTeardown
<1>5. Bookkeeping'
  BY <1>1, <1>2 DEF Bookkeeping, Measuring, Alive, job_id
<1>6. Order'
  <2>1. CASE pc = "acquire" /\ cmd_counter = 1
    <3>1. 1 \in Unmarked
      BY <2>1 DEF Order
    <3>2. \A m \in Machine : \E s \in Slot : machine_usage[<<m, s>>] = Empty
      BY <3>1 DEF Markers, Unmarked
    <3> QED BY <1>3, <2>1, <3>2, RoomOnEveryMachine DEF Awaited
  <2>2. CASE ~(pc = "acquire" /\ cmd_counter = 1)
    BY <1>1, <2>2 DEF Order, Measuring
  <2> QED BY <2>1, <2>2
<1>7. ~UseVMs => Frozenness' /\ AbortsExplained'
  BY <1>1, <1>2 DEF Frozenness, NothingStaysFrozen, AbortsExplained, Alive, Aborts, job_id, tableVars
<1> QED BY <1>2, <1>4, <1>5, <1>6, <1>7

LEMMA WakeStep ==
  ASSUME Inv, Alive, Ctl(Reacquire) \/ Ctl(SpuriousWake)
  PROVE  Inv'
<1> USE DEF Inv
<1>1. /\ cv # "running" /\ cv' \in {"running", "woken"} /\ locked' \in BOOLEAN
      /\ UNCHANGED <<pc, job_queue, tableVars, owns, thread, domainVars>>
      /\ UNCHANGED <<domains, suspended, vm_locations, cmd_counter>>
      /\ UNCHANGED <<co_config_in_use, co_config_distgend, new_slot>>
  BY DEF Ctl, Reacquire, SpuriousWake, schedVars, tableVars, domainVars, TypeOK
<1>2. /\ Tables' /\ WholeColumns' /\ Markers' /\ Mutex'
      /\ \A j : Active(j)' <=> Active(j)
  BY <1>1, Frame, MutexWake DEF Ctl
<1>3. pc \in {"acquire", "yield", "done"}
  BY <1>1 DEF Bookkeeping
<1>4. TypeOK'
  BY <1>1, <1>2 DEF TypeOK, Tables, job_id
<1>5. NoLostWakeup' /\ SafeTeardown' /\ Bookkeeping' /\ Order'
  BY <1>1, <1>2, <1>3 DEF NoLostWakeup, SafeTeardown, Bookkeeping, Measuring, Order, Alive, job_id
<1>6. ~UseVMs => Frozenness' /\ AbortsExplained'
  BY <1>1, <1>2, <1>3 DEF Frozenness, NothingStaysFrozen, AbortsExplained, Alive, Aborts, job_id, tableVars
<1> QED BY <1>2, <1>4, <1>5, <1>6

(* init(), the end of done(), dismantle() and the destructors.             *)
LEMMA MainStep ==
  ASSUME Inv, Alive, Ctl(init) \/ Ctl(done) \/ Ctl(dismantle) \/ Ctl(destroy)
  PROVE  Inv'
<1> USE DEF Inv
<1>1. /\ UNCHANGED <<job_queue, tableVars, thread, vm_locations, locked, cv, owns, cmd_counter>>
      /\ UNCHANGED <<co_config_in_use, co_config_distgend, new_slot>>
      /\ UseVMs \/ domains' = domains
  BY DEF Ctl, init, done, dismantle, destroy, schedVars, lockVars, tableVars, domainVars
<1>2. /\ Tables' /\ WholeColumns' /\ Markers' /\ Mutex'
      /\ \A j : Active(j)' <=> Active(j)
  BY <1>1, Frame, MutexFrame
<1>3. /\ pc \in {"init", "done", "dismantle", "destroy"}
      /\ pc' \in {"acquire", "done", "dismantle", "destroy", "exit"}
      /\ pc = "init" => pc' \in {"acquire", "done"}
  BY DEF Ctl, init, done, dismantle, destroy, NextJob
<1>4. cv = "running" \/ pc = "done"
  BY <1>3 DEF Bookkeeping, Alive
<1>5. cv' = "running"
  BY <1>1, <1>4 DEF Ctl, init, done, dismantle, destroy
<1>6. suspended' \subseteq domains' /\ domains' \subseteq Elem \cup (Machine \X JobId)
  BY DEF Ctl, init, done, dismantle, destroy, domainVars, TypeOK, Bookkeeping,
         start_all_VMs, stop_all_VMs
<1>7. TypeOK'
  <2>1. pc' = "acquire" => cmd_counter \in JobId
    BY NJobsAssumption DEF Ctl, init, done, dismantle, destroy, NextJob, JobId, Bookkeeping
  <2> QED BY <1>1, <1>2, <1>3, <1>6, <2>1 DEF TypeOK, Tables
<1>8. NoLostWakeup'
  BY <1>5 DEF NoLostWakeup
<1>9. SafeTeardown'
  <2>1. CASE Ctl(done)
    BY <1>2, <2>1, FreeMeansIdle DEF Ctl, done, SafeTeardown
  <2>2. CASE Ctl(init)
    BY <2>2 DEF Ctl, init, SafeTeardown, NextJob
  <2>3. CASE Ctl(dismantle) \/ Ctl(destroy)
    BY <1>2, <2>3 DEF SafeTeardown, Ctl, dismantle, destroy
  <2> QED BY <2>1, <2>2, <2>3
<1>10. Bookkeeping'
  <2>1. UseVMs /\ pc' \notin {"init", "destroy", "exit"} => domains' = Elem
    BY DEF Bookkeeping, Ctl, init, done, dismantle, destroy, domainVars, start_all_VMs
  <2> QED BY <1>1, <1>3, <1>5, <2>1 DEF Bookkeeping, Measuring
<1>11. Order'
  <2>1. pc' = "acquire" => cmd_counter = 0
    BY DEF Bookkeeping, Ctl, init, done, dismantle, destroy
  <2> QED BY <1>1, <1>3, <2>1 DEF Order, Measuring
<1>12. ~UseVMs => Frozenness' /\ AbortsExplained'
  <2>1. ~UseVMs => suspended' = {}
    BY <1>3 DEF Frozenness, NothingStaysFrozen, Ctl, init, done, dismantle, destroy, domainVars
  <2>2. Alive'
    BY <1>3 DEF Alive, Aborts
  <2> QED BY <1>3, <2>1, <2>2 DEF Frozenness, NothingStaysFrozen, AbortsExplained
<1> QED BY <1>2, <1>7, <1>8, <1>9, <1>10, <1>11, <1>12

-------------------------------------------------------------------------------
(* The steps that end the process leave everything but pc alone.           *)
LEMMA AbortFrame ==
  ASSUME Inv, UNCHANGED <<job_queue, tableVars, lockVars, thread, domainVars, schedVars>>,
         pc \in LoopPoints \cup {"acquire"}, pc' \in Aborts, ~UseVMs => AbortsExplained'
  PROVE  Inv'
<1> USE DEF Inv
<1>1. UNCHANGED <<machine_usage, id_to_config, cmd_counter, locked, owns, cv, domains,
                  suspended, vm_locations, co_config_in_use, co_config_distgend, new_slot>>
  BY DEF tableVars, lockVars, domainVars, schedVars
<1>2. Tables' /\ WholeColumns' /\ Markers' /\ Mutex'
  BY <1>1, Frame, MutexFrame
<1>3. ~Alive' /\ pc' \notin {"init", "acquire", "done", "dismantle", "destroy", "exit"} \cup LoopPoints
  BY DEF Alive, Aborts, LoopPoints
<1>4. TypeOK'
  <2> HIDE DEF Inv
  <2> QED BY <1>1, <1>2, <1>3 DEF Inv, TypeOK, LoopPoints, Tables
<1>5. Bookkeeping' /\ Order' /\ NoLostWakeup' /\ SafeTeardown'
  BY <1>1, <1>3 DEF Bookkeeping, Measuring, LoopPoints, Order, NoLostWakeup, Awaited, SafeTeardown
<1>6. ~UseVMs => Frozenness'
  BY <1>1, <1>3 DEF Frozenness, NothingStaysFrozen, LoopPoints
<1> QED BY <1>2, <1>4, <1>5, <1>6

LEMMA RejectStep ==
  ASSUME Inv, Ctl(RejectWrongSize)
  PROVE  Inv'
<1>1. /\ pc = "acquire" /\ pc' = "abort_req" /\ req_cpus(job) # Width
      /\ UNCHANGED <<job_queue, tableVars, lockVars, thread, domainVars, schedVars>>
      /\ UNCHANGED <<job_queue, tableVars, cmd_counter, thread, co_config_in_use, domains>>
  BY DEF Ctl, RejectWrongSize, Abort, AtLoopHead, tableVars, schedVars, domainVars
<1>2. ~Runnable(cmd_counter)
  BY <1>1 DEF Runnable, job
<1>3. ~Runnable(cmd_counter)'
  BY <1>1, <1>2 DEF Runnable, req_cpus, Width
<1>4. AbortsExplained'
  BY <1>1, <1>3 DEF AbortsExplained
<1> QED BY <1>1, <1>4, AbortFrame DEF Aborts

(* Only a job after the first three can find no unmarked slot: as long as  *)
(* the ids are slots the markers say who holds them, and                   *)
(* wait_for_ressource() has not returned while both are held.              *)
LEMMA NoSlotStep ==
  ASSUME Inv, Ctl(NoSlot)
  PROVE  Inv'
<1> USE DEF Inv
<1>1. /\ pc = "acquire" /\ pc' = "abort_select" /\ RessourceFree(Width, 1) /\ Unmarked = {}
      /\ UNCHANGED <<job_queue, tableVars, lockVars, thread, domainVars, schedVars>>
      /\ cmd_counter' = cmd_counter
  BY DEF Ctl, NoSlot, Abort, AtLoopHead, tableVars
<1>2. ASSUME cmd_counter <= 2 PROVE FALSE
  <2> SUFFICES ASSUME NEW m \in Machine, NEW s \in Slot PROVE machine_usage[<<m, s>>] # Empty
    BY <1>1, NoRoom
  <2>1. s < cmd_counter /\ Active(s)
    BY <1>1, <1>2 DEF Markers
  <2>2. s \in JobId
    BY <2>1, NJobsAssumption DEF Slot, JobId, TypeOK
  <2>3. id_to_config[s] = Config(s)
    BY <2>1, <2>2 DEF Markers
  <2>4. <<m, s>> \in id_to_config[s]
    BY <2>3 DEF Config
  <2>5. machine_usage[<<m, s>>] = s
    BY <2>1, <2>2, <2>4, Elements DEF Tables, UsageMatchesConfig
  <2> QED BY <2>5 DEF Empty, Slot
<1>3. cmd_counter >= 3
  BY <1>2, NJobsAssumption DEF TypeOK
<1>4. AbortsExplained'
  BY <1>1, <1>3 DEF AbortsExplained
<1> QED BY <1>1, <1>4, AbortFrame DEF Aborts

(* One slot of every machine is what a job asks for.                       *)
LEMMA ColumnWidth ==
  ASSUME NEW s \in Slot
  PROVE  Cardinality(Config(s)) * SlotSize = Width /\ Width \in Nat
<1>1. Cardinality(Machine) = NMachines
  BY NMachinesAssumption, FS_Interval DEF Machine
<1>2. IsFiniteSet({s}) /\ Cardinality({s}) = 1
  BY FS_Singleton
<1>3. Cardinality(Config(s)) = Cardinality(Machine) * Cardinality({s})
  BY <1>2, MachinesFinite, FS_Product DEF Config
<1>4. ASSUME NEW a \in Nat, NEW b \in Nat PROVE (a * 1) * b = a * b /\ a * b \in Nat
  OBVIOUS
<1> QED BY <1>1, <1>2, <1>3, <1>4, NMachinesAssumption, SlotSizeAssumption DEF Width

(* The slot found by the markers is free, so execute() can only object to  *)
(* the number of threads of a process.                                     *)
LEMMA SubmitAsserts ==
  ASSUME Inv, req_cpus(job) = Width, NEW s \in Unmarked
  PROVE  /\ s \in Slot /\ Config(s) \in (SUBSET Elem) \ {{}}
         /\ \A e \in Config(s) : machine_usage[e] = Empty
         /\ ExecuteAsserts(job, Config(s)) \/ ~Runnable(cmd_counter)
<1>1. s \in Slot
  BY DEF Unmarked
<1>2. \A e \in Config(s) : machine_usage[e] = Empty
  BY DEF Inv, Markers, Config
<1>3. Config(s) \in (SUBSET Elem) \ {{}}
  BY <1>1, Elements
<1>4. req_cpus(job) <= Cardinality(Config(s)) * SlotSize
  BY <1>1, ColumnWidth
<1>5. ExecuteAsserts(job, Config(s)) \/ ~(~UseVMs => SlotSize % job.threads_per_proc = 0)
  BY <1>2, <1>3, <1>4 DEF ExecuteAsserts, CommandAsserts, Inv, Bookkeeping
<1> QED BY <1>1, <1>2, <1>3, <1>5 DEF Runnable, job

LEMMA SubmitFailsStep ==
  ASSUME Inv, Ctl(SubmitFails)
  PROVE  Inv'
<1>1. /\ pc = "acquire" /\ pc' = "abort_execute"
      /\ UNCHANGED <<job_queue, tableVars, lockVars, thread, domainVars, schedVars>>
      /\ UNCHANGED <<job_queue, tableVars, cmd_counter, thread, co_config_in_use, domains>>
  BY DEF Ctl, SubmitFails, Abort, AtLoopHead, tableVars, schedVars, domainVars
<1>2. ~Runnable(cmd_counter)
  BY SubmitAsserts DEF Ctl, SubmitFails
<1>3. ~Runnable(cmd_counter)'
  BY <1>1, <1>2 DEF Runnable, req_cpus, Width
<1>4. AbortsExplained'
  BY <1>1, <1>3 DEF AbortsExplained
<1> QED BY <1>1, <1>4, AbortFrame DEF Aborts

(* A job is started in the first unmarked slot.  The first two jobs get    *)
(* the slots with their ids.                                               *)
LEMMA SubmitStep ==
  ASSUME Inv, Alive, Submit
  PROVE  Inv'
<1> USE DEF Inv
<1>1. PICK id \in JobId : id = cmd_counter /\ id \in Nat
  BY NJobsAssumption DEF Submit, AtLoopHead, TypeOK, JobId
<1>2. PICK s \in Unmarked :
        /\ \A t \in Unmarked : s <= t
        /\ execute(Config(s))
        /\ co_config_in_use' = [co_config_in_use EXCEPT ![s] = TRUE]
        /\ new_slot' = s
  BY DEF Submit
<1>3. PICK C : C = Config(s)
  OBVIOUS
<1>4. /\ pc = "acquire" /\ cv = "running" /\ pc' = "freeze_old"
      /\ co_config_distgend' = co_config_distgend
  BY DEF Submit, AtLoopHead
<1>5. /\ s \in Slot /\ C \in (SUBSET Elem) \ {{}}
      /\ \A e \in C : machine_usage[e] = Empty
  BY <1>2, <1>3, SubmitAsserts DEF Submit
<1>6. /\ Tables' /\ Mutex'
      /\ \A j \in JobId : Active(j)' <=> (Active(j) \/ j = id)
      /\ \A j \in JobId : j # id => id_to_config'[j] = id_to_config[j]
      /\ id_to_config'[id] = C
      /\ \A e \in Elem : machine_usage'[e] = IF e \in C THEN id ELSE machine_usage[e]
  BY <1>1, <1>2, <1>3, <1>5, TablesExecute, MutexExecute
<1>7. /\ cmd_counter' = id + 1
      /\ domains' = domains \cup create_domain(id, C)
      /\ UNCHANGED <<job_queue, locked, owns, cv, suspended, vm_locations>>
  BY <1>1, <1>2, <1>3 DEF execute, lockVars
<1>8. cmd_counter' \in 0 .. NJobs /\ job_id' = id
  BY <1>1, <1>7, NJobsAssumption DEF JobId, job_id
<1>9. TypeOK'
  <2>1. create_domain(id, C) \subseteq Machine \X JobId
    BY <1>5 DEF create_domain, Elem
  <2>2. co_config_in_use' \in [Slot -> BOOLEAN]
    BY <1>2, <1>5 DEF TypeOK
  <2> QED BY <1>2, <1>4, <1>5, <1>6, <1>7, <1>8, <2>1, <2>2 DEF TypeOK, Tables
<1>10. Bookkeeping' /\ NoLostWakeup' /\ SafeTeardown'
  <2>1. UseVMs => domains' = Elem
    BY <1>4, <1>7 DEF Bookkeeping, create_domain
  <2> QED BY <1>1, <1>4, <1>6, <1>7, <1>8, <2>1 DEF Bookkeeping, NoLostWakeup, SafeTeardown
<1>11. WholeColumns'
  <2> SUFFICES ASSUME NEW j \in JobId, j < cmd_counter' PROVE \E t \in Slot : id_to_config'[j] = Config(t)
    BY DEF WholeColumns, Config
  <2>1. CASE j = id
    BY <1>3, <1>5, <1>6, <2>1
  <2>2. CASE j # id
    <3>1. j < cmd_counter
      BY <1>1, <1>7, <2>2, NJobsAssumption DEF JobId
    <3> QED BY <1>6, <2>2, <3>1 DEF WholeColumns
  <2> QED BY <2>1, <2>2
<1>12. Unmarked' = Unmarked \ {s}
  BY <1>2, <1>5 DEF Unmarked, TypeOK
<1>13. id \in Slot => s = id
  <2>1. CASE id = 0
    <3>1. 0 \in Unmarked
      BY <1>1, <2>1 DEF Markers, Unmarked, Slot
    <3> QED BY <1>2, <1>5, <2>1, <3>1 DEF Slot
  <2>2. CASE id = 1
    BY <1>1, <1>2, <1>4, <2>2 DEF Order
  <2> QED BY <2>1, <2>2 DEF Slot
<1>14. Markers'
  <2>1. \A t \in Unmarked' : \A m \in Machine : machine_usage'[<<m, t>>] = Empty
    <3> SUFFICES ASSUME NEW t \in Unmarked', NEW m \in Machine PROVE machine_usage'[<<m, t>>] = Empty
      OBVIOUS
    <3>1. t \in Slot /\ t # s /\ machine_usage[<<m, t>>] = Empty
      BY <1>12 DEF Markers, Unmarked
    <3>2. <<m, t>> \in Elem /\ <<m, t>> \notin C
      BY <1>3, <3>1, Elements DEF Config
    <3> QED BY <1>6, <3>1, <3>2
  <2>2. \A j \in JobId : j \in Slot /\ j < cmd_counter' => id_to_config'[j] = Config(j)
    <3> SUFFICES ASSUME NEW j \in JobId, j \in Slot, j < cmd_counter'
                 PROVE  id_to_config'[j] = Config(j)
      OBVIOUS
    <3>1. CASE j = id
      BY <1>3, <1>6, <1>13, <3>1
    <3>2. CASE j # id
      <4>1. j < cmd_counter
        BY <1>1, <1>7, <3>2, NJobsAssumption DEF JobId
      <4> QED BY <1>6, <3>2, <4>1 DEF Markers
    <3> QED BY <3>1, <3>2
  <2>3. cmd_counter' <= 2 => \A t \in Slot \ Unmarked' : t < cmd_counter' /\ Active(t)'
    <3> SUFFICES ASSUME id + 1 <= 2, NEW t \in Slot \ Unmarked'
                 PROVE  t < id + 1 /\ Active(t)'
      BY <1>7
    <3>1. CASE t = s
      <4>1. s = id
        BY <1>1, <1>13 DEF Slot
      <4> QED BY <1>1, <1>6, <3>1, <4>1
    <3>2. CASE t # s
      <4>1. t \in Slot \ Unmarked
        BY <1>12, <3>2
      <4>2. t < id /\ Active(t)
        BY <1>1, <4>1 DEF Markers
      <4>3. t \in JobId
        BY <1>1, <4>1, <4>2, NJobsAssumption DEF Slot, JobId
      <4> QED BY <1>1, <1>6, <4>1, <4>2, <4>3 DEF Slot
    <3> QED BY <3>1, <3>2
  <2> QED BY <2>1, <2>2, <2>3 DEF Markers, Config
<1>15. Order'
  <2>1. CASE id = 0
    <3>1. s = 0 /\ Unmarked = Slot
      BY <1>1, <1>13, <2>1 DEF Markers, Unmarked, Slot
    <3> QED BY <1>4, <1>7, <1>12, <3>1 DEF Order, Slot
  <2>2. CASE id # 0
    BY <1>1, <1>4, <1>7, <2>2 DEF Order
  <2> QED BY <2>1, <2>2
<1>16. ~UseVMs => Frozenness' /\ AbortsExplained'
  <2>1. ~UseVMs => suspended' = {}
    BY <1>4, <1>7 DEF Frozenness, NothingStaysFrozen
  <2>2. Alive'
    BY <1>4 DEF Alive, Aborts
  <2> QED BY <1>4, <2>1, <2>2 DEF Frozenness, NothingStaysFrozen, AbortsExplained
<1> QED BY <1>6, <1>9, <1>10, <1>11, <1>14, <1>15, <1>16

-------------------------------------------------------------------------------
(* The steps between the start of a job and the next turn of the loop move *)
(* the scheduler thread on and suspend or resume domains.                  *)
LEMMA MoveFrame ==
  ASSUME Inv, Alive, pc \in LoopPoints, cv = "running",
         UNCHANGED <<job_queue, tableVars, lockVars, thread, domains, vm_locations,
                     co_config_in_use, new_slot>>,
         co_config_distgend' \in [Slot -> Distgen \cup {0}],
         suspended' \subseteq domains,
         pc' \in LoopPoints \cup {NextJob(cmd_counter)},
         Measuring' => Measuring,
         pc' \in {"decide", "yield"} => cmd_counter >= 2,
         ~UseVMs => Frozenness'
  PROVE  Inv'
<1> USE DEF Inv
<1>1. UNCHANGED <<machine_usage, id_to_config, cmd_counter, locked, owns, cv>>
  BY DEF tableVars, lockVars
<1>2. /\ Tables' /\ WholeColumns' /\ Markers' /\ Mutex'
      /\ \A j : Active(j)' <=> Active(j)
  BY <1>1, Frame, MutexFrame
<1>3. /\ pc' \in {"freeze_old", "distgen", "thaw_old", "decide", "yield", "acquire", "done"}
      /\ pc' = "acquire" => cmd_counter \in JobId
  BY NJobsAssumption DEF LoopPoints, NextJob, TypeOK, JobId
<1>4. TypeOK'
  BY <1>1, <1>2, <1>3 DEF TypeOK, LoopPoints, Tables, job_id
<1>5. Bookkeeping'
  <2>1. Measuring' => Active(job_id)'
    BY <1>1, <1>2 DEF Bookkeeping, job_id
  <2>2. UseVMs => domains' = Elem
    BY DEF Bookkeeping, LoopPoints
  <2> QED BY <1>1, <1>3, <2>1, <2>2 DEF Bookkeeping
<1>6. NoLostWakeup' /\ SafeTeardown'
  BY <1>1, <1>3 DEF NoLostWakeup, SafeTeardown
<1>7. Order'
  <2>1. cmd_counter = 1 => Unmarked = {1}
    BY DEF Order, LoopPoints, Measuring
  <2>2. Unmarked' = Unmarked
    BY DEF Unmarked
  <2> QED BY <1>1, <2>1, <2>2 DEF Order
<1>8. ~UseVMs => AbortsExplained'
  BY <1>3 DEF AbortsExplained, Alive, Aborts
<1> QED BY <1>2, <1>4, <1>5, <1>6, <1>7, <1>8

(* With cgroups a job is suspended as a whole, and nobody else with it.    *)
LEMMA ColumnSuspends ==
  ASSUME Inv, ~UseVMs, NEW t \in Slot, NEW C \in SUBSET Config(t)
  PROVE  \A x, y \in {DomainAt(e) : e \in InUse(C)} : x[2] = y[2]
<1> SUFFICES ASSUME NEW d \in InUse(C), NEW e \in InUse(C)
             PROVE  DomainAt(d)[2] = DomainAt(e)[2]
  OBVIOUS
<1>1. d \in InUse(Config(t)) /\ e \in InUse(Config(t))
  BY DEF InUse
<1> QED BY <1>1, OneJobPerColumn DEF DomainAt, CgroupAt

(* What Frozenness asks of the next state, in terms of the current tables. *)
LEMMA FrozennessMoves ==
  ASSUME UNCHANGED <<machine_usage, id_to_config, cmd_counter, co_config_in_use>>,
         \A x, y \in suspended' : x[2] = y[2],
         pc' \in {"distgen", "thaw_old"} =>
            /\ suspended' \subseteq {CgroupAt(e) : e \in InUse(generate_opposing_config(job_id))}
            /\ ~TwoInUse => suspended' = {},
         pc' = "yield" =>
            /\ suspended' \subseteq {<<e[1], job_id>> : e \in id_to_config[job_id]}
            /\ ~Active(job_id)' => suspended' = {},
         pc' \notin {"distgen", "thaw_old", "yield"} \cup Aborts => suspended' = {}
  PROVE  Frozenness'
<1>1. job_id' = job_id /\ TwoInUse' = TwoInUse
  BY DEF job_id, TwoInUse
<1>2. generate_opposing_config(job_id)' = generate_opposing_config(job_id)
  BY <1>1 DEF generate_opposing_config, Opposing
<1>3. {CgroupAt(e) : e \in InUse(generate_opposing_config(job_id))}'
        = {CgroupAt(e) : e \in InUse(generate_opposing_config(job_id))}
  BY <1>2 DEF CgroupAt, InUse
<1>4. {<<e[1], job_id>> : e \in id_to_config[job_id]}' = {<<e[1], job_id>> : e \in id_to_config[job_id]}
  BY <1>1
<1> QED BY <1>1, <1>3, <1>4 DEF Frozenness, NothingStaysFrozen, Alive

LEMMA FreezeOldStep ==
  ASSUME Inv, Alive, freeze_old
  PROVE  Inv'
<1> USE DEF Inv
<1>0. PICK C : C = generate_opposing_config(job_id)
  OBVIOUS
<1>1. /\ pc = "freeze_old" /\ pc \in LoopPoints /\ Measuring
      /\ UNCHANGED <<job_queue, tableVars, lockVars, thread, domains, vm_locations>>
      /\ UNCHANGED <<machine_usage, id_to_config, cmd_counter>>
      /\ UNCHANGED <<co_config_in_use, co_config_distgend, new_slot>>
      /\ UNCHANGED schedVars
  BY DEF freeze_old, LoopPoints, Measuring, schedVars, tableVars
<1>2. C \subseteq Elem /\ \E t \in Slot : C \subseteq Config(t)
  BY <1>0, <1>1, OpposingColumn
<1>3. cv = "running"
  BY <1>1 DEF Bookkeeping
<1>4. CASE pc' = "distgen"
  <2>1. \/ TwoInUse /\ suspended' = suspended \cup {DomainAt(e) : e \in InUse(C)}
        \/ ~TwoInUse /\ suspended' = suspended
    BY <1>0, <1>4 DEF freeze_old, Suspend, Abort
  <2>2. suspended' \subseteq domains
    BY <1>1, <1>2, <2>1, DomainsExist DEF InUse, TypeOK
  <2>3. ASSUME ~UseVMs PROVE Frozenness'
    <3>1. suspended = {} /\ \A e \in InUse(C) : DomainAt(e) = CgroupAt(e)
      BY <1>1, <2>3 DEF Frozenness, NothingStaysFrozen, DomainAt
    <3>2. \A x, y \in suspended' : x[2] = y[2]
      BY <1>2, <2>1, <2>3, <3>1, ColumnSuspends
    <3>3. suspended' \subseteq {CgroupAt(e) : e \in InUse(C)} /\ (~TwoInUse => suspended' = {})
      BY <2>1, <3>1
    <3> QED BY <1>0, <1>1, <1>4, <3>2, <3>3, FrozennessMoves
  <2> QED BY <1>1, <1>3, <1>4, <2>2, <2>3, MoveFrame DEF LoopPoints, TypeOK
<1>5. CASE pc' # "distgen"
  <2>1. pc' = "abort_suspend" /\ suspended' = suspended /\ UseVMs
    BY <1>5 DEF freeze_old, Abort, SuspendAsserts
  <2> QED BY <1>1, <2>1, AbortFrame DEF domainVars, Aborts
<1> QED BY <1>4, <1>5

(* What distgen measures is one of the results of the agents.              *)
LEMMA MeasureStep ==
  ASSUME Inv, Alive, measure
  PROVE  Inv'
<1> USE DEF Inv
<1>1. /\ pc = "distgen" /\ pc' = "thaw_old" /\ pc \in LoopPoints /\ Measuring
      /\ UNCHANGED <<job_queue, tableVars, lockVars, thread, domains, vm_locations, suspended>>
      /\ UNCHANGED <<machine_usage, id_to_config, cmd_counter>>
      /\ UNCHANGED <<co_config_in_use, new_slot>>
  BY DEF measure, LoopPoints, Measuring, domainVars, tableVars
<1>2. cv = "running"
  BY <1>1 DEF Bookkeeping
<1>3. co_config_distgend' \in [Slot -> Distgen \cup {0}]
  <2>1. PICK result \in run_distgen : \E c \in DOMAIN result :
                co_config_distgend' = [co_config_distgend EXCEPT ![new_slot] = result[c]]
    BY DEF measure
  <2>2. \A c \in DOMAIN result : result[c] \in Distgen
    BY DEF run_distgen
  <2> QED BY <2>1, <2>2 DEF TypeOK
<1>4. ~UseVMs => Frozenness'
  BY <1>1, FrozennessMoves DEF Frozenness
<1> QED BY <1>1, <1>2, <1>3, <1>4, MoveFrame DEF LoopPoints, TypeOK

LEMMA ThawOldStep ==
  ASSUME Inv, Alive, thaw_old
  PROVE  Inv'
<1> USE DEF Inv
<1>0. PICK C : C = generate_opposing_config(job_id)
  OBVIOUS
<1>1. /\ pc = "thaw_old" /\ pc \in LoopPoints /\ Measuring
      /\ UNCHANGED <<job_queue, tableVars, lockVars, thread, domains, vm_locations>>
      /\ UNCHANGED <<machine_usage, id_to_config, cmd_counter>>
      /\ UNCHANGED <<co_config_in_use, co_config_distgend, new_slot>>
  BY DEF thaw_old, LoopPoints, Measuring, schedVars, tableVars
<1>2. cv = "running"
  BY <1>1 DEF Bookkeeping
<1>3. \/ TwoInUse /\ pc' = "decide" /\ suspended' = suspended \ {DomainAt(e) : e \in InUse(C)}
      \/ ~TwoInUse /\ pc' = NextJob(cmd_counter) /\ suspended' = suspended
  BY <1>0 DEF thaw_old, Resume
<1>4. suspended' \subseteq domains
  BY <1>3 DEF TypeOK
<1>5. pc' = "decide" => cmd_counter >= 2
  <2>1. cmd_counter \in Nat /\ cmd_counter # 0
    BY <1>1, NJobsAssumption DEF TypeOK, job_id, JobId
  <2>2. ASSUME cmd_counter = 1 PROVE ~TwoInUse
    <3>1. 1 \in Unmarked
      BY <1>1, <2>2 DEF Order
    <3> QED BY <3>1 DEF TwoInUse, Unmarked
  <2> QED BY <1>3, <2>1, <2>2 DEF NextJob
<1>6. pc' \in {"decide", "acquire", "done"}
  BY <1>3 DEF NextJob
<1>7. ASSUME ~UseVMs PROVE Frozenness'
  <2>1. suspended' = {}
    BY <1>0, <1>1, <1>3, <1>7 DEF Frozenness, DomainAt
  <2> QED BY <1>1, <1>6, <2>1, FrozennessMoves
<1> QED BY <1>1, <1>2, <1>3, <1>4, <1>5, <1>6, <1>7, MoveFrame DEF LoopPoints, TypeOK

(* The new job is suspended: its own domains, and nothing else.            *)
LEMMA DecideStep ==
  ASSUME Inv, Alive, decide
  PROVE  Inv'
<1> USE DEF Inv
<1>0. PICK C : C = id_to_config[job_id]
  OBVIOUS
<1>1. /\ pc = "decide" /\ pc \in LoopPoints /\ Measuring /\ Active(job_id)
      /\ UNCHANGED <<job_queue, tableVars, lockVars, thread, domains, vm_locations>>
      /\ UNCHANGED <<machine_usage, id_to_config, cmd_counter>>
      /\ UNCHANGED <<co_config_in_use, co_config_distgend, new_slot>>
      /\ UNCHANGED schedVars
  BY DEF decide, LoopPoints, Measuring, schedVars, tableVars, Bookkeeping
<1>2. cv = "running" /\ cmd_counter >= 2
  BY <1>1 DEF Bookkeeping, Order
<1>3. C \subseteq Elem /\ job_id \in JobId
  BY <1>0, <1>1, OpposingColumn
<1>4. CASE pc' = "yield" /\ suspended' = suspended \cup {DomainAt(e) : e \in InUse(C)}
  <2>1. suspended' \subseteq domains
    BY <1>1, <1>3, <1>4, DomainsExist DEF InUse, TypeOK
  <2>2. ASSUME ~UseVMs PROVE Frozenness'
    <3>1. suspended = {}
      BY <1>1, <2>2 DEF Frozenness, NothingStaysFrozen
    <3>2. \A e \in InUse(C) : DomainAt(e) = <<e[1], job_id>>
      BY <1>0, <1>1, <1>3, <2>2 DEF InUse, Tables, UsageMatchesConfig, DomainAt, CgroupAt
    <3>3. suspended' \subseteq {<<e[1], job_id>> : e \in C}
      BY <1>4, <3>1, <3>2 DEF InUse
    <3>4. \A x, y \in suspended' : x[2] = y[2]
      BY <3>3
    <3>5. Active(job_id)'
      BY <1>1 DEF Active, job_id
    <3> QED BY <1>0, <1>1, <1>4, <3>3, <3>4, <3>5, FrozennessMoves
  <2> QED BY <1>1, <1>2, <1>4, <2>1, <2>2, MoveFrame DEF LoopPoints, TypeOK
<1>5. CASE pc' = NextJob(cmd_counter) /\ suspended' = suspended
  <2>1. pc' \in {"acquire", "done"}
    BY <1>5 DEF NextJob
  <2>2. ASSUME ~UseVMs PROVE Frozenness'
    <3>1. suspended' = {}
      BY <1>1, <1>5, <2>2 DEF Frozenness, NothingStaysFrozen
    <3> QED BY <1>1, <2>1, <3>1, FrozennessMoves
  <2> QED BY <1>1, <1>2, <1>5, <2>1, <2>2, MoveFrame DEF LoopPoints, TypeOK
<1>6. CASE pc' = "abort_suspend" /\ suspended' = suspended /\ UseVMs
  BY <1>1, <1>6, AbortFrame DEF domainVars, Aborts
<1>7. \/ pc' = "yield" /\ suspended' = suspended \cup {DomainAt(e) : e \in InUse(C)}
      \/ pc' = NextJob(cmd_counter) /\ suspended' = suspended
      \/ pc' = "abort_suspend" /\ suspended' = suspended /\ UseVMs
  BY <1>0 DEF decide, Suspend, SuspendAsserts, Abort
<1> QED BY <1>4, <1>5, <1>6, <1>7

LEMMA ThawNewStep ==
  ASSUME Inv, Alive, thaw_new
  PROVE  Inv'
<1> USE DEF Inv
<1>0. PICK C : C = id_to_config[job_id]
  OBVIOUS
<1>1. /\ pc = "yield" /\ pc \in LoopPoints /\ cv = "running"
      /\ suspended' = suspended \ {DomainAt(e) : e \in InUse(C)}
      /\ pc' = NextJob(cmd_counter)
      /\ UNCHANGED <<job_queue, tableVars, lockVars, thread, domains, vm_locations>>
      /\ UNCHANGED <<machine_usage, id_to_config, cmd_counter>>
      /\ UNCHANGED <<co_config_in_use, co_config_distgend, new_slot>>
  BY <1>0 DEF thaw_new, LoopPoints, schedVars, tableVars, Resume
<1>2. pc' \in {"acquire", "done"}
  BY <1>1 DEF NextJob
<1>3. suspended' \subseteq domains
  BY <1>1 DEF TypeOK
<1>4. ASSUME ~UseVMs PROVE Frozenness'
  <2>1. suspended' = {}
    <3>1. CASE ~Active(job_id)
      BY <1>1, <1>4, <3>1 DEF Frozenness
    <3>2. CASE Active(job_id)
      <4>1. C \subseteq Elem /\ job_id \in JobId
        BY <1>0, <1>1, OpposingColumn
      <4>2. \A e \in C : e \in InUse(C) /\ DomainAt(e) = <<e[1], job_id>>
        BY <1>0, <1>4, <3>2, <4>1, NJobsAssumption
           DEF InUse, Tables, UsageMatchesConfig, DomainAt, CgroupAt, Empty, JobId
      <4>3. suspended \subseteq {<<e[1], job_id>> : e \in C}
        BY <1>0, <1>1, <1>4 DEF Frozenness
      <4> QED BY <1>1, <4>2, <4>3
    <3> QED BY <3>1, <3>2
  <2> QED BY <1>1, <1>2, <2>1, FrozennessMoves
<1> QED BY <1>1, <1>2, <1>3, <1>4, MoveFrame DEF LoopPoints, TypeOK, Measuring

-------------------------------------------------------------------------------
(* The steps of a worker outside its critical section.                     *)
LEMMA WorkerStep ==
  ASSUME Inv, Alive, NEW j \in JobId, Ctl(WorkerExit(j) \/ WorkerLock(j) \/ WorkerNotify(j))
  PROVE  Inv'
<1> USE DEF Inv
<1>1. /\ Tables' /\ Mutex'
      /\ UNCHANGED <<job_queue, tableVars, domainVars>>
      /\ \A i \in JobId : Active(i)' <=> Active(i)
  BY WorkerFrame, MutexWorker DEF Ctl
<1>2. /\ UNCHANGED <<pc, owns, machine_usage, id_to_config, cmd_counter>>
      /\ UNCHANGED <<domains, suspended, vm_locations>>
      /\ UNCHANGED <<co_config_in_use, co_config_distgend, new_slot>>
  BY <1>1 DEF Ctl, WorkerExit, WorkerLock, WorkerNotify, lockVars, tableVars, domainVars, schedVars
<1>3. /\ locked' \in BOOLEAN /\ cv' \in {"running", "waiting", "woken"}
      /\ cv' = "running" <=> cv = "running"
  BY DEF Ctl, WorkerExit, WorkerLock, WorkerNotify, lockVars, TypeOK
<1>4. TypeOK'
  BY <1>1, <1>2, <1>3 DEF TypeOK, Tables, job_id
<1>5. Bookkeeping'
  <2>1. Measuring' => Active(job_id)'
    <3>1. Measuring => job_id \in JobId
      BY DEF TypeOK, Measuring
    <3> QED BY <1>1, <1>2, <3>1 DEF Bookkeeping, Measuring, job_id
  <2> QED BY <1>2, <1>3, <2>1 DEF Bookkeeping, Alive
<1>6. WholeColumns' /\ Order'
  BY <1>2, <1>3 DEF WholeColumns, Config, Order, Measuring, Unmarked
<1>7. Markers'
  <2>1. \A s \in Slot : s < cmd_counter => s \in JobId
    BY NJobsAssumption DEF Slot, JobId, TypeOK
  <2>2. Unmarked' = Unmarked
    BY <1>2 DEF Unmarked
  <2> QED BY <1>1, <1>2, <2>1, <2>2 DEF Markers, Config
<1>8. NoLostWakeup'
  <2>1. CASE WorkerNotify(j)
    BY <2>1 DEF WorkerNotify, NoLostWakeup
  <2>2. CASE WorkerExit(j) \/ WorkerLock(j)
    <3>1. cv' = cv
      BY <2>2 DEF WorkerExit, WorkerLock, lockVars
    <3>2. Awaited' <=> Awaited
      BY <1>2 DEF Awaited, RessourceFree, FreeSlots, AllSlotsFree
    <3>3. \A i \in JobId : thread[i] = "unlocked" => thread'[i] = "unlocked"
      BY <2>2 DEF WorkerExit, WorkerLock, Tables
    <3> QED BY <3>1, <3>2, <3>3 DEF NoLostWakeup
  <2> QED BY <2>1, <2>2 DEF Ctl
<1>9. SafeTeardown'
  BY <1>1, <1>2 DEF SafeTeardown
<1>10. ~UseVMs => Frozenness' /\ AbortsExplained'
  <2>1. pc = "yield" => (Active(job_id)' <=> Active(job_id))
    BY <1>1, <1>2 DEF TypeOK, job_id
  <2>2. ~UseVMs => Frozenness'
    BY <1>2, <2>1, FrozennessMoves DEF Frozenness, NothingStaysFrozen
  <2> QED BY <1>2, <2>2 DEF AbortsExplained, Alive
<1> QED BY <1>1, <1>4, <1>5, <1>6, <1>7, <1>8, <1>9, <1>10

(* The critical section of a worker, with the callback that takes the id   *)
(* of its job for a slot: where that is wrong the job has no marker, and   *)
(* the write goes beyond the end.                                          *)
LEMMA CleanupStep ==
  ASSUME Inv, Alive, NEW j \in JobId, Cleanup(j)
  PROVE  Inv'
<1> USE DEF Inv
<1>1. thread[j] = "locked" /\ Active(j) /\ j < cmd_counter /\ j \in Nat
  BY NJobsAssumption DEF Cleanup, Active, Tables, JobId
<1>2. pc \in {"acquire", "yield", "done"} /\ cv # "running"
  BY <1>1 DEF Mutex, MutualExclusion, Bookkeeping
<1>3. WorkerCleanup(j) /\ command_done(j) /\ new_slot' = new_slot
  BY <1>1, CleanupAssertsHold DEF Cleanup
<1>4. /\ Tables' /\ Mutex'
      /\ \A i \in JobId : Active(i)' <=> (Active(i) /\ i # j)
      /\ thread'[j] = "unlocked"
      /\ \A e \in Elem : machine_usage'[e] = IF machine_usage[e] = j THEN Empty ELSE machine_usage[e]
  BY <1>1, <1>3, TablesCleanup, MutexCleanup
<1>5. /\ UNCHANGED <<job_queue, id_to_config, cmd_counter, owns, cv, vm_locations>>
      /\ locked' = FALSE
      /\ domains' = domains \ delete_domain(j) /\ suspended' = suspended \ delete_domain(j)
  BY <1>3 DEF WorkerCleanup
<1>6. pc' = pc \/ (pc' = "abort_bounds" /\ j \notin Slot)
  BY <1>3 DEF command_done, Abort
<1>7. /\ co_config_in_use' \in [Slot -> BOOLEAN]
      /\ co_config_distgend' \in [Slot -> Distgen \cup {0}]
      /\ \A s \in Slot : co_config_in_use'[s] = (co_config_in_use[s] /\ s # j)
  BY <1>3 DEF command_done, TypeOK
<1>8. TypeOK'
  BY <1>3, <1>4, <1>5, <1>6, <1>7 DEF TypeOK, Tables, Aborts, job_id
<1>9. Bookkeeping'
  <2>1. ~Measuring'
    BY <1>2, <1>6 DEF Measuring
  <2>2. UseVMs => domains' = Elem
    BY <1>2, <1>5 DEF Bookkeeping, delete_domain, create_domain
  <2> QED BY <1>2, <1>5, <1>6, <2>1, <2>2 DEF Bookkeeping, Alive, Aborts
<1>10. WholeColumns'
  BY <1>5 DEF WholeColumns, Config
<1>11. Markers'
  <2>1. \A s \in Unmarked' : \A m \in Machine : machine_usage'[<<m, s>>] = Empty
    <3> SUFFICES ASSUME NEW s \in Unmarked', NEW m \in Machine PROVE machine_usage'[<<m, s>>] = Empty
      OBVIOUS
    <3>1. s \in Slot /\ <<m, s>> \in Elem
      BY Elements DEF Unmarked
    <3>2. CASE s = j
      <4>1. <<m, s>> \in id_to_config[j]
        BY <1>1, <3>1, <3>2 DEF Markers, Config
      <4>2. machine_usage[<<m, s>>] = j
        BY <1>1, <3>1, <4>1 DEF Tables, UsageMatchesConfig
      <4> QED BY <1>4, <3>1, <4>2
    <3>3. CASE s # j
      <4>1. s \in Unmarked
        BY <1>7, <3>1, <3>3 DEF Unmarked
      <4>2. machine_usage[<<m, s>>] = Empty
        BY <4>1 DEF Markers
      <4> QED BY <1>4, <3>1, <4>2
    <3> QED BY <3>2, <3>3
  <2>2. cmd_counter' <= 2 => \A s \in Slot \ Unmarked' : s < cmd_counter' /\ Active(s)'
    <3> SUFFICES ASSUME cmd_counter <= 2, NEW s \in Slot \ Unmarked'
                 PROVE  s < cmd_counter /\ Active(s)'
      BY <1>5
    <3>1. s \in Slot \ Unmarked /\ s # j
      BY <1>7 DEF Unmarked
    <3>2. s < cmd_counter /\ Active(s)
      BY <3>1 DEF Markers
    <3>3. s \in JobId
      BY <3>1, <3>2, NJobsAssumption DEF Slot, JobId, TypeOK
    <3> QED BY <1>4, <3>1, <3>2, <3>3
  <2>3. \A i \in JobId : i \in Slot /\ i < cmd_counter' => id_to_config'[i] = Config(i)
    BY <1>5 DEF Markers
  <2> QED BY <2>1, <2>2, <2>3 DEF Markers, Config
<1>12. Order' /\ NoLostWakeup' /\ SafeTeardown'
  BY <1>2, <1>4, <1>5, <1>6 DEF Order, Measuring, NoLostWakeup, SafeTeardown
<1>13. ASSUME ~UseVMs PROVE Frozenness' /\ AbortsExplained'
  <2>1. suspended' \subseteq suspended
    BY <1>5
  <2>2. pc' = "yield" => /\ suspended' \subseteq {<<e[1], job_id>> : e \in id_to_config[job_id]}
                         /\ ~Active(job_id)' => suspended' = {}
    <3> SUFFICES ASSUME pc' = "yield"
                 PROVE  /\ suspended' \subseteq {<<e[1], job_id>> : e \in id_to_config[job_id]}
                        /\ ~Active(job_id)' => suspended' = {}
      OBVIOUS
    <3>1. pc = "yield"
      BY <1>6
    <3>2. suspended \subseteq {<<e[1], job_id>> : e \in id_to_config[job_id]}
      BY <1>13, <3>1 DEF Frozenness
    <3>3. job_id \in JobId /\ job_id' = job_id
      BY <1>5, <3>1 DEF TypeOK, job_id
    <3>4. CASE job_id = j
      <4>1. delete_domain(j) = {<<e[1], job_id>> : e \in id_to_config[job_id]}
        BY <1>13, <3>4 DEF delete_domain, create_domain
      <4> QED BY <1>5, <3>2, <4>1
    <3>5. CASE job_id # j
      <4>1. ~Active(job_id)' => ~Active(job_id)
        BY <1>4, <3>3, <3>5
      <4> QED BY <1>13, <2>1, <3>1, <3>2, <4>1 DEF Frozenness
    <3> QED BY <3>4, <3>5
  <2>3. \A x, y \in suspended' : x[2] = y[2]
    BY <1>13, <2>1 DEF Frozenness
  <2>4. NothingStaysFrozen'
    BY <1>2, <1>6, <1>13, <2>1 DEF Frozenness, NothingStaysFrozen, Alive, Aborts
  <2>5. Frozenness'
    <3>1. pc' \notin {"distgen", "thaw_old"}
      BY <1>2, <1>6
    <3>2. job_id' = job_id /\ id_to_config' = id_to_config
      BY <1>5 DEF job_id
    <3> QED BY <2>2, <2>3, <2>4, <3>1, <3>2 DEF Frozenness
  <2>6. AbortsExplained'
    <3>1. CASE pc' = pc
      BY <3>1 DEF AbortsExplained, Alive
    <3>2. CASE pc' = "abort_bounds" /\ j \notin Slot
      <4>1. j >= 2
        BY <1>1, <3>2 DEF Slot
      <4> QED BY <1>4, <3>2, <4>1 DEF AbortsExplained
    <3> QED BY <1>6, <3>1, <3>2
  <2> QED BY <2>5, <2>6
<1> QED BY <1>4, <1>8, <1>9, <1>10, <1>11, <1>12, <1>13

-------------------------------------------------------------------------------
(* Inv is preserved by every step.                                         *)
LEMMA NextInv == Inv /\ [Next]_vars => Inv'
<1> SUFFICES ASSUME Inv, [Next]_vars PROVE Inv'
  OBVIOUS
<1>1. CASE Alive /\ Scheduler
  BY <1>1, WaitStep, WakeStep, MainStep, RejectStep, NoSlotStep, SubmitFailsStep, SubmitStep,
     FreezeOldStep, MeasureStep, ThawOldStep, DecideStep, ThawNewStep DEF Scheduler
<1>2. CASE Alive /\ Ctl(SpuriousWake)
  BY <1>2, WakeStep
<1>3. CASE Alive /\ \E j \in JobId : Worker(j)
  BY <1>3, WorkerStep, CleanupStep DEF Worker
<1>4. CASE UNCHANGED vars
  <2> USE DEF Inv
  <2>1. /\ UNCHANGED <<pc, job_queue, tableVars, thread, locked, owns, cv, cmd_counter>>
        /\ UNCHANGED <<machine_usage, id_to_config, domains, suspended, vm_locations>>
        /\ UNCHANGED <<co_config_in_use, co_config_distgend, new_slot>>
    BY <1>4 DEF vars, ctlVars, tableVars, lockVars, domainVars, schedVars
  <2>2. /\ Tables' /\ WholeColumns' /\ Markers' /\ Mutex'
        /\ \A j : Active(j)' <=> Active(j)
        /\ \A r : RessourceFree(r, 1)' <=> RessourceFree(r, 1)
        /\ \A j : Runnable(j)' <=> Runnable(j)
    BY <2>1, Frame, MutexFrame
  <2>3. TypeOK'
    BY <2>1, <2>2 DEF TypeOK, Tables, job_id
  <2>4. Bookkeeping' /\ Order' /\ SafeTeardown'
    BY <2>1, <2>2 DEF Bookkeeping, Measuring, Order, SafeTeardown, Alive, job_id, Unmarked
  <2>5. NoLostWakeup'
    BY <2>1, <2>2 DEF NoLostWakeup, Awaited, AllSlotsFree
  <2>6. ~UseVMs => Frozenness' /\ AbortsExplained'
    <3>1. ~UseVMs => AbortsExplained'
      BY <2>1, <2>2 DEF AbortsExplained, Alive
    <3>2. pc = "yield" => (Active(job_id)' <=> Active(job_id))
      BY <2>1, <2>2 DEF job_id
    <3>3. ~UseVMs => Frozenness'
      BY <2>1, <3>2, FrozennessMoves DEF Frozenness, NothingStaysFrozen, Alive
    <3> QED BY <3>1, <3>3
  <2> QED BY <2>2, <2>3, <2>4, <2>5, <2>6
<1> QED BY <1>1, <1>2, <1>3, <1>4 DEF Next

(* Inv holds in every reachable state, for every cluster size, every job   *)
(* queue, every set of measurements and both back ends.                    *)
THEOREM InvHolds == Spec => []Inv
BY InitInv, NextInv, PTL DEF Spec

(* Type correctness of the controller driven by the scheduler of two jobs. *)
THEOREM TypeCorrect == Spec => []TypeOK
<1>1. Inv => TypeOK
  BY DEF Inv
<1> QED BY <1>1, InvHolds, PTL

(* The slot table and the job table agree, although the scheduler picks    *)
(* the slots by markers it clears with ids of jobs.                        *)
THEOREM TablesAgree == Spec => []UsageMatchesConfig
<1>1. Inv => UsageMatchesConfig
  BY DEF Inv, Tables
<1> QED BY <1>1, InvHolds, PTL

(* Notifying after the unlock loses no wake-up of any of the three waits.  *)
THEOREM WakeupsArrive == Spec => []NoLostWakeup
<1>1. Inv => NoLostWakeup
  BY DEF Inv
<1> QED BY <1>1, InvHolds, PTL

(* No worker calls back after the scheduler was deleted.                   *)
THEOREM TeardownSafe == Spec => []SafeTeardown
<1>1. Inv => SafeTeardown
  BY DEF Inv
<1> QED BY <1>1, InvHolds, PTL

(* With cgroups the process only dies of a job of the wrong shape, or of   *)
(* the ids taken for slots from the third job on.                          *)
THEOREM AbortsAreExplained ==
  ASSUME ~UseVMs
  PROVE  Spec => []AbortsExplained
<1>1. Inv => AbortsExplained
  BY DEF Inv
<1> QED BY <1>1, InvHolds, PTL

(* With cgroups, every freeze of the loop is undone before the next turn,  *)
(* whoever has ended in between.                                           *)
THEOREM FreezesAreUndone ==
  ASSUME ~UseVMs
  PROVE  Spec => []NothingStaysFrozen
<1>1. Inv => NothingStaysFrozen
  BY DEF Inv, Frozenness
<1> QED BY <1>1, InvHolds, PTL

(* A frozen job has its cgroup suspended on one of its machines.           *)
LEMMA FrozenCgroup ==
  ASSUME Inv, ~UseVMs, NEW j \in JobId, Frozen(j)
  PROVE  \E x \in suspended : x[2] = j
<1>1. PICK e \in id_to_config[j] : Active(j) /\ DomainAt(e) \in suspended
  BY DEF Frozen
<1>2. machine_usage[e] = j
  BY <1>1 DEF Inv, Tables, UsageMatchesConfig
<1> QED BY <1>1, <1>2 DEF DomainAt, CgroupAt

LEMMA OneFrozen ==
  ASSUME Inv, ~UseVMs
  PROVE  OneJobFrozen
<1>1. ASSUME NEW i \in JobId, NEW j \in JobId, Frozen(i), Frozen(j) PROVE i = j
  BY <1>1, FrozenCgroup DEF Inv, Frozenness
<1>2. ASSUME pc = "yield", NEW j \in JobId, Frozen(j) PROVE j = job_id
  BY <1>2, FrozenCgroup DEF Inv, Frozenness
<1> QED BY <1>1, <1>2 DEF OneJobFrozen

(* With cgroups, at most one job is frozen, and while the new job yields   *)
(* it is not the old one.                                                  *)
THEOREM OneJobIsFrozen ==
  ASSUME ~UseVMs
  PROVE  Spec => []OneJobFrozen
<1>1. Inv => OneJobFrozen
  BY OneFrozen
<1> QED BY <1>1, InvHolds, PTL

(* With either back end the old job runs again once it was measured beside *)
(* the new one; a VM an earlier job left suspended is never one of its.    *)
PartnerRuns == pc \in {"decide", "yield"} => \A j \in JobId : Frozen(j) => j = job_id

(* Nobody else's domain is that of a running job.                          *)
LEMMA OwnDomains ==
  ASSUME Inv, NEW i \in JobId, NEW j \in JobId, Active(i), Active(j),
         NEW d \in id_to_config[i], NEW e \in id_to_config[j], DomainAt(d) = DomainAt(e)
  PROVE  i = j
<1>1. d \in Elem /\ e \in Elem
  BY DEF Inv, TypeOK
<1>2. machine_usage[d] = i /\ machine_usage[e] = j
  BY <1>1 DEF Inv, Tables, UsageMatchesConfig
<1> QED BY <1>1, <1>2 DEF Inv, TypeOK, DomainAt, VmAt, CgroupAt

(* Two running jobs are in opposing columns.                               *)
LEMMA OppositeOfNewest ==
  ASSUME Inv, pc = "thaw_old", NEW j \in JobId, j # job_id, Active(j), NEW e \in id_to_config[j]
  PROVE  e \in InUse(generate_opposing_config(job_id))
<1> USE DEF Inv
<1>1. job_id \in JobId /\ job_id < cmd_counter /\ Active(job_id)
  BY OpposingColumn DEF Bookkeeping, Measuring, LoopPoints
<1>2. j < cmd_counter
  BY NJobsAssumption DEF Tables, Active, JobId
<1>3. PICK s \in Slot : id_to_config[j] = Config(s)
  BY <1>2 DEF WholeColumns
<1>4. PICK t \in Slot : id_to_config[job_id] = Config(t)
  BY <1>1 DEF WholeColumns
<1>5. e \in Elem /\ machine_usage[e] = j
  BY DEF TypeOK, Tables, UsageMatchesConfig
<1>6. s # t
  BY <1>1, <1>3, <1>4, <1>5 DEF Tables, UsageMatchesConfig
<1>7. s = (t + 1) % 2
  <2>1. (0 + 1) % 2 = 1 /\ (1 + 1) % 2 = 0
    OBVIOUS
  <2> QED BY <1>6, <2>1 DEF Slot
<1>8. PICK m \in Machine : e = <<m, s>>
  BY <1>3 DEF Config
<1>9. <<m, t>> \in id_to_config[job_id] /\ e = Opposing(<<m, t>>)
  BY <1>4, <1>7, <1>8 DEF Config, Opposing
<1>10. machine_usage[e] # Empty
  BY <1>5, NJobsAssumption DEF Empty, JobId
<1> QED BY <1>9, <1>10 DEF generate_opposing_config, InUse

(* Nobody is frozen by a step that suspends nothing.                       *)
LEMMA FrozenFrame ==
  ASSUME Inv, Inv', NEW j \in JobId, suspended' \subseteq suspended,
         UNCHANGED <<id_to_config, vm_locations>>, Active(j)' => Active(j), Frozen(j)'
  PROVE  Frozen(j)
<1>1. PICK e \in id_to_config[j] : DomainAt(e)' \in suspended'
  BY DEF Frozen
<1>2. Active(j) /\ Active(j)'
  BY DEF Frozen
<1>3. e \in Elem
  BY DEF Inv, TypeOK
<1>4. machine_usage[e] = j /\ machine_usage'[e] = j
  BY <1>2, <1>3 DEF Inv, Tables, UsageMatchesConfig
<1>5. DomainAt(e)' = DomainAt(e)
  BY <1>4 DEF DomainAt, VmAt, CgroupAt
<1> QED BY <1>1, <1>2, <1>5 DEF Frozen

LEMMA PartnerStep == Inv /\ PartnerRuns /\ [Next]_vars => PartnerRuns'
<1> SUFFICES ASSUME Inv, PartnerRuns, [Next]_vars, pc' \in {"decide", "yield"},
                    NEW j \in JobId, Frozen(j)'
             PROVE  j = job_id'
  BY DEF PartnerRuns
<1>0. Inv'
  BY NextInv
<1>1. CASE thaw_old
  <2>1. /\ UNCHANGED <<thread, id_to_config, machine_usage, vm_locations, cmd_counter>>
        /\ suspended' = suspended \ {DomainAt(e) : e \in InUse(generate_opposing_config(job_id))}
        /\ pc = "thaw_old"
    BY <1>1 DEF thaw_old, tableVars, Resume, NextJob
  <2>2. PICK e \in id_to_config[j] : DomainAt(e) \in suspended' /\ Active(j)
    BY <2>1 DEF Frozen, Active, DomainAt, VmAt, CgroupAt
  <2>3. e \in InUse(generate_opposing_config(job_id)) \/ j = job_id
    BY <2>1, <2>2, OppositeOfNewest
  <2> QED BY <2>1, <2>2, <2>3 DEF job_id
<1>2. CASE decide
  <2>1. /\ UNCHANGED <<thread, id_to_config, machine_usage, vm_locations, cmd_counter>>
        /\ suspended' = suspended \cup {DomainAt(e) : e \in InUse(id_to_config[job_id])}
        /\ pc = "decide"
    BY <1>2 DEF decide, tableVars, Suspend, NextJob, Abort
  <2>2. PICK e \in id_to_config[j] : DomainAt(e) \in suspended' /\ Active(j)
    BY <2>1 DEF Frozen, Active, DomainAt, VmAt, CgroupAt
  <2>3. ASSUME DomainAt(e) \in suspended PROVE j = job_id
    BY <2>1, <2>2, <2>3 DEF PartnerRuns, Frozen
  <2>4. ASSUME NEW d \in id_to_config[job_id], DomainAt(d) = DomainAt(e) PROVE j = job_id
    <3>1. job_id \in JobId /\ Active(job_id)
      BY <2>1 DEF Inv, TypeOK, Bookkeeping, Measuring
    <3> QED BY <2>2, <2>4, <3>1, OwnDomains
  <2>5. j = job_id
    BY <2>1, <2>2, <2>3, <2>4 DEF InUse
  <2> QED BY <2>1, <2>5 DEF job_id
<1>3. CASE pc' = pc /\ UNCHANGED <<id_to_config, vm_locations, cmd_counter>>
           /\ suspended' \subseteq suspended /\ (Active(j)' => Active(j))
  BY <1>0, <1>3, FrozenFrame DEF PartnerRuns, job_id
<1>4. ASSUME Scheduler, ~thaw_old, ~decide
      PROVE  pc' = pc /\ UNCHANGED <<tableVars, thread, domainVars>>
  BY <1>4 DEF Scheduler, Ctl, init, RejectWrongSize, wait_for_ressource, Submit, NoSlot, SubmitFails,
       freeze_old, measure, wait_frozen, thaw_new, Reacquire, DoneWait, CvWait, done, dismantle,
       destroy, NextJob, Abort, Aborts
<1>5. ASSUME NEW i \in JobId, Worker(i), Alive
      PROVE  /\ pc' = pc /\ UNCHANGED <<id_to_config, vm_locations, cmd_counter>>
             /\ suspended' \subseteq suspended /\ (Active(j)' => Active(j))
  <2>1. CASE Ctl(WorkerExit(i) \/ WorkerLock(i) \/ WorkerNotify(i))
    <3>1. /\ UNCHANGED <<pc, tableVars, domainVars>>
          /\ Active(j)' <=> Active(j)
      BY <2>1, WorkerFrame DEF Ctl, Inv, WorkerExit, WorkerLock, WorkerNotify
    <3> QED BY <3>1 DEF tableVars, domainVars
  <2>2. CASE Cleanup(i)
    <3>1. WorkerCleanup(i) /\ pc' = pc /\ thread[i] = "locked"
      BY <2>2, CleanupAssertsHold DEF Cleanup, Inv, Active, command_done, Abort
    <3>2. Active(j)' => Active(j)
      BY <3>1, TablesCleanup DEF Inv
    <3> QED BY <3>1, <3>2 DEF WorkerCleanup
  <2> QED BY <1>5, <2>1, <2>2 DEF Worker
<1>6. \/ Scheduler
      \/ Alive /\ \E i \in JobId : Worker(i)
      \/ pc' = pc /\ UNCHANGED <<tableVars, thread, domainVars>>
  BY DEF Next, Ctl, SpuriousWake, vars, ctlVars
<1> QED BY <1>1, <1>2, <1>3, <1>4, <1>5, <1>6 DEF tableVars, domainVars, Active

(* PartnerRuns holds in every reachable state, with either back end.       *)
THEOREM PartnerHolds == Spec => []PartnerRuns
<1>1. Init => PartnerRuns
  BY DEF Init, CtlInit, PartnerRuns
<1> QED BY <1>1, PartnerStep, InvHolds, PTL DEF Spec

(* While the scheduler sleeps and no worker is about to wake it, some      *)
(* machine is full, and two jobs fill it.                                  *)
LEMMA Partner ==
  ASSUME Inv, PartnerRuns
  PROVE  FrozenHasPartner
<1> SUFFICES ASSUME pc = "yield", cv = "waiting", Frozen(job_id),
                    \A j \in JobId : thread[j] # "unlocked"
             PROVE  \E j \in JobId : j # job_id /\ Active(j) /\ ~Frozen(j)
  BY DEF FrozenHasPartner
<1> USE DEF Inv
<1>1. ~RessourceFree(Width, 1)
  BY DEF NoLostWakeup, Awaited
<1>2. PICK m \in Machine : \A s \in Slot : machine_usage[<<m, s>>] # Empty
  BY <1>1, RoomOnEveryMachine
<1>3. <<m, 0>> \in Elem /\ <<m, 1>> \in Elem
  BY DEF Elem, Slot
<1>4. PICK a \in JobId : Active(a) /\ <<m, 0>> \in id_to_config[a]
  BY <1>2, <1>3 DEF Slot, Tables, UsageMatchesConfig
<1>5. PICK b \in JobId : Active(b) /\ <<m, 1>> \in id_to_config[b]
  BY <1>2, <1>3 DEF Slot, Tables, UsageMatchesConfig
<1>6. a # b
  <2> SUFFICES ASSUME a = b PROVE FALSE
    OBVIOUS
  <2>1. a < cmd_counter
    BY <1>4, NJobsAssumption DEF Tables, Active, JobId
  <2>2. PICK s \in Slot : id_to_config[a] = Config(s)
    BY <2>1 DEF WholeColumns
  <2> QED BY <1>4, <1>5, <2>2 DEF Config
<1>7. PICK j \in JobId : j # job_id /\ Active(j)
  BY <1>4, <1>5, <1>6
<1>8. ~Frozen(j)
  BY <1>7 DEF PartnerRuns
<1> QED BY <1>7, <1>8

(* Whoever is frozen while the scheduler sleeps, somebody can still end    *)
(* and wake it, with either back end.                                      *)
THEOREM FrozenJobHasPartner == Spec => []FrozenHasPartner
<1>1. Inv /\ PartnerRuns => FrozenHasPartner
  BY Partner
<1> QED BY <1>1, InvHolds, PartnerHolds, PTL

-------------------------------------------------------------------------------
(* Every step is a step of the abstract allocation or a stuttering one.    *)
LEMMA AllocStep == Inv /\ [Next]_vars => [Alloc!Next]_Alloc!vars
<1> SUFFICES ASSUME Inv, [Next]_vars PROVE Alloc!Next \/ UNCHANGED Alloc!vars
  OBVIOUS
<1>0. Tables
  BY DEF Inv
<1>1. CASE Submit
  <2>1. req_cpus(job) = Width /\ cmd_counter \in JobId
    BY <1>1 DEF Submit, AtLoopHead, Inv, TypeOK
  <2>2. PICK s \in Unmarked : execute(Config(s))
    BY <1>1 DEF Submit
  <2>3. /\ Config(s) \in (SUBSET Elem) \ {{}} /\ \A e \in Config(s) : machine_usage[e] = Empty
        /\ Cardinality(Config(s)) * SlotSize >= req_cpus(job_queue[cmd_counter])
    BY <2>1, SubmitAsserts, ColumnWidth DEF job
  <2> QED BY <1>0, <2>1, <2>2, <2>3, AllocExecute
<1>2. CASE \E j \in JobId : Cleanup(j)
  BY <1>0, <1>2, CleanupAssertsHold, AllocCleanup DEF Cleanup, Active
<1>3. CASE \E j \in JobId : WorkerExit(j) \/ WorkerLock(j) \/ WorkerNotify(j)
  BY <1>0, <1>3, WorkerFrame, AllocStutter DEF tableVars
<1>4. CASE UNCHANGED <<job_queue, id_to_config, thread>>
  BY <1>4, AllocStutter DEF Active
<1>5. \/ Submit \/ \E j \in JobId : Worker(j)
      \/ UNCHANGED <<job_queue, id_to_config, thread>>
  <2>1. ASSUME Scheduler PROVE Submit \/ UNCHANGED <<job_queue, id_to_config, thread>>
    BY <2>1 DEF Scheduler, Ctl, init, RejectWrongSize, wait_for_ressource, NoSlot, SubmitFails,
         freeze_old, measure, thaw_old, decide, wait_frozen, thaw_new, Reacquire, DoneWait,
         CvWait, done, dismantle, destroy, tableVars
  <2> QED BY <2>1 DEF Next, Ctl, SpuriousWake, vars, ctlVars, tableVars
<1> QED BY <1>1, <1>2, <1>3, <1>4, <1>5 DEF Worker, Ctl

(* The controller driven by the scheduler of two jobs implements the       *)
(* abstract allocation of slots, wrong markers or not.                     *)
THEOREM Refinement == Spec => ImplementsAllocation
BY InvHolds, AllocInit, AllocStep, PTL DEF Spec, Init, ImplementsAllocation, Alloc!Spec
===============================================================================
