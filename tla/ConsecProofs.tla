---------------------------- MODULE ConsecProofs ----------------------------
(***************************************************************************)
(* The safety properties of Consec for every cluster, every queue and both *)
(* back ends.                                                              *)
(*                                                                         *)
(* Inv is the inductive invariant: the properties themselves are almost    *)
(* inductive together; Tables, Mutex and Bookkeeping add what ties the     *)
(* worker threads to cmd_counter and the mutex to its owner.               *)
(***************************************************************************)
EXTENDS Consec, ControllerProofs

Bookkeeping ==
    /\ pc = "init" => cmd_counter = 0
    /\ cv # "running" => pc \in {"acquire", "done"}
    /\ owns

Inv ==
    /\ TypeOK
    /\ Tables
    /\ Mutex
    /\ Bookkeeping
    /\ NoLostWakeup
    /\ OnlyBadJobsAbort
    /\ WholeNodes
    /\ SafeTeardown

-------------------------------------------------------------------------------
(* Where nodes are given out as a whole, a node counts for                 *)
(* wait_for_ressource(_, slots) exactly when slot 0 is empty.              *)
LEMMA FreeNodesAreIdle ==
  ASSUME TypeOK, WholeNodes
  PROVE  {m \in Machine : Cardinality(FreeSlots(m)) >= 2} = {m \in Machine : IdleNode(m)}
<1> SUFFICES ASSUME NEW m \in Machine
             PROVE  Cardinality(FreeSlots(m)) >= 2 <=> IdleNode(m)
  OBVIOUS
<1>1. CASE IdleNode(m)
  <2>1. FreeSlots(m) = Slot
    BY <1>1 DEF FreeSlots, IdleNode, WholeNodes, Slot
  <2>2. Cardinality(Slot) = 2
    BY SlotIsPair
  <2> QED BY <1>1, <2>1, <2>2
<1>2. CASE ~IdleNode(m)
  <2>1. FreeSlots(m) = {}
    BY <1>2 DEF FreeSlots, IdleNode, WholeNodes, Slot
  <2> QED BY <1>2, <2>1, FS_EmptySet
<1> QED BY <1>1, <1>2

(* The selection loop finds enough nodes whenever wait_for_ressource       *)
(* returned: the assertion after the loop cannot fail.                     *)
LEMMA SelectionSuffices ==
  ASSUME TypeOK, WholeNodes, pc = "acquire", RessourceFree(req, 2)
  PROVE  /\ Cardinality(Chosen) * 2 * SlotSize >= req
         /\ Chosen # {}
<1> DEFINE Idle == {m \in Machine : IdleNode(m)}
           Late == {m \in Idle : ~LookedAt(m)}
<1>0. req \in Nat \ {0}
  BY ReqType DEF TypeOK, req, job
<1>1. Chosen \in SUBSET Machine /\ Idle \in SUBSET Machine
  BY DEF Chosen
<1>2. Cardinality(Chosen) \in Nat /\ IsFiniteSet(Chosen)
  BY <1>1, MachinesFinite
<1>3. Cardinality(Chosen) * 2 * SlotSize >= req
  <2>1. CASE Late = {}
    <3>1. Chosen = Idle
      BY <2>1 DEF Chosen
    <3>2. Cardinality(Idle) * SlotSize * 2 >= req
      BY FreeNodesAreIdle DEF RessourceFree
    <3> HIDE DEF Idle
    <3> QED BY <3>1, <3>2, <1>2, SlotSizeAssumption
  <2>2. CASE Late # {}
    <3>1. Late \in SUBSET Nat
      BY NMachinesAssumption DEF Machine
    <3>2. PICK m \in Late : \A k \in Late : m <= k
      BY <2>2, <3>1, NatMin
    <3>3. IdleBefore(m) \in SUBSET Chosen
      <4> SUFFICES ASSUME NEW n \in IdleBefore(m) PROVE n \in Chosen
        OBVIOUS
      <4>1. n \in Machine /\ n < m /\ IdleNode(n)
        BY DEF IdleBefore
      <4>2. n \notin Late
        BY <3>2, <4>1, NMachinesAssumption DEF Machine
      <4> QED BY <4>1, <4>2 DEF Chosen
    <3>4. Cardinality(IdleBefore(m)) <= Cardinality(Chosen)
      BY <3>3, <1>2, FS_Subset
    <3>5. Cardinality(IdleBefore(m)) \in Nat
      BY MachinesFinite DEF IdleBefore
    <3>6. ~(Cardinality(IdleBefore(m)) * 2 * SlotSize < req)
      BY DEF LookedAt
    <3>7. ASSUME NEW a \in Nat, NEW b \in Nat, NEW c \in Nat, a <= b
          PROVE  a * 2 * c <= b * 2 * c
      BY <3>7
    <3>8. Cardinality(IdleBefore(m)) * 2 * SlotSize <= Cardinality(Chosen) * 2 * SlotSize
      BY <3>4, <3>5, <3>7, <1>2, SlotSizeAssumption
    <3> QED BY <3>5, <3>6, <3>8, <1>0, <1>2, SlotSizeAssumption
  <2> QED BY <2>1, <2>2
<1>4. Chosen # {}
  <2> SUFFICES ASSUME Chosen = {} PROVE FALSE
    OBVIOUS
  <2>1. Cardinality(Chosen) = 0
    BY FS_EmptySet
  <2> QED BY <2>1, <1>0, <1>3, SlotSizeAssumption
<1> QED BY <1>3, <1>4

-------------------------------------------------------------------------------
LEMMA InitInv == Init => Inv
<1> SUFFICES ASSUME Init PROVE Inv
  OBVIOUS
<1> USE DEF Init
<1>1. Tables /\ Mutex
  BY TablesInit, MutexInit
<1> USE DEF CtlInit
<1>2. TypeOK
  BY NJobsAssumption DEF TypeOK, Aborts, ThreadState, JobId, Elem, Machine
<1>3. WholeNodes
  BY DEF WholeNodes, Elem, Slot
<1> QED
  BY <1>1, <1>2, <1>3
     DEF Inv, Bookkeeping, NoLostWakeup, OnlyBadJobsAbort, SafeTeardown, Alive, Aborts

(* The steps that only move the scheduler thread: pc, or its state on the  *)
(* condition variable, change; tables, worker threads and cgroups do not.  *)
LEMMA WaitStep ==
  ASSUME Inv, wait_for_ressource \/ DoneWait
  PROVE  Inv'
<1> USE DEF Inv
<1>1. /\ cv' = "waiting" /\ locked' = FALSE /\ cv = "running" /\ pc \in {"acquire", "done"}
      /\ UNCHANGED <<pc, job_queue, tableVars, owns, thread, domainVars>>
  BY DEF wait_for_ressource, DoneWait, CvWait, AtLoopHead
<1>2. Tables' /\ Mutex'
  BY <1>1, TablesFrame, MutexWait DEF Tables, Active, domainVars
<1> USE DEF tableVars, domainVars
<1>3. TypeOK' /\ Bookkeeping'
  BY <1>1 DEF TypeOK, Bookkeeping
<1>4. NoLostWakeup'
  BY <1>1 DEF NoLostWakeup, Awaited, wait_for_ressource, DoneWait, AtLoopHead,
              RessourceFree, FreeSlots, AllSlotsFree, req, job
<1>5. WholeNodes' /\ SafeTeardown' /\ OnlyBadJobsAbort'
  BY <1>1 DEF WholeNodes, SafeTeardown, Active, OnlyBadJobsAbort, Alive, Aborts
<1> QED BY <1>2, <1>3, <1>4, <1>5

LEMMA WakeStep ==
  ASSUME Inv, Alive, Reacquire \/ SpuriousWake
  PROVE  Inv'
<1> USE DEF Inv
<1>1. UNCHANGED <<pc, job_queue, tableVars, owns, thread, domainVars>>
  BY DEF Reacquire, SpuriousWake
<1>2. Tables' /\ Mutex'
  BY <1>1, TablesFrame, MutexWake DEF Tables, Active, domainVars
<1> USE DEF tableVars, domainVars
<1>3. TypeOK' /\ Bookkeeping' /\ NoLostWakeup'
  BY <1>1 DEF TypeOK, Bookkeeping, NoLostWakeup, Reacquire, SpuriousWake
<1>4. WholeNodes' /\ SafeTeardown' /\ OnlyBadJobsAbort'
  BY <1>1 DEF WholeNodes, SafeTeardown, Active, OnlyBadJobsAbort, Alive, Aborts
<1> QED BY <1>2, <1>3, <1>4

(* init(), the end of done(), dismantle() and the destructors.             *)
LEMMA MainStep ==
  ASSUME Inv, init \/ done \/ dismantle \/ destroy
  PROVE  Inv'
<1> USE DEF Inv
<1>1. /\ UNCHANGED <<job_queue, tableVars, lockVars, thread, vm_locations>>
      /\ pc' \in {"acquire", "done", "dismantle", "destroy", "exit"}
      /\ UseVMs \/ domains' = domains
  BY DEF init, done, dismantle, destroy, NextJob, domainVars
<1>2. Tables' /\ Mutex'
  BY <1>1, TablesFrame, MutexFrame DEF Tables, Active, lockVars
<1> USE DEF tableVars, lockVars
<1>3. TypeOK'
  <2>1. pc' = "acquire" => cmd_counter \in JobId
    BY NJobsAssumption DEF init, done, dismantle, destroy, NextJob, TypeOK, JobId, Bookkeeping
  <2>2. domains' \subseteq Elem \cup (Machine \X JobId) /\ suspended' = {}
    BY DEF init, done, dismantle, destroy, domainVars, TypeOK,
           start_all_VMs, stop_all_VMs
  <2> QED BY <1>1, <2>1, <2>2 DEF TypeOK
<1>4. Bookkeeping' /\ NoLostWakeup' /\ WholeNodes'
  BY <1>1 DEF Bookkeeping, NoLostWakeup, WholeNodes, TypeOK, init, done, dismantle, destroy
<1>5. SafeTeardown'
  <2>1. CASE done
    BY <1>1, <2>1, FreeMeansIdle DEF done, SafeTeardown, Active
  <2>2. CASE init
    BY <2>2 DEF init, SafeTeardown, NextJob
  <2>3. CASE dismantle \/ destroy
    BY <1>1, <2>3 DEF SafeTeardown, Active, dismantle, destroy
  <2> QED BY <2>1, <2>2, <2>3
<1>6. OnlyBadJobsAbort'
  BY <1>1 DEF OnlyBadJobsAbort, Alive, Aborts
<1> QED BY <1>2, <1>3, <1>4, <1>5, <1>6

-------------------------------------------------------------------------------
(* The steps of a worker outside its critical section.                     *)
LEMMA WorkerStep ==
  ASSUME Inv, Alive, NEW j \in JobId, WorkerExit(j) \/ WorkerLock(j) \/ WorkerNotify(j)
  PROVE  Inv'
<1> USE DEF Inv
<1>1. /\ Tables' /\ Mutex'
      /\ UNCHANGED <<job_queue, tableVars, domainVars>>
      /\ \A i \in JobId : Active(i)' <=> Active(i)
  BY WorkerFrame, MutexWorker
<1>2. UNCHANGED <<pc, owns>>
  BY DEF WorkerExit, WorkerLock, WorkerNotify, lockVars
<1> USE DEF tableVars, domainVars
<1>3. TypeOK' /\ Bookkeeping'
  <2>1. locked' \in BOOLEAN /\ cv' \in {"running", "waiting", "woken"} /\ (cv' = "running" <=> cv = "running")
    BY DEF WorkerExit, WorkerLock, WorkerNotify, lockVars, TypeOK
  <2> QED BY <1>1, <1>2, <2>1 DEF TypeOK, Tables, Bookkeeping
<1>4. NoLostWakeup'
  <2>1. CASE WorkerNotify(j)
    BY <2>1 DEF WorkerNotify, NoLostWakeup
  <2>2. CASE WorkerExit(j) \/ WorkerLock(j)
    <3>1. cv' = cv /\ (Awaited' <=> Awaited)
      BY <1>1, <1>2, <2>2 DEF WorkerExit, WorkerLock, lockVars, Awaited, RessourceFree, FreeSlots,
                        AllSlotsFree, req, job
    <3>2. \A i \in JobId : thread[i] = "unlocked" => thread'[i] = "unlocked"
      BY <2>2 DEF WorkerExit, WorkerLock, Tables
    <3> QED BY <3>1, <3>2 DEF NoLostWakeup
  <2> QED BY <2>1, <2>2
<1>5. SafeTeardown' /\ WholeNodes' /\ OnlyBadJobsAbort'
  BY <1>1, <1>2 DEF SafeTeardown, WholeNodes, OnlyBadJobsAbort, Alive
<1> QED BY <1>1, <1>3, <1>4, <1>5

(* The critical section of a worker.  Its assertion holds: the slots of a  *)
(* job that has not been cleaned up name the job.                          *)
LEMMA CleanupStep ==
  ASSUME Inv, Alive, NEW j \in JobId, Cleanup(j)
  PROVE  Inv'
<1> USE DEF Inv
<1>1. thread[j] = "locked" /\ Active(j)
  BY DEF Cleanup, Active
<1>2. WorkerCleanup(j) /\ pc' = pc
  BY <1>1, CleanupAssertsHold DEF Cleanup
<1>3. /\ Tables' /\ Mutex'
      /\ \A i \in JobId : Active(i)' <=> (Active(i) /\ i # j)
      /\ thread'[j] = "unlocked"
      /\ \A e \in Elem : machine_usage'[e] = IF machine_usage[e] = j THEN Empty ELSE machine_usage[e]
  BY <1>1, <1>2, TablesCleanup, MutexCleanup
<1>4. /\ UNCHANGED <<pc, job_queue, id_to_config, cmd_counter, owns, cv, vm_locations>>
      /\ locked' = FALSE /\ domains' \subseteq domains /\ suspended' = {}
  BY <1>2 DEF WorkerCleanup, TypeOK
<1>5. TypeOK' /\ Bookkeeping'
  BY <1>3, <1>4 DEF TypeOK, Tables, Bookkeeping
<1>6. NoLostWakeup'
  BY <1>3 DEF NoLostWakeup
<1>7. WholeNodes'
  <2>1. \A m \in Machine : <<m, 0>> \in Elem /\ <<m, 1>> \in Elem
    BY DEF Elem, Slot
  <2> QED BY <1>3, <2>1 DEF WholeNodes
<1>8. SafeTeardown' /\ OnlyBadJobsAbort'
  BY <1>3, <1>4 DEF SafeTeardown, OnlyBadJobsAbort, Alive
<1> QED BY <1>3, <1>5, <1>6, <1>7, <1>8

-------------------------------------------------------------------------------
(* The steps that end the process leave everything but pc alone.           *)
LEMMA AbortFrame ==
  ASSUME Inv, UNCHANGED <<job_queue, tableVars, lockVars, thread, domainVars>>,
         pc' \in Aborts, cv = "running", OnlyBadJobsAbort'
  PROVE  Inv'
<1> USE DEF Inv
<1>1. Tables' /\ Mutex'
  BY TablesFrame, MutexFrame DEF Tables, Active, lockVars, domainVars
<1> USE DEF tableVars, lockVars, domainVars
<1>2. TypeOK'
  BY DEF TypeOK, Aborts
<1>3. Bookkeeping' /\ NoLostWakeup' /\ WholeNodes' /\ SafeTeardown'
  BY DEF Bookkeeping, NoLostWakeup, WholeNodes, SafeTeardown, Aborts
<1> QED BY <1>1, <1>2, <1>3

LEMMA RejectStep ==
  ASSUME Inv, RejectOversized
  PROVE  Inv'
<1>1. /\ pc' = "abort_req" /\ pc = "acquire" /\ cv = "running"
      /\ UNCHANGED <<job_queue, tableVars, lockVars, thread, domainVars>>
  BY DEF RejectOversized, Abort, AtLoopHead
<1>2. OnlyBadJobsAbort'
  <2>1. req \in Nat /\ Capacity \in Nat /\ req > Capacity
    BY <1>1, ReqType, NMachinesAssumption, SlotSizeAssumption
       DEF Inv, TypeOK, req, job, Capacity, RejectOversized
  <2>2. ~Runnable(cmd_counter)
    BY <2>1 DEF Runnable, req, job
  <2>3. ~Runnable(cmd_counter)'
    BY <1>1, <2>2 DEF Runnable, Capacity, req_cpus, tableVars
  <2> QED BY <1>1, <2>3 DEF OnlyBadJobsAbort
<1> QED BY <1>1, <1>2, AbortFrame DEF Aborts

(* None of the assertions between wait_for_ressource() and the start of    *)
(* the job can fail, except the one on threads_per_proc.                   *)
LEMMA SubmitAsserts ==
  ASSUME Inv, Submit
  PROVE  /\ SelectAsserts
         /\ Chosen \X Slot \in (SUBSET Elem) \ {{}}
         /\ \A e \in Chosen \X Slot : machine_usage[e] = Empty
         /\ Cardinality(Chosen \X Slot) * SlotSize >= req
         /\ \/ ExecuteAsserts(job, Chosen \X Slot)
            \/ ~UseVMs /\ SlotSize % job.threads_per_proc # 0
<1> USE DEF Inv
<1>1. /\ Cardinality(Chosen) * 2 * SlotSize >= req
      /\ Chosen # {}
  BY SelectionSuffices DEF Submit, AtLoopHead
<1>2. SelectAsserts
  BY <1>1 DEF SelectAsserts, WholeNodes
<1>3. Chosen \X Slot \in (SUBSET Elem) \ {{}}
  <2>1. PICK m \in Chosen : TRUE
    BY <1>1
  <2>2. <<m, 0>> \in Chosen \X Slot
    BY DEF Slot
  <2>3. Chosen \X Slot \subseteq Elem
    BY DEF Chosen, Elem
  <2> QED BY <2>2, <2>3
<1>4. \A e \in Chosen \X Slot : machine_usage[e] = Empty
  BY DEF Chosen, IdleNode, WholeNodes, Slot
<1>5. Cardinality(Chosen \X Slot) = Cardinality(Chosen) * 2
  <2>1. IsFiniteSet(Chosen)
    BY MachinesFinite DEF Chosen
  <2> QED BY <2>1, SlotIsPair, FS_Product
<1>6. Cardinality(Chosen \X Slot) * SlotSize >= req
  BY <1>1, <1>5
<1>7. req_cpus(job) <= Cardinality(Chosen \X Slot) * SlotSize
  <2>1. req \in Nat
    BY ReqType DEF TypeOK, Submit, AtLoopHead, req, job
  <2>2. Cardinality(Chosen) \in Nat
    BY MachinesFinite DEF Chosen
  <2> QED BY <2>1, <2>2, <1>5, <1>6, SlotSizeAssumption DEF req
<1>8. ASSUME ~ExecuteAsserts(job, Chosen \X Slot)
      PROVE  ~UseVMs /\ SlotSize % job.threads_per_proc # 0
  BY <1>3, <1>4, <1>7, <1>8 DEF ExecuteAsserts, CommandAsserts, Bookkeeping
<1> QED BY <1>2, <1>3, <1>4, <1>6, <1>8

LEMMA SubmitStep ==
  ASSUME Inv, Alive, Submit
  PROVE  Inv'
<1> USE DEF Inv
<1>0. PICK C, id : C = Chosen \X Slot /\ id = cmd_counter
  OBVIOUS
<1>1. pc = "acquire" /\ cv = "running" /\ id \in JobId /\ id \in Nat
  BY <1>0, NJobsAssumption DEF Submit, AtLoopHead, TypeOK, JobId
<1>2. CASE ExecuteAsserts(job, C)
  <2>1. execute(C) /\ pc' = NextJob(id + 1)
    BY <1>0, <1>2, SubmitAsserts DEF Submit
  <2>2. C \in (SUBSET Elem) \ {{}} /\ \A e \in C : machine_usage[e] = Empty
    BY <1>0, SubmitAsserts
  <2>3. /\ Tables' /\ Mutex'
        /\ \A e \in Elem : machine_usage'[e] = IF e \in C THEN id ELSE machine_usage[e]
    BY <1>0, <1>1, <2>1, <2>2, TablesExecute, MutexExecute
  <2>4. /\ cmd_counter' = id + 1
        /\ domains' = domains \cup create_domain(id, C)
        /\ UNCHANGED <<job_queue, locked, owns, cv, suspended, vm_locations>>
    BY <1>0, <2>1 DEF execute, lockVars
  <2>5. pc' \in {"acquire", "done"} /\ (pc' = "acquire" => cmd_counter' \in JobId)
    BY <1>1, <2>1, <2>4, NJobsAssumption DEF NextJob, JobId
  <2>6. TypeOK'
    <3>1. create_domain(id, C) \subseteq Machine \X JobId
      BY <1>1, <2>2 DEF create_domain, Elem
    <3> QED BY <2>3, <2>4, <2>5, <3>1 DEF TypeOK, Tables
  <2>7. Bookkeeping' /\ NoLostWakeup' /\ SafeTeardown' /\ OnlyBadJobsAbort'
    BY <1>1, <2>4, <2>5 DEF Bookkeeping, NoLostWakeup, SafeTeardown, OnlyBadJobsAbort, Alive, Aborts
  <2>8. WholeNodes'
    <3>1. \A m \in Machine : /\ <<m, 0>> \in Elem /\ <<m, 1>> \in Elem
                             /\ <<m, 0>> \in C <=> <<m, 1>> \in C
      BY <1>0 DEF Elem, Slot
    <3> QED BY <2>3, <3>1 DEF WholeNodes
  <2> QED BY <2>3, <2>6, <2>7, <2>8
<1>3. CASE ~ExecuteAsserts(job, C)
  <2>1. /\ pc' = "abort_execute"
        /\ UNCHANGED <<job_queue, tableVars, lockVars, thread, domainVars>>
    BY <1>0, <1>3 DEF Submit, Abort
  <2>2. ~Runnable(cmd_counter)
    BY <1>0, <1>3, SubmitAsserts DEF Runnable, job
  <2>3. ~Runnable(cmd_counter)'
    BY <2>1, <2>2 DEF Runnable, Capacity, req_cpus, tableVars
  <2> QED BY <1>1, <2>1, <2>3, AbortFrame DEF OnlyBadJobsAbort, Aborts
<1> QED BY <1>2, <1>3

-------------------------------------------------------------------------------
(* Inv is preserved by every step.                                         *)
LEMMA NextInv == Inv /\ [Next]_vars => Inv'
<1> SUFFICES ASSUME Inv, [Next]_vars PROVE Inv'
  OBVIOUS
<1>1. CASE Alive /\ Scheduler
  BY <1>1, WaitStep, WakeStep, MainStep, RejectStep, SubmitStep DEF Scheduler
<1>2. CASE Alive /\ SpuriousWake
  BY <1>2, WakeStep
<1>3. CASE Alive /\ \E j \in JobId : Worker(j)
  BY <1>3, WorkerStep, CleanupStep DEF Worker
<1>4. CASE UNCHANGED vars
  <2> USE <1>4 DEF vars, ctlVars, lockVars, domainVars, Inv
  <2>1. Tables' /\ Mutex'
    BY TablesFrame, MutexFrame DEF Tables, Active
  <2>2. TypeOK' /\ Bookkeeping' /\ WholeNodes' /\ SafeTeardown'
    BY DEF TypeOK, Bookkeeping, WholeNodes, SafeTeardown, Active, tableVars
  <2>3. NoLostWakeup' /\ OnlyBadJobsAbort'
    BY DEF NoLostWakeup, Awaited, RessourceFree, FreeSlots, AllSlotsFree, req, job,
           OnlyBadJobsAbort, Alive, Runnable, Capacity, req_cpus, tableVars
  <2> QED BY <2>1, <2>2, <2>3
<1> QED BY <1>1, <1>2, <1>3, <1>4 DEF Next

(* Inv holds in every reachable state, for every cluster size, every job   *)
(* queue and both back ends.                                               *)
THEOREM InvHolds == Spec => []Inv
BY InitInv, NextInv, PTL DEF Spec

(* Type correctness of the controller driven by the consecutive scheduler. *)
THEOREM TypeCorrect == Spec => []TypeOK
<1>1. Inv => TypeOK
  BY DEF Inv
<1> QED BY <1>1, InvHolds, PTL

(* The slot table and the job table always agree.                          *)
THEOREM TablesAgree == Spec => []UsageMatchesConfig
<1>1. Inv => UsageMatchesConfig
  BY DEF Inv, Tables
<1> QED BY <1>1, InvHolds, PTL

(* worker_counter_mutex protects the tables.                               *)
THEOREM MutexProtects == Spec => []MutualExclusion
<1>1. Inv => MutualExclusion
  BY DEF Inv, Mutex
<1> QED BY <1>1, InvHolds, PTL

(* Notifying after the unlock loses no wake-up.                            *)
THEOREM WakeupsArrive == Spec => []NoLostWakeup
<1>1. Inv => NoLostWakeup
  BY DEF Inv
<1> QED BY <1>1, InvHolds, PTL

(* The assertions of scheduler and controller hold; only jobs the cluster  *)
(* cannot run are rejected.                                                *)
THEOREM AssertionsHold == Spec => []OnlyBadJobsAbort
<1>1. Inv => OnlyBadJobsAbort
  BY DEF Inv
<1> QED BY <1>1, InvHolds, PTL

(* No node is shared between jobs.                                         *)
THEOREM NodesExclusive == Spec => []WholeNodes
<1>1. Inv => WholeNodes
  BY DEF Inv
<1> QED BY <1>1, InvHolds, PTL

(* The scheduler outlives every callback.                                  *)
THEOREM TeardownSafe == Spec => []SafeTeardown
<1>1. Inv => SafeTeardown
  BY DEF Inv
<1> QED BY <1>1, InvHolds, PTL

(* No cgroup is leaked and none is missing.                                *)
THEOREM CgroupsExact == Spec => []CgroupsFollowJobs
<1>1. Inv => CgroupsFollowJobs
  BY DEF Inv, Tables
<1> QED BY <1>1, InvHolds, PTL

-------------------------------------------------------------------------------
(* Every step is a step of the abstract allocation or a stuttering one.    *)
LEMMA AllocStep == Inv /\ [Next]_vars => [Alloc!Next]_Alloc!vars
<1> SUFFICES ASSUME Inv, [Next]_vars PROVE Alloc!Next \/ UNCHANGED Alloc!vars
  OBVIOUS
<1>0. Tables
  BY DEF Inv
<1>1. CASE Submit
  <2>0. PICK C : C = Chosen \X Slot
    OBVIOUS
  <2>1. CASE ExecuteAsserts(job, C)
    <3>1. execute(C) /\ cmd_counter \in JobId
      BY <1>1, <2>0, <2>1, SubmitAsserts DEF Submit, AtLoopHead, Inv, TypeOK
    <3>2. /\ C \in (SUBSET Elem) \ {{}} /\ \A e \in C : machine_usage[e] = Empty
          /\ Cardinality(C) * SlotSize >= req_cpus(job_queue[cmd_counter])
      BY <1>1, <2>0, SubmitAsserts DEF req, job
    <3> QED BY <1>0, <3>1, <3>2, AllocExecute
  <2>2. CASE ~ExecuteAsserts(job, C)
    BY <1>1, <2>0, <2>2, AllocStutter DEF Submit, tableVars, Active
  <2> QED BY <2>1, <2>2
<1>2. CASE \E j \in JobId : Cleanup(j)
  BY <1>0, <1>2, CleanupAssertsHold, AllocCleanup DEF Cleanup, Active
<1>3. CASE \E j \in JobId : WorkerExit(j) \/ WorkerLock(j) \/ WorkerNotify(j)
  BY <1>0, <1>3, WorkerFrame, AllocStutter DEF tableVars
<1>4. CASE UNCHANGED <<job_queue, id_to_config, thread>>
  BY <1>4, AllocStutter DEF Active
<1>5. \/ Submit \/ \E j \in JobId : Worker(j)
      \/ UNCHANGED <<job_queue, id_to_config, thread>>
  BY DEF Next, Scheduler, init, RejectOversized, wait_for_ressource, Reacquire, DoneWait,
         CvWait, done, dismantle, destroy, SpuriousWake, vars, ctlVars, tableVars
<1> QED BY <1>1, <1>2, <1>3, <1>4, <1>5 DEF Worker

(* The controller driven by the consecutive scheduler implements the       *)
(* abstract allocation of slots.                                           *)
THEOREM Refinement == Spec => ImplementsAllocation
BY InvHolds, AllocInit, AllocStep, PTL DEF Spec, Init, ImplementsAllocation, Alloc!Spec
===============================================================================
