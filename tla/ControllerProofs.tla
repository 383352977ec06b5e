---------------------------- MODULE ControllerProofs ----------------------------
(***************************************************************************)
(* Facts about the controller that the proofs of all schedulers use: what  *)
(* starting a job, cleaning up after it, and the other steps of the        *)
(* threads do to the tables, and which of them are steps of the abstract   *)
(* allocation of slots.                                                    *)
(***************************************************************************)
EXTENDS Controller, Loops

(* What holds of the tables whichever scheduler fills them.                *)
Tables ==
    /\ job_queue \in [JobId -> Jobs]
    /\ machine_usage \in [Elem -> JobId \cup {Empty}]
    /\ id_to_config \in [JobId -> SUBSET Elem]
    /\ cmd_counter \in 0 .. NJobs
    /\ thread \in [JobId -> ThreadState]
    /\ \A j \in JobId : thread[j] = "none" <=> j >= cmd_counter
    /\ \A j \in JobId : Active(j) => id_to_config[j] # {}
    /\ UsageMatchesConfig
    /\ CgroupsFollowJobs

(* The mutex is locked by the scheduler thread outside its waits or by the *)
(* worker that is in its critical section.                                 *)
Mutex ==
    /\ locked <=> cv = "running" \/ \E j \in JobId : thread[j] = "locked"
    /\ MutualExclusion

-------------------------------------------------------------------------------
(* There are finitely many machines.                                       *)
LEMMA MachinesFinite == /\ IsFiniteSet(Machine)
                        /\ \A S \in SUBSET Machine : IsFiniteSet(S) /\ Cardinality(S) \in Nat
<1>1. IsFiniteSet(Machine)
  BY NMachinesAssumption, FS_Interval DEF Machine
<1>2. ASSUME NEW S \in SUBSET Machine PROVE IsFiniteSet(S)
  BY <1>1, FS_Subset
<1> QED BY <1>1, <1>2, FS_CardinalityType

(* A request is a positive number of CPUs.                                 *)
LEMMA ReqType == \A t \in Jobs : req_cpus(t) \in Nat \ {0}
<1> SUFFICES ASSUME NEW t \in Jobs PROVE req_cpus(t) \in Nat \ {0}
  OBVIOUS
<1>1. t.nprocs \in Nat \ {0} /\ t.threads_per_proc \in Nat \ {0}
  BY JobsAssumption
<1>2. ASSUME NEW a \in Nat \ {0}, NEW b \in Nat \ {0} PROVE a * b \in Nat \ {0}
  OBVIOUS
<1> QED BY <1>1, <1>2 DEF req_cpus

(* A machine has two slots.                                                *)
LEMMA SlotIsPair == IsFiniteSet(Slot) /\ Cardinality(Slot) = 2
<1>1. Slot = {0} \cup {1}
  BY DEF Slot
<1>2. IsFiniteSet({0}) /\ Cardinality({0}) = 1
  BY FS_Singleton
<1>3. /\ IsFiniteSet({0} \cup {1})
      /\ Cardinality({0} \cup {1}) = IF 1 \in {0} THEN Cardinality({0}) ELSE Cardinality({0}) + 1
  BY <1>2, FS_AddElement, Zenon
<1> QED BY <1>1, <1>2, <1>3

-------------------------------------------------------------------------------
(* The tables at the beginning.                                            *)
LEMMA TablesInit == CtlInit => Tables
<1> SUFFICES ASSUME CtlInit PROVE Tables
  OBVIOUS
<1> USE DEF CtlInit
<1>1. /\ machine_usage \in [Elem -> JobId \cup {Empty}] /\ cmd_counter \in 0 .. NJobs
      /\ thread \in [JobId -> ThreadState]
  BY NJobsAssumption DEF ThreadState
<1>2. \A j \in JobId : thread[j] = "none" /\ j >= cmd_counter /\ ~Active(j) /\ j # Empty
  BY NJobsAssumption DEF JobId, Active, Empty
<1>3. UsageMatchesConfig
  BY <1>2 DEF UsageMatchesConfig
<1>4. CgroupsFollowJobs
  BY DEF CgroupsFollowJobs, InUse
<1> QED BY <1>1, <1>2, <1>3, <1>4 DEF Tables

(* Steps that move a worker thread, at most, and not into or out of the    *)
(* time in which its job holds slots.                                      *)
LEMMA TablesFrame ==
  ASSUME Tables, UNCHANGED <<job_queue, tableVars>>, UseVMs \/ domains' = domains,
         thread' \in [JobId -> ThreadState],
         \A j \in JobId : (Active(j)' <=> Active(j)) /\ (thread'[j] = "none" <=> thread[j] = "none")
  PROVE  Tables'
<1> USE DEF Tables, tableVars
<1>1. UsageMatchesConfig'
  BY DEF UsageMatchesConfig
<1>2. CgroupsFollowJobs'
  BY DEF CgroupsFollowJobs, InUse
<1> QED BY <1>1, <1>2

(* A worker outside its critical section.                                  *)
LEMMA WorkerFrame ==
  ASSUME Tables, NEW j \in JobId, WorkerExit(j) \/ WorkerLock(j) \/ WorkerNotify(j)
  PROVE  /\ Tables'
         /\ UNCHANGED <<job_queue, tableVars, domainVars>>
         /\ \A i \in JobId : (Active(i)' <=> Active(i)) /\ (thread'[i] = "none" <=> thread[i] = "none")
         /\ \A i \in JobId : i # j => thread'[i] = thread[i]
<1>1. UNCHANGED <<job_queue, tableVars, domainVars>>
  BY DEF WorkerExit, WorkerLock, WorkerNotify, lockVars
<1>2. PICK s \in ThreadState \ {"none"} :
        /\ thread' = [thread EXCEPT ![j] = s]
        /\ thread[j] # "none"
        /\ s \in {"running", "exited", "locked"} <=> Active(j)
  BY DEF WorkerExit, WorkerLock, WorkerNotify, ThreadState, Active
<1>3. thread \in [JobId -> ThreadState]
  BY DEF Tables
<1>4. \A i \in JobId : /\ (Active(i)' <=> Active(i)) /\ (thread'[i] = "none" <=> thread[i] = "none")
                       /\ i # j => thread'[i] = thread[i]
  BY <1>2, <1>3 DEF Active
<1> QED BY <1>1, <1>2, <1>3, <1>4, TablesFrame DEF domainVars

(* A job that holds slots can be cleaned up.                               *)
LEMMA CleanupAssertsHold ==
  ASSUME Tables, NEW j \in JobId, Active(j)
  PROVE  CleanupAsserts(j)
BY NJobsAssumption DEF Tables, CleanupAsserts, UsageMatchesConfig, Empty, JobId

(* Nobody holds a slot when all are free.                                  *)
LEMMA FreeMeansIdle ==
  ASSUME Tables, AllSlotsFree
  PROVE  \A j \in JobId : ~Active(j)
<1> SUFFICES ASSUME NEW j \in JobId, Active(j) PROVE FALSE
  OBVIOUS
<1>1. PICK e \in Elem : e \in id_to_config[j]
  BY DEF Tables
<1>2. machine_usage[e] = j
  BY <1>1 DEF Tables, UsageMatchesConfig
<1> QED BY <1>2, NJobsAssumption DEF AllSlotsFree, Empty, JobId

(* A job starts in slots that are free.                                    *)
LEMMA TablesExecute ==
  ASSUME Tables, NEW C \in (SUBSET Elem) \ {{}}, \A e \in C : machine_usage[e] = Empty,
         cmd_counter \in JobId, execute(C)
  PROVE  /\ Tables'
         /\ \A j \in JobId : Active(j)' <=> (Active(j) \/ j = cmd_counter)
         /\ \A j \in JobId : j # cmd_counter => thread'[j] = thread[j] /\ id_to_config'[j] = id_to_config[j]
         /\ id_to_config'[cmd_counter] = C /\ thread[cmd_counter] = "none"
         /\ thread'[cmd_counter] = "running"
         /\ \A e \in Elem : machine_usage'[e] = IF e \in C THEN cmd_counter ELSE machine_usage[e]
<1> USE DEF Tables
<1>0. PICK id \in JobId : id = cmd_counter
  OBVIOUS
<1>1. id \in Nat /\ id # Empty
  BY NJobsAssumption DEF JobId, Empty
<1>2. /\ machine_usage' = [e \in Elem |-> IF e \in C THEN id ELSE machine_usage[e]]
      /\ id_to_config' = [id_to_config EXCEPT ![id] = C]
      /\ cmd_counter' = id + 1
      /\ domains' = domains \cup create_domain(id, C)
      /\ thread' = [thread EXCEPT ![id] = "running"]
      /\ job_queue' = job_queue
  BY <1>0 DEF execute, WithSlots
<1>3. thread[id] = "none" /\ ~Active(id)
  BY <1>0, <1>1 DEF Active
<1>4. \A j \in JobId : Active(j)' <=> (Active(j) \/ j = id)
  BY <1>2 DEF Active
<1>5. cmd_counter' \in 0 .. NJobs
  BY <1>0, <1>2, NJobsAssumption DEF JobId
<1>6. /\ machine_usage' \in [Elem -> JobId \cup {Empty}] /\ id_to_config' \in [JobId -> SUBSET Elem]
      /\ thread' \in [JobId -> ThreadState]
  BY <1>2 DEF ThreadState
<1>7. \A j \in JobId : thread'[j] = "none" <=> j >= cmd_counter'
  BY <1>0, <1>1, <1>2, <1>3 DEF JobId
<1>8. \A j \in JobId : Active(j)' => id_to_config'[j] # {}
  BY <1>2, <1>4
<1>9. UsageMatchesConfig'
  <2> SUFFICES ASSUME NEW e \in Elem, NEW j \in JobId
               PROVE  machine_usage'[e] = j <=> Active(j)' /\ e \in id_to_config'[j]
    BY DEF UsageMatchesConfig
  <2>1. machine_usage[e] = j <=> Active(j) /\ e \in id_to_config[j]
    BY DEF UsageMatchesConfig
  <2>2. j # Empty
    BY NJobsAssumption DEF JobId, Empty
  <2>3. CASE j = id
    BY <1>2, <1>3, <1>4, <2>1, <2>3
  <2>4. CASE j # id
    BY <1>2, <1>4, <2>1, <2>2, <2>4
  <2> QED BY <2>3, <2>4
<1>10. CgroupsFollowJobs'
  <2> SUFFICES ASSUME ~UseVMs
               PROVE  domains' = {<<e[1], machine_usage'[e]>> : e \in InUse(Elem)'}
    BY DEF CgroupsFollowJobs
  <2>1. domains' = domains \cup {<<e[1], id>> : e \in C}
    BY <1>2 DEF create_domain
  <2>2. domains = {<<e[1], machine_usage[e]>> : e \in InUse(Elem)}
    BY DEF CgroupsFollowJobs
  <2>3. InUse(Elem)' = InUse(Elem) \cup C
    BY <1>1, <1>2 DEF InUse
  <2>4. /\ \A e \in C : machine_usage'[e] = id
        /\ \A e \in InUse(Elem) : e \notin C /\ machine_usage'[e] = machine_usage[e]
    BY <1>2 DEF InUse
  <2> QED BY <2>1, <2>2, <2>3, <2>4
<1> QED BY <1>0, <1>2, <1>3, <1>4, <1>5, <1>6, <1>7, <1>8, <1>9, <1>10

(* A job gives its slots back.                                             *)
LEMMA TablesCleanup ==
  ASSUME Tables, NEW j \in JobId, thread[j] = "locked", WorkerCleanup(j)
  PROVE  /\ Tables'
         /\ \A i \in JobId : Active(i)' <=> (Active(i) /\ i # j)
         /\ \A i \in JobId : i # j => thread'[i] = thread[i]
         /\ thread'[j] = "unlocked"
         /\ \A e \in Elem : machine_usage'[e] = IF machine_usage[e] = j THEN Empty ELSE machine_usage[e]
<1> USE DEF Tables
<1>1. /\ machine_usage' = [e \in Elem |-> IF e \in id_to_config[j] THEN Empty ELSE machine_usage[e]]
      /\ domains' = domains \ delete_domain(j)
      /\ thread' = [thread EXCEPT ![j] = "unlocked"]
      /\ UNCHANGED <<job_queue, id_to_config, cmd_counter>>
  BY DEF WorkerCleanup, WithSlots
<1>2. Active(j) /\ j # Empty
  BY NJobsAssumption DEF Active, JobId, Empty
<1>3. \A e \in Elem : machine_usage[e] = j <=> e \in id_to_config[j]
  BY <1>2 DEF UsageMatchesConfig
<1>4. \A i \in JobId : Active(i)' <=> (Active(i) /\ i # j)
  BY <1>1 DEF Active
<1>5. \A e \in Elem : machine_usage'[e] = IF machine_usage[e] = j THEN Empty ELSE machine_usage[e]
  BY <1>1, <1>3
<1>6. /\ thread' \in [JobId -> ThreadState]
      /\ machine_usage' \in [Elem -> JobId \cup {Empty}]
      /\ \A i \in JobId : thread'[i] = "none" <=> i >= cmd_counter
  BY <1>1 DEF ThreadState
<1>7. UsageMatchesConfig'
  <2> SUFFICES ASSUME NEW e \in Elem, NEW i \in JobId
               PROVE  machine_usage'[e] = i <=> Active(i)' /\ e \in id_to_config'[i]
    BY DEF UsageMatchesConfig
  <2>1. machine_usage[e] = i <=> Active(i) /\ e \in id_to_config[i]
    BY DEF UsageMatchesConfig
  <2>2. i # Empty
    BY NJobsAssumption DEF JobId, Empty
  <2> QED BY <1>1, <1>4, <1>5, <2>1, <2>2
<1>8. CgroupsFollowJobs'
  <2> SUFFICES ASSUME ~UseVMs
               PROVE  domains' = {<<e[1], machine_usage'[e]>> : e \in InUse(Elem)'}
    BY DEF CgroupsFollowJobs
  <2>1. domains' = domains \ {<<e[1], j>> : e \in id_to_config[j]}
    BY <1>1 DEF delete_domain, create_domain
  <2>2. domains = {<<e[1], machine_usage[e]>> : e \in InUse(Elem)}
    BY DEF CgroupsFollowJobs
  <2>3. InUse(Elem)' = {e \in Elem : machine_usage[e] # Empty /\ machine_usage[e] # j}
    BY <1>5 DEF InUse
  <2>4. \A e \in InUse(Elem)' : machine_usage'[e] = machine_usage[e]
    BY <1>5, <2>3
  <2>5. \A e \in InUse(Elem) : machine_usage[e] = j => e \in id_to_config[j]
    BY <1>3 DEF InUse
  <2> QED BY <2>1, <2>2, <2>3, <2>4, <2>5 DEF InUse
<1> QED BY <1>1, <1>2, <1>4, <1>5, <1>6, <1>7, <1>8

-------------------------------------------------------------------------------
(* The mutex and the condition variable.                                   *)
LEMMA MutexInit == CtlInit => Mutex
BY DEF CtlInit, Mutex, MutualExclusion

LEMMA MutexFrame == ASSUME Mutex, UNCHANGED <<locked, cv, thread>> PROVE Mutex'
BY DEF Mutex, MutualExclusion

LEMMA MutexWait ==
  ASSUME Mutex, cv = "running", cv' = "waiting", locked' = FALSE, UNCHANGED thread
  PROVE  Mutex'
BY DEF Mutex, MutualExclusion

LEMMA MutexWake ==
  ASSUME Mutex, Reacquire \/ SpuriousWake
  PROVE  Mutex'
BY DEF Mutex, MutualExclusion, Reacquire, SpuriousWake

LEMMA MutexWorker ==
  ASSUME Tables, Mutex, NEW j \in JobId, WorkerExit(j) \/ WorkerLock(j) \/ WorkerNotify(j)
  PROVE  Mutex'
<1>1. thread \in [JobId -> ThreadState]
  BY DEF Tables
<1>2. CASE WorkerExit(j)
  BY <1>1, <1>2 DEF Mutex, MutualExclusion, WorkerExit, lockVars
<1>3. CASE WorkerLock(j)
  BY <1>1, <1>3 DEF Mutex, MutualExclusion, WorkerLock
<1>4. CASE WorkerNotify(j)
  BY <1>1, <1>4 DEF Mutex, MutualExclusion, WorkerNotify
<1> QED BY <1>2, <1>3, <1>4

LEMMA MutexExecute ==
  ASSUME Tables, Mutex, NEW C, cmd_counter \in JobId, execute(C)
  PROVE  Mutex'
<1>1. /\ UNCHANGED <<locked, cv>> /\ thread' = [thread EXCEPT ![cmd_counter] = "running"]
      /\ thread \in [JobId -> ThreadState] /\ thread[cmd_counter] = "none"
  BY DEF execute, lockVars, Tables, JobId
<1>2. \A j \in JobId : thread'[j] = "locked" <=> thread[j] = "locked"
  BY <1>1
<1> QED BY <1>1, <1>2 DEF Mutex, MutualExclusion

LEMMA MutexCleanup ==
  ASSUME Tables, Mutex, NEW j \in JobId, thread[j] = "locked", WorkerCleanup(j)
  PROVE  Mutex'
<1>1. /\ locked' = FALSE /\ cv' = cv /\ thread' = [thread EXCEPT ![j] = "unlocked"]
      /\ thread \in [JobId -> ThreadState]
  BY DEF WorkerCleanup, Tables
<1>2. cv # "running" /\ \A i \in JobId : thread'[i] # "locked"
  BY <1>1 DEF Mutex, MutualExclusion
<1> QED BY <1>1, <1>2 DEF Mutex, MutualExclusion

-------------------------------------------------------------------------------
(* Refinement of SlotAllocation.                                           *)
LEMMA AllocInit == CtlInit => Alloc!Init
<1> SUFFICES ASSUME CtlInit PROVE Alloc!Init
  OBVIOUS
<1>1. requestBar \in [JobId -> {req_cpus(t) : t \in Jobs}]
  BY DEF CtlInit, requestBar
<1>2. phaseBar = [j \in JobId |-> "queued"] /\ holdsBar = [j \in JobId |-> {}]
  BY DEF CtlInit, phaseBar, holdsBar, Active
<1> QED BY <1>1, <1>2 DEF Alloc!Init, Alloc!Job, JobId

(* A step that changes neither the queue, nor a configuration, nor what a  *)
(* worker thread means for its job, is a stuttering step of the abstract   *)
(* allocation.                                                             *)
LEMMA AllocStutter ==
  ASSUME UNCHANGED <<job_queue, id_to_config>>,
         \A j \in JobId : (Active(j)' <=> Active(j)) /\ (thread'[j] = "none" <=> thread[j] = "none")
  PROVE  UNCHANGED Alloc!vars
<1>1. requestBar' = requestBar /\ phaseBar' = phaseBar /\ holdsBar' = holdsBar
  BY DEF requestBar, phaseBar, holdsBar, req_cpus
<1> QED BY <1>1 DEF Alloc!vars

(* Starting a job places it.                                               *)
LEMMA AllocExecute ==
  ASSUME Tables, NEW C \in (SUBSET Elem) \ {{}}, \A e \in C : machine_usage[e] = Empty,
         cmd_counter \in JobId, execute(C),
         Cardinality(C) * SlotSize >= req_cpus(job_queue[cmd_counter])
  PROVE  Alloc!Next
<1>0. PICK id \in JobId : id = cmd_counter
  OBVIOUS
<1>1. /\ id_to_config' = [id_to_config EXCEPT ![id] = C]
      /\ thread' = [thread EXCEPT ![id] = "running"]
      /\ job_queue' = job_queue
  BY <1>0 DEF execute
<1>2. thread \in [JobId -> ThreadState] /\ id_to_config \in [JobId -> SUBSET Elem]
  BY DEF Tables
<1>3. \A j \in JobId : /\ Active(j)' <=> (Active(j) \/ j = id)
                       /\ thread'[j] = "none" <=> (thread[j] = "none" /\ j # id)
  BY <1>1, <1>2 DEF Active
<1>4. thread[id] = "none" /\ \A k \in JobId : k < id => thread[k] # "none"
  BY <1>0 DEF Tables, JobId
<1>5. phaseBar[id] = "queued" /\ \A k \in JobId : k < id => phaseBar[k] # "queued"
  BY <1>4 DEF phaseBar
<1>6. C \cap UNION {holdsBar[j] : j \in JobId} = {}
  <2> SUFFICES ASSUME NEW e \in C, NEW j \in JobId, e \in holdsBar[j] PROVE FALSE
    OBVIOUS
  <2>1. Active(j) /\ e \in id_to_config[j] /\ e \in Elem
    BY DEF holdsBar
  <2>2. machine_usage[e] = j
    BY <2>1 DEF Tables, UsageMatchesConfig
  <2> QED BY <2>2, NJobsAssumption DEF Empty, JobId
<1>7. Cardinality(C) * SlotSize >= requestBar[id]
  BY <1>0 DEF requestBar
<1>8. phaseBar' = [phaseBar EXCEPT ![id] = "placed"]
  BY <1>3 DEF phaseBar
<1>9. holdsBar' = [holdsBar EXCEPT ![id] = C]
  BY <1>1, <1>2, <1>3 DEF holdsBar
<1>10. requestBar' = requestBar
  BY <1>1 DEF requestBar, req_cpus
<1>11. Alloc!Job = JobId
  BY DEF Alloc!Job, JobId
<1>12. C \cap Alloc!Taken = {}
  BY <1>6, <1>11 DEF Alloc!Taken
<1>13. Alloc!Place(id, C)
  <2>1. phaseBar[id] = "queued" /\ \A k \in Alloc!Job : k < id => ~(phaseBar[k] = "queued")
    BY <1>5, <1>11
  <2>2. Alloc!Cardinality(C) = Cardinality(C)
    BY DEF Alloc!Cardinality, Cardinality
  <2> QED BY <1>7, <1>8, <1>9, <1>10, <1>12, <2>1, <2>2 DEF Alloc!Place
<1> QED BY <1>11, <1>13 DEF Alloc!Next

(* The critical section of a worker releases its job's places.             *)
LEMMA AllocCleanup ==
  ASSUME Tables, NEW j \in JobId, thread[j] = "locked", WorkerCleanup(j)
  PROVE  Alloc!Next
<1>1. Active(j)
  BY DEF Active
<1>2. /\ UNCHANGED <<job_queue, id_to_config>>
      /\ thread' = [thread EXCEPT ![j] = "unlocked"]
  BY DEF WorkerCleanup
<1>3. thread \in [JobId -> ThreadState]
  BY DEF Tables
<1>4. \A i \in JobId : /\ Active(i)' <=> (Active(i) /\ i # j)
                       /\ thread'[i] = "none" <=> thread[i] = "none"
  BY <1>1, <1>2, <1>3 DEF Active
<1>5. phaseBar' = [phaseBar EXCEPT ![j] = "ended"] /\ phaseBar[j] = "placed"
  BY <1>1, <1>4 DEF phaseBar
<1>6. holdsBar' = [holdsBar EXCEPT ![j] = {}]
  BY <1>2, <1>4 DEF holdsBar
<1>7. requestBar' = requestBar
  BY <1>2 DEF requestBar, req_cpus
<1>8. Alloc!Job = JobId
  BY DEF Alloc!Job, JobId
<1>9. Alloc!Release(j)
  BY <1>5, <1>6, <1>7 DEF Alloc!Release
<1> QED BY <1>8, <1>9 DEF Alloc!Next
===============================================================================
