------------------------------ MODULE Controller ------------------------------
(***************************************************************************)
(* controllerT (src/controller.cpp) and its two back ends,                 *)
(* cgroup_controller and vm_controller: the slot table, the job table, the *)
(* worker thread of every job, the mutex/condition variable pair that the  *)
(* workers share with the scheduler thread, and the domains (cgroups or    *)
(* virtual machines) the jobs run in.                                      *)
(*                                                                         *)
(* The module gives one action, or one action fragment, per operation of   *)
(* the controller.  It has no specification of its own: a scheduler module *)
(* extends it, adds its own state and says which operation its thread      *)
(* performs when.                                                          *)
(*                                                                         *)
(* The scheduler thread owns worker_counter_mutex from the constructor on  *)
(* and gives it up only inside condition_variable::wait.                   *)
(***************************************************************************)
EXTENDS Integers, FiniteSets

CONSTANTS
    NMachines,  \* number of lines of the machine file
    SlotSize,   \* CPUs of a slot: system_config.slot_size()
    NJobs,      \* length of the job queue
    Jobs,       \* the kinds of jobT in the queue
    UseVMs      \* --vm: vm_controller instead of cgroup_controller

ASSUME NMachinesAssumption == NMachines \in Nat \ {0}
ASSUME SlotSizeAssumption  == SlotSize \in Nat \ {0}
ASSUME NJobsAssumption     == NJobs \in Nat
ASSUME JobsAssumption      ==
    Jobs \subseteq [nprocs : Nat \ {0}, threads_per_proc : Nat \ {0}]
ASSUME UseVMsAssumption    == UseVMs \in BOOLEAN

Machine == 0 .. NMachines - 1   \* indices into machines
Slot    == 0 .. 1               \* machine_usage holds two entries per machine
Elem    == Machine \X Slot      \* execute_config_elemT
JobId   == 0 .. NJobs - 1       \* cmd_counter of a job = its index in the queue
Empty   == -1                   \* numeric_limits<size_t>::max()

VARIABLES
    pc,             \* where the scheduler (main) thread is
    job_queue,      \* the job of every id
    machine_usage,  \* _machine_usage: the job in each slot, or Empty
    id_to_config,   \* _id_to_config: the slots given to each job
    cmd_counter,    \* next job id
    locked,         \* worker_counter_mutex is locked
    owns,           \* work_counter_lock.owns_lock()
    cv,             \* the scheduler thread on worker_counter_cv
    thread,         \* progress of execute_command_internal, per job
    domains,        \* domains that exist on the hosts
    suspended,      \* domains that are suspended
    vm_locations    \* vm_controller::vm_locations

tableVars  == <<machine_usage, id_to_config, cmd_counter>>
lockVars   == <<locked, owns, cv>>
domainVars == <<domains, suspended, vm_locations>>
ctlVars    == <<pc, job_queue, tableVars, lockVars, thread, domainVars>>

(***************************************************************************)
(* The points where the process ends early: a failed assertion (the build  *)
(* type defaults to Debug, so NDEBUG is not set), a fatal out-of-bounds    *)
(* access, or an exception of the unique_lock.  With "race" two threads    *)
(* interleave in sections that the mutex should keep apart: what becomes   *)
(* of the process then is undefined.                                       *)
(***************************************************************************)
Aborts == {"abort_req", "abort_select", "abort_owner", "abort_execute", "abort_cleanup",
           "abort_suspend", "abort_measure", "abort_plan", "abort_update", "abort_membw",
           "abort_bounds", "abort_unlock", "abort_lock", "race"}

Alive == pc \notin Aborts

Abort(reason) == pc' = reason

ThreadState == {"none",      \* execute() was not called yet
                "running",   \* inside system()
                "exited",    \* system() returned, lock_guard not yet acquired
                "locked",    \* inside the critical section
                "unlocked",  \* left the critical section, not yet notified
                "finished"}  \* thread function returned

-------------------------------------------------------------------------------
(* domain_name_from_config_elem: the VM placed in a slot (VMs are named by *)
(* the place they are started in), or the cgroup poncos_<job> on that      *)
(* machine.                                                                *)
VmAt(e) == vm_locations[e]

CgroupAt(e) == <<e[1], machine_usage[e]>>

DomainAt(e) == IF UseVMs THEN VmAt(e) ELSE CgroupAt(e)

(* The VMs that run after all were started, one per slot, or stopped.      *)
start_all_VMs == Elem
stop_all_VMs  == {}

(* The domains created and deleted with a job: one cgroup per machine (the *)
(* slots of a machine are merged), nothing for VMs.                        *)
create_domain(id, config) == IF UseVMs THEN {} ELSE {<<e[1], id>> : e \in config}

(* Mutant of delete_domain: the cgroups are not deleted.                   *)
KeepDomain(id) == {}

delete_domain(id) == create_domain(id, id_to_config[id])

(* The slot table with a configuration assigned to a job, or emptied.      *)
(* Mutants: only slot 0 of a machine is written; nothing is written.       *)
WithSlot0(config, id) ==
    [e \in Elem |-> IF e \in config /\ e[2] = 0 THEN id ELSE machine_usage[e]]

WithNoSlot(config, id) == machine_usage

WithSlots(config, id) ==
    [e \in Elem |-> IF e \in config THEN id ELSE machine_usage[e]]

Opposing(e) == <<e[1], (e[2] + 1) % 2>>

generate_opposing_config(id) == {Opposing(e) : e \in id_to_config[id]}

InUse(config) == {e \in config : machine_usage[e] # Empty}

FreeSlots(m) == {s \in Slot : machine_usage[<<m, s>>] = Empty}

req_cpus(job) == job.nprocs * job.threads_per_proc

(* Mutant of RessourceFree: machines are counted without looking at their  *)
(* free slots.                                                             *)
RessourceFreeAnyMachine(requested, slots_per_host) ==
    Cardinality(Machine) * SlotSize * slots_per_host >= requested

(* The predicate wait_for_ressource sleeps on.                             *)
RessourceFree(requested, slots_per_host) ==
    Cardinality({m \in Machine : Cardinality(FreeSlots(m)) >= slots_per_host})
        * SlotSize * slots_per_host >= requested

(* Mutant of AllSlotsFree: done() is content with the first free slot.     *)
SomeSlotFree == \E e \in Elem : machine_usage[e] = Empty

(* The predicate done() sleeps on.                                         *)
AllSlotsFree == \A e \in Elem : machine_usage[e] = Empty

(* Mutant of NextJob: the loop runs once too often.                        *)
NextJobTooOften(n) == IF n > NJobs THEN "done" ELSE "acquire"

(* The head of the loop over the job queue.                                *)
NextJob(n) == IF n = NJobs THEN "done" ELSE "acquire"

-------------------------------------------------------------------------------
(* The constructor reads the machine file and leaves the mutex locked:     *)
(* work_counter_lock(worker_counter_mutex).                                *)
CtlInit ==
    /\ pc = "init"
    /\ job_queue \in [JobId -> Jobs]
    /\ machine_usage = [e \in Elem |-> Empty]
    /\ id_to_config = [j \in JobId |-> {}]
    /\ cmd_counter = 0
    /\ locked = TRUE
    /\ owns = TRUE
    /\ cv = "running"
    /\ thread = [j \in JobId |-> "none"]
    /\ domains = {}
    /\ suspended = {}
    /\ vm_locations = [e \in Elem |-> e]

(* init(): vm_controller stops whatever runs and starts one VM per slot.   *)
init ==
    /\ pc = "init"
    /\ pc' = NextJob(0)
    /\ domains' = IF UseVMs THEN start_all_VMs ELSE domains
    /\ UNCHANGED <<job_queue, tableVars, lockVars, thread, suspended, vm_locations>>

-------------------------------------------------------------------------------
(* condition_variable::wait of the scheduler thread: the mutex is released *)
(* and the thread sleeps until it is notified (or wakes spuriously), then  *)
(* it competes for the mutex again.                                        *)
CvWait ==
    /\ cv' = "waiting"
    /\ locked' = FALSE
    /\ UNCHANGED <<pc, job_queue, tableVars, owns, thread, domainVars>>

SpuriousWake ==
    /\ cv = "waiting"
    /\ cv' = "woken"
    /\ UNCHANGED <<pc, job_queue, tableVars, locked, owns, thread, domainVars>>

Reacquire ==
    /\ cv = "woken"
    /\ ~locked
    /\ cv' = "running"
    /\ locked' = TRUE
    /\ UNCHANGED <<pc, job_queue, tableVars, owns, thread, domainVars>>

-------------------------------------------------------------------------------
(* Mutant of execute: the configuration is not recorded.                   *)
execute_no_config(config) ==
    /\ machine_usage' = WithSlots(config, cmd_counter)
    /\ cmd_counter' = cmd_counter + 1
    /\ domains' = domains \cup create_domain(cmd_counter, config)
    /\ thread' = [thread EXCEPT ![cmd_counter] = "running"]
    /\ UNCHANGED <<job_queue, id_to_config, lockVars, suspended, vm_locations>>

(* The assertions of cgroup_controller::generate_command: the slots cover  *)
(* the request and a slot holds a whole number of processes.               *)
CommandAsserts(job, config) ==
    ~UseVMs => /\ req_cpus(job) <= Cardinality(config) * SlotSize
               /\ SlotSize % job.threads_per_proc = 0

(* execute(): its assertions, and its effect on the tables.  The worker    *)
(* thread is started and enters system() at once.                          *)
ExecuteAsserts(job, config) ==
    /\ owns
    /\ config # {}
    /\ \A e \in config : machine_usage[e] = Empty
    /\ CommandAsserts(job, config)

execute(config) ==
    /\ machine_usage' = WithSlots(config, cmd_counter)
    /\ id_to_config' = [id_to_config EXCEPT ![cmd_counter] = config]
    /\ cmd_counter' = cmd_counter + 1
    /\ domains' = domains \cup create_domain(cmd_counter, config)
    /\ thread' = [thread EXCEPT ![cmd_counter] = "running"]
    /\ UNCHANGED <<job_queue, lockVars, suspended, vm_locations>>

(* system() returns once the job ends: no process of it can end in a       *)
(* suspended domain.                                                       *)
WorkerExit(j) ==
    /\ thread[j] = "running"
    /\ \A e \in id_to_config[j] : DomainAt(e) \notin suspended
    /\ thread' = [thread EXCEPT ![j] = "exited"]
    /\ UNCHANGED <<pc, job_queue, tableVars, lockVars, domainVars>>

(* Mutant of WorkerLock: the worker does not wait for the mutex.           *)
WorkerLockFree(j) ==
    /\ thread[j] = "exited"
    /\ locked' = TRUE
    /\ thread' = [thread EXCEPT ![j] = "locked"]
    /\ UNCHANGED <<pc, job_queue, tableVars, owns, cv, domainVars>>

WorkerLock(j) ==
    /\ thread[j] = "exited"
    /\ ~locked
    /\ locked' = TRUE
    /\ thread' = [thread EXCEPT ![j] = "locked"]
    /\ UNCHANGED <<pc, job_queue, tableVars, owns, cv, domainVars>>

(* The critical section of the worker: delete_domain, release of the slots *)
(* of the job's current configuration, end of the lock_guard.  The         *)
(* scheduler adds its command_done callback.                               *)
CleanupAsserts(j) == \A e \in id_to_config[j] : machine_usage[e] # Empty

WorkerCleanup(j) ==
    /\ domains' = domains \ delete_domain(j)
    /\ suspended' = suspended \ delete_domain(j)
    /\ machine_usage' = WithSlots(id_to_config[j], Empty)
    /\ locked' = FALSE
    /\ thread' = [thread EXCEPT ![j] = "unlocked"]
    /\ UNCHANGED <<job_queue, id_to_config, cmd_counter, owns, cv, vm_locations>>

(* Mutant of WorkerNotify: the notification is forgotten.                  *)
WorkerNoNotify(j) ==
    /\ thread[j] = "unlocked"
    /\ thread' = [thread EXCEPT ![j] = "finished"]
    /\ UNCHANGED <<pc, job_queue, tableVars, lockVars, domainVars>>

(* notify_all() after the mutex was released, then the thread ends.        *)
WorkerNotify(j) ==
    /\ thread[j] = "unlocked"
    /\ thread' = [thread EXCEPT ![j] = "finished"]
    /\ cv' = IF cv = "waiting" THEN "woken" ELSE cv
    /\ UNCHANGED <<pc, job_queue, tableVars, locked, owns, domainVars>>

-------------------------------------------------------------------------------
(* suspend_resume_config: slots without a job are skipped.  Suspending a   *)
(* VM that is not running is answered with the error that trips the        *)
(* assertion; resuming a running domain changes nothing.                   *)
SuspendAsserts(config) ==
    UseVMs => \A e \in InUse(config) : DomainAt(e) \notin suspended

Suspend(config) == suspended' = suspended \cup {DomainAt(e) : e \in InUse(config)}

Resume(config) == suspended' = suspended \ {DomainAt(e) : e \in InUse(config)}

-------------------------------------------------------------------------------
(* done(), dismantle(), and the destructors run by main(): the scheduler   *)
(* is deleted before ~controllerT joins the worker threads.                *)
DoneWait ==
    /\ pc = "done" /\ cv = "running" /\ owns
    /\ ~AllSlotsFree
    /\ CvWait

done ==
    /\ pc = "done" /\ cv = "running" /\ owns
    /\ AllSlotsFree
    /\ pc' = "dismantle"
    /\ UNCHANGED <<job_queue, tableVars, lockVars, thread, domainVars>>

dismantle ==
    /\ pc = "dismantle"
    /\ pc' = "destroy"
    /\ domains' = IF UseVMs THEN stop_all_VMs ELSE domains
    /\ suspended' = IF UseVMs THEN stop_all_VMs ELSE suspended
    /\ UNCHANGED <<job_queue, tableVars, lockVars, thread, vm_locations>>

destroy ==
    /\ pc = "destroy"
    /\ \A j \in JobId : j < cmd_counter => thread[j] = "finished"
    /\ pc' = "exit"
    /\ UNCHANGED <<job_queue, tableVars, lockVars, thread, domainVars>>

-------------------------------------------------------------------------------
(* What the controller guarantees, whichever scheduler drives it.          *)
Active(j) == thread[j] \in {"running", "exited", "locked"}

(* The two tables of the controller agree: a slot names a job exactly when *)
(* the job was started, has not been cleaned up, and has the slot in its   *)
(* configuration (execute and execute_command_internal each update only    *)
(* what they look up in one of the tables).                                *)
UsageMatchesConfig ==
    \A e \in Elem, j \in JobId :
        machine_usage[e] = j <=> Active(j) /\ e \in id_to_config[j]

(* The mutex excludes: the scheduler thread outside condition_variable::   *)
(* wait and a worker in its critical section are never two threads at once.*)
MutualExclusion ==
    /\ \A j \in JobId : thread[j] = "locked" => cv # "running"
    /\ \A i, j \in JobId : thread[i] = "locked" /\ thread[j] = "locked" => i = j

(* main() deletes the scheduler and dismantles the back end only when no   *)
(* worker can still call delete_domain or the callback.                    *)
SafeTeardown ==
    pc \in {"dismantle", "destroy", "exit"} => \A j \in JobId : ~Active(j)

(* A cgroup exists on a machine exactly while the job it was created for   *)
(* holds a slot there; nothing is left behind at the end.                  *)
CgroupsFollowJobs ==
    ~UseVMs => domains = {<<e[1], machine_usage[e]>> : e \in InUse(Elem)}

(* The refinement mapping: what a job asks for, how far it is, and the     *)
(* slots it holds, from execute() until the worker's critical section is   *)
(* left.                                                                   *)
requestBar == [j \in JobId |-> req_cpus(job_queue[j])]

phaseBar == [j \in JobId |-> IF thread[j] = "none" THEN "queued"
                             ELSE IF Active(j) THEN "placed" ELSE "ended"]

holdsBar == [j \in JobId |-> IF Active(j) THEN id_to_config[j] ELSE {}]

Alloc == INSTANCE SlotAllocation WITH
    Places   <- Elem,
    Requests <- {req_cpus(t) : t \in Jobs},
    request  <- requestBar,
    phase    <- phaseBar,
    holds    <- holdsBar

(* The tables implement the abstract allocation of slots: no step of the   *)
(* scheduler or of a worker gives a job a slot another job still holds,    *)
(* starts jobs out of order or with too few CPUs, or changes or releases   *)
(* only a part of a configuration.                                         *)
ImplementsAllocation == Alloc!Spec
===============================================================================
