------------------------------- MODULE MultiApp -------------------------------
(***************************************************************************)
(* multi_app_sched (src/scheduler_multi_app.cpp) driving the controller:   *)
(* co-scheduling of jobs that use one slot per machine.  The bandwidth of  *)
(* a new job is measured on each of its machines while its neighbours are  *)
(* frozen.  If a machine is overloaded,                                    *)
(*   - with VMs (update_supported()) the job exchanges slots with other    *)
(*     machines, or it is frozen until something has changed;              *)
(*   - with cgroups the job is frozen and a detached watcher thread is     *)
(*     started that thaws it when its machines are no longer overloaded.   *)
(*                                                                         *)
(* The watcher threads use the controller's only unique_lock, the one the  *)
(* scheduler thread owns.  owns is its flag; a thread that finds it set    *)
(* waits without having locked the mutex, and waiting unlocks the mutex    *)
(* whoever has locked it (pthread_cond_wait on a normal glibc mutex).      *)
(* Reading the flag, unique_lock::lock() and unique_lock::unlock() are     *)
(* several steps each, since other threads use the flag in between.        *)
(*                                                                         *)
(* A critical section is a step or a few.  That is right while the mutex   *)
(* keeps the sections apart.  Where it does not, two sections may happen   *)
(* one after the other all the same, or they interleave: then the threads  *)
(* race for the tables, the queues of results and the scheduler object,    *)
(* which is undefined, and the behaviour ends with the step Race.          *)
(***************************************************************************)
EXTENDS SwapPlan

CONSTANT
    Distgen     \* what an agent replies to a distgen request, in tenths

ASSUME DistgenAssumption == Distgen \subseteq 0 .. 10

VARIABLES
    frozen,     \* the local flag of the loop: the newest job is frozen
    watch,      \* progress of the watcher thread of each job
    hosts,      \* the VMs named in the command line of each job
    load        \* what the processes in each VM use, once measured

schedVars == <<membw_util, frozen, watch, hosts, load>>
vars == <<ctlVars, schedVars>>

job    == job_queue[cmd_counter]
job_id == cmd_counter - 1           \* the newest job, once it was started

(* The local config, and id_to_config[job_id]: the same slots, since only  *)
(* the scheduler thread moves jobs and it leaves its loop afterwards.      *)
config == id_to_config[job_id]

WatchState ==
    {"none",
     "start",      \* about to call wait_for_change()
     "unowned",    \* found owns_lock() false, about to call lock()
     "locking",    \* in lock(), which found the flag unset and locks the mutex
     "setting",    \* still there: sets the flag
     "enter",      \* about to wait on the condition variable
     "waiting", "woken",
     "check",      \* looks at the machines, thaws the job
     "unlock",     \* about to call unlock()
     "release",    \* in unlock(), which found the flag set: unlocks the mutex
     "clear",      \* still there: clears the flag
     "gone"}

-------------------------------------------------------------------------------
(* The selection loop: one free slot per machine, until the request is     *)
(* covered exactly.                                                        *)
FreeUpTo(m) == {n \in Machine : n <= m /\ FreeSlots(n) # {}}

Covered(m) == Cardinality(FreeUpTo(m)) * SlotSize = req_cpus(job)

Chosen == {<<m, IF 0 \in FreeSlots(m) THEN 0 ELSE 1>> :
            m \in {n \in Machine : FreeSlots(n) # {} /\ ~ \E k \in 0 .. n - 1 : Covered(k)}}

Init ==
    /\ CtlInit
    /\ membw_util = [e \in Elem |-> 0]
    /\ frozen = FALSE
    /\ watch = [j \in JobId |-> "none"]
    /\ hosts = [j \in JobId |-> {}]
    /\ load = [e \in Elem |-> 0]

(* A step of the controller that leaves the state of the scheduler alone.  *)
Ctl(A) == A /\ UNCHANGED schedVars

(* assert(job.req_cpus() <= machines * slot_size)                          *)
RejectOversized ==
    /\ pc = "acquire"
    /\ req_cpus(job) > NMachines * SlotSize
    /\ Abort("abort_req")
    /\ UNCHANGED <<job_queue, tableVars, lockVars, thread, domainVars>>

(* if (!work_counter_lock.owns_lock()) work_counter_lock.lock(), before    *)
(* the two waits with a condition.                                         *)
BeforeWait == \/ pc = "acquire" /\ req_cpus(job) <= NMachines * SlotSize
              \/ pc = "done"

InWait == IF pc = "done" THEN "drain" ELSE "select"

owns_lock ==
    /\ BeforeWait /\ cv = "running"
    /\ IF owns THEN pc' = InWait /\ UNCHANGED cv ELSE cv' = "unowned" /\ UNCHANGED pc
    /\ UNCHANGED <<job_queue, tableVars, locked, owns, thread, domainVars>>

(* unique_lock::lock() throws, and ends the process, if the flag has been  *)
(* set in the meantime; otherwise it locks the mutex, then sets the flag.  *)
CallLock ==
    /\ cv = "unowned"
    /\ IF owns THEN Abort("abort_lock") /\ UNCHANGED cv ELSE cv' = "locking" /\ UNCHANGED pc
    /\ UNCHANGED <<job_queue, tableVars, locked, owns, thread, domainVars>>

TakeLock ==
    /\ cv = "locking" /\ ~locked
    /\ locked' = TRUE
    /\ cv' = "setting"
    /\ UNCHANGED <<pc, job_queue, tableVars, owns, thread, domainVars>>

SetOwner ==
    /\ cv = "setting"
    /\ owns' = TRUE
    /\ cv' = "running" /\ pc' = InWait
    /\ UNCHANGED <<job_queue, tableVars, locked, thread, domainVars>>

wait_for_ressource ==
    /\ pc = "select" /\ cv = "running"
    /\ ~RessourceFree(req_cpus(job), 1)
    /\ CvWait

(* Selection of the slots and execute(): assert(owns_lock()) comes first.  *)
Submit ==
    /\ pc = "select" /\ cv = "running"
    /\ RessourceFree(req_cpus(job), 1)
    /\ Cardinality(Chosen) * SlotSize = req_cpus(job)
    /\ ExecuteAsserts(job, Chosen)
    /\ execute(Chosen)
    /\ hosts' = [hosts EXCEPT ![cmd_counter] = {vm_locations[e] : e \in Chosen}]
    /\ pc' = "freeze_opposing"
    /\ UNCHANGED <<membw_util, frozen, watch, load>>

SubmitFails ==
    /\ pc = "select" /\ cv = "running"
    /\ RessourceFree(req_cpus(job), 1)
    /\ \/ Cardinality(Chosen) * SlotSize # req_cpus(job) /\ Abort("abort_select")
       \/ Cardinality(Chosen) * SlotSize = req_cpus(job) /\ ~owns /\ Abort("abort_owner")
       \/ /\ Cardinality(Chosen) * SlotSize = req_cpus(job) /\ owns
          /\ ~ExecuteAsserts(job, Chosen)
          /\ Abort("abort_execute")
    /\ UNCHANGED <<job_queue, tableVars, lockVars, thread, domainVars>>

-------------------------------------------------------------------------------
freeze_opposing ==
    /\ pc = "freeze_opposing"
    /\ LET opposing == generate_opposing_config(job_id) IN
       IF SuspendAsserts(opposing)
       THEN Suspend(opposing) /\ pc' = "measure"
       ELSE Abort("abort_suspend") /\ UNCHANGED suspended
    /\ UNCHANGED <<job_queue, tableVars, lockVars, thread, domains, vm_locations, schedVars>>

(* run_distgen(): a reply for every machine of the job.                    *)
run_distgen == [config -> Distgen]

(* The measured values go into membw_util, whose entries must be zero.     *)
measure ==
    /\ pc = "measure"
    /\ IF \A e \in config : membw_util[e] = 0
       THEN /\ \E result \in run_distgen :
                /\ membw_util' = [e \in Elem |-> IF e \in config THEN 10 - result[e] ELSE membw_util[e]]
                /\ load' = [v \in Elem |-> IF \E e \in config : vm_locations[e] = v
                                           THEN 10 - result[CHOOSE e \in config : vm_locations[e] = v]
                                           ELSE load[v]]
            /\ pc' = "thaw_opposing"
       ELSE Abort("abort_measure") /\ UNCHANGED <<membw_util, load>>
    /\ UNCHANGED <<job_queue, tableVars, lockVars, thread, domainVars, frozen, watch, hosts>>

thaw_opposing ==
    /\ pc = "thaw_opposing"
    /\ Resume(generate_opposing_config(job_id))
    /\ frozen' = FALSE
    /\ pc' = "check"
    /\ UNCHANGED <<job_queue, tableVars, lockVars, thread, domains, vm_locations,
                   membw_util, watch, hosts, load>>

-------------------------------------------------------------------------------
(* The loop after the measurement.  Its three ways out, and the wait.      *)
AtCheck == pc = "check" /\ cv = "running"

marked_machines == check_membw(config)

ThawIfFrozen == IF frozen THEN Resume(config) ELSE UNCHANGED suspended

EverythingFine ==
    /\ AtCheck
    /\ marked_machines = {}
    /\ ThawIfFrozen
    /\ pc' = NextJob(cmd_counter)
    /\ UNCHANGED <<job_queue, tableVars, lockVars, thread, domains, vm_locations, schedVars>>

(* The new configurations the scheduler may come up with; none if there    *)
(* are no candidates.                                                      *)
NewConfigs ==
    UNION {generate_new_config(config, marked_machines, c) :
            c \in find_swap_candidates(marked_machines) \ {<<>>}}

PlanAsserts(move) == \A e \in config : e[1] \in marked_machines => PairAsserts(e, move[e])

(* Mutant of Migrate: the frozen job is migrated without being thawed.     *)
MigrateFrozen(move) ==
    LET t == update_config(job_id, move) IN
    /\ machine_usage' = t.usage
    /\ id_to_config' = t.configs
    /\ vm_locations' = SwapVMs(move)
    /\ membw_util' = update_membw_util(move).util
    /\ pc' = NextJob(cmd_counter)
    /\ UNCHANGED <<job_queue, cmd_counter, lockVars, thread, domains, suspended,
                   frozen, watch, hosts, load>>

(* thaw if necessary, vm_controller::update_config, update_membw_util.     *)
Migrate(move) ==
    LET t == update_config(job_id, move) IN
    /\ ThawIfFrozen
    /\ machine_usage' = t.usage
    /\ id_to_config' = t.configs
    /\ vm_locations' = SwapVMs(move)
    /\ membw_util' = update_membw_util(move).util
    /\ pc' = NextJob(cmd_counter)
    /\ UNCHANGED <<job_queue, cmd_counter, lockVars, thread, domains, frozen, watch, hosts, load>>

(* The assertions on the way, in the order of the code.  Looking up the    *)
(* job of an empty slot reads outside id_to_job: the process ends, or the  *)
(* bytes found there only change a field of the request to the agent.      *)
MigrationFails(move) ==
    /\ IF ~PlanAsserts(move) THEN Abort("abort_plan")
       ELSE \/ LooksUpNobody(move) /\ Abort("abort_bounds")
            \/ /\ ~(MigrateAsserts(move) /\ UpdateAsserts(update_config(job_id, move), move))
               /\ Abort("abort_update")
            \/ /\ MigrateAsserts(move) /\ UpdateAsserts(update_config(job_id, move), move)
               /\ ~update_membw_util(move).ok
               /\ Abort("abort_membw")
    /\ UNCHANGED <<job_queue, tableVars, lockVars, thread, domainVars, schedVars>>

MigrationOK(move) ==
    /\ PlanAsserts(move)
    /\ MigrateAsserts(move)
    /\ UpdateAsserts(update_config(job_id, move), move)
    /\ update_membw_util(move).ok

Exchange ==
    /\ AtCheck /\ UseVMs
    /\ marked_machines # {}
    /\ \E move \in NewConfigs : \/ MigrationOK(move) /\ Migrate(move)
                               \/ MigrationFails(move)

(* freeze(job_id): with VMs the loop then waits for a change, with cgroups *)
(* a watcher thread is started and the next job is taken.                  *)
Freeze ==
    /\ AtCheck /\ ~frozen
    /\ marked_machines # {}
    /\ UseVMs => <<>> \in find_swap_candidates(marked_machines)
    /\ IF SuspendAsserts(config)
       THEN /\ Suspend(config)
            /\ frozen' = TRUE
            /\ pc' = IF UseVMs THEN "change" ELSE NextJob(cmd_counter)
            /\ watch' = IF UseVMs THEN watch ELSE [watch EXCEPT ![job_id] = "start"]
       ELSE Abort("abort_suspend") /\ UNCHANGED <<suspended, frozen, watch>>
    /\ UNCHANGED <<job_queue, tableVars, lockVars, thread, domains, vm_locations,
                   membw_util, hosts, load>>

StillFrozen ==
    /\ AtCheck /\ frozen
    /\ marked_machines # {}
    /\ <<>> \in find_swap_candidates(marked_machines)
    /\ pc' = "change"
    /\ UNCHANGED <<job_queue, tableVars, lockVars, thread, domainVars, schedVars>>

(* wait_for_change() has no condition: any wake-up ends it.                *)
wait_for_change ==
    /\ pc = "change" /\ owns
    /\ pc' = "check"
    /\ cv' = "waiting"
    /\ locked' = FALSE
    /\ UNCHANGED <<job_queue, tableVars, owns, thread, domainVars, schedVars>>

-------------------------------------------------------------------------------
(* The watcher thread of job j.                                            *)
Watch(j, from, to) ==
    /\ watch[j] = from
    /\ watch' = [watch EXCEPT ![j] = to]
    /\ UNCHANGED <<job_queue, tableVars, cv, thread, domains, vm_locations,
                   membw_util, frozen, hosts, load>>

(* wait_for_change(): the mutex is locked only if the flag is not set, and *)
(* released by the wait in any case.                                       *)
WatchOwnsLock(j) ==
    /\ Watch(j, "start", IF owns THEN "enter" ELSE "unowned")
    /\ UNCHANGED <<pc, locked, owns, suspended>>

WatchCallLock(j) ==
    /\ Watch(j, "unowned", IF owns THEN "unowned" ELSE "locking")
    /\ IF owns THEN Abort("abort_lock") ELSE pc' = pc
    /\ UNCHANGED <<locked, owns, suspended>>

WatchTakeLock(j) ==
    /\ Watch(j, "locking", "setting")
    /\ ~locked
    /\ locked' = TRUE
    /\ UNCHANGED <<pc, owns, suspended>>

WatchSetOwner(j) ==
    /\ Watch(j, "setting", "enter")
    /\ owns' = TRUE
    /\ UNCHANGED <<pc, locked, suspended>>

WatchWait(j) ==
    /\ Watch(j, "enter", "waiting")
    /\ locked' = FALSE
    /\ UNCHANGED <<pc, owns, suspended>>

WatchSpurious(j) == Watch(j, "waiting", "woken") /\ UNCHANGED <<pc, locked, owns, suspended>>

WatchReacquire(j) ==
    /\ Watch(j, "woken", "check")
    /\ ~locked
    /\ locked' = TRUE
    /\ UNCHANGED <<pc, owns, suspended>>

(* Machines of the job that are overloaded: wait again; none: thaw it.     *)
WatchAgain(j) ==
    /\ Watch(j, "check", "start")
    /\ check_membw(id_to_config[j]) # {}
    /\ UNCHANGED <<pc, locked, owns, suspended>>

WatchThaw(j) ==
    /\ Watch(j, "check", "unlock")
    /\ check_membw(id_to_config[j]) = {}
    /\ Resume(id_to_config[j])
    /\ UNCHANGED <<pc, locked, owns>>

(* unique_lock::unlock() throws, and ends the process, if the flag is not  *)
(* set; otherwise it unlocks the mutex, then clears the flag.              *)
WatchUnlock(j) ==
    /\ Watch(j, "unlock", IF owns THEN "release" ELSE "unlock")
    /\ IF owns THEN pc' = pc ELSE Abort("abort_unlock")
    /\ UNCHANGED <<locked, owns, suspended>>

WatchRelease(j) ==
    /\ Watch(j, "release", "clear")
    /\ locked' = FALSE
    /\ UNCHANGED <<pc, owns, suspended>>

WatchClear(j) ==
    /\ Watch(j, "clear", "gone")
    /\ owns' = FALSE
    /\ UNCHANGED <<pc, locked, suspended>>

Watcher(j) == \/ WatchOwnsLock(j) \/ WatchCallLock(j) \/ WatchTakeLock(j) \/ WatchSetOwner(j)
              \/ WatchWait(j) \/ WatchReacquire(j) \/ WatchAgain(j) \/ WatchThaw(j)
              \/ WatchUnlock(j) \/ WatchRelease(j) \/ WatchClear(j)

-------------------------------------------------------------------------------
(* Mutant of command_done: nothing is reset.                               *)
command_done_nothing(id) == UNCHANGED membw_util

command_done(id) ==
    membw_util' = [e \in Elem |-> IF e \in id_to_config[id] THEN 0 ELSE membw_util[e]]

(* The worker's critical section with this callback.                       *)
Cleanup(j) ==
    /\ thread[j] = "locked"
    /\ IF CleanupAsserts(j)
       THEN /\ WorkerCleanup(j) /\ pc' = pc
            /\ command_done(j)
            /\ load' = [v \in Elem |-> IF v \in hosts[j] THEN 0 ELSE load[v]]
       ELSE /\ Abort("abort_cleanup")
            /\ UNCHANGED <<job_queue, tableVars, lockVars, thread, domainVars, membw_util, load>>
    /\ UNCHANGED <<frozen, watch, hosts>>

(* notify_all() wakes the scheduler thread and the watchers.               *)
Notify(j) ==
    /\ WorkerNotify(j)
    /\ watch' = [k \in JobId |-> IF watch[k] = "waiting" THEN "woken" ELSE watch[k]]
    /\ UNCHANGED <<membw_util, frozen, hosts, load>>

Worker(j) == Ctl(WorkerExit(j) \/ WorkerLock(j)) \/ Cleanup(j) \/ Notify(j)

(* done(): the wait and what follows it.                                   *)
Drain ==
    /\ pc = "drain" /\ cv = "running"
    /\ IF AllSlotsFree
       THEN pc' = "dismantle" /\ UNCHANGED <<job_queue, tableVars, lockVars, thread, domainVars>>
       ELSE CvWait

Scheduler ==
    \/ Ctl(init)
    \/ Ctl(RejectOversized) \/ Ctl(owns_lock) \/ Ctl(CallLock) \/ Ctl(TakeLock) \/ Ctl(SetOwner)
    \/ Ctl(wait_for_ressource)
    \/ Submit \/ Ctl(SubmitFails)
    \/ freeze_opposing \/ measure \/ thaw_opposing
    \/ EverythingFine \/ Exchange \/ Freeze \/ StillFrozen \/ wait_for_change
    \/ Ctl(Reacquire)
    \/ Ctl(Drain) \/ Ctl(dismantle) \/ Ctl(destroy)

(* Two threads are in sections that the mutex should keep apart: the       *)
(* scheduler whenever it does not wait, a worker from its lock_guard on, a *)
(* watcher between its wait and unlock().  From here on they may interleave*)
(* within a section, and nothing more is said.                             *)
Overlap ==
    \/ cv = "running" /\ \E j \in JobId : thread[j] = "locked" \/ watch[j] = "check"
    \/ \E i, j \in JobId : \/ thread[i] = "locked" /\ watch[j] = "check"
                           \/ i # j /\ thread[i] = "locked" /\ thread[j] = "locked"
                           \/ i # j /\ watch[i] = "check" /\ watch[j] = "check"

Race ==
    /\ Overlap
    /\ Abort("race")
    /\ UNCHANGED <<job_queue, tableVars, lockVars, thread, domainVars>>

Terminated == pc = "exit" \/ ~Alive

Next ==
    \/ /\ Alive /\ pc # "exit"
       /\ \/ Scheduler
          \/ Ctl(SpuriousWake)
          \/ \E j \in JobId : Worker(j) \/ Watcher(j) \/ WatchSpurious(j)
          \/ Ctl(Race)
    \/ Terminated /\ UNCHANGED vars

Spec == Init /\ [][Next]_vars

(* Threads are scheduled, jobs that are not suspended end, the agents      *)
(* answer, and the mutex starves nobody who competes for it.               *)
Fairness ==
    /\ WF_vars(Alive /\ Scheduler)
    /\ SF_vars(Alive /\ Ctl(Reacquire \/ TakeLock))
    /\ \A j \in JobId : /\ WF_vars(Alive /\ Worker(j))
                        /\ SF_vars(Alive /\ Ctl(WorkerLock(j)))
                        /\ WF_vars(Alive /\ Watcher(j))
                        /\ SF_vars(Alive /\ (WatchReacquire(j) \/ WatchTakeLock(j)))

FairSpec == Spec /\ Fairness

-------------------------------------------------------------------------------
(* Every variable has its type.                                            *)
TypeOK ==
    /\ pc \in {"init", "acquire", "select", "freeze_opposing", "measure", "thaw_opposing",
               "check", "change", "done", "drain", "dismantle", "destroy", "exit"} \cup Aborts
    /\ job_queue \in [JobId -> Jobs]
    /\ machine_usage \in [Elem -> JobId \cup {Empty}]
    /\ id_to_config \in [JobId -> SUBSET Elem]
    /\ cmd_counter \in 0 .. NJobs
    /\ pc \in {"acquire", "select"} => cmd_counter \in JobId
    /\ pc \in {"freeze_opposing", "measure", "thaw_opposing", "check", "change"} =>
            job_id \in JobId
    /\ locked \in BOOLEAN /\ owns \in BOOLEAN
    /\ cv \in {"running", "waiting", "woken", "unowned", "locking", "setting"}
    /\ thread \in [JobId -> ThreadState]
    /\ domains \subseteq Elem \cup (Machine \X JobId)
    /\ suspended \subseteq domains
    /\ vm_locations \in [Elem -> Elem]
    /\ membw_util \in [Elem -> 0 .. 10] /\ load \in [Elem -> 0 .. 10]
    /\ frozen \in BOOLEAN
    /\ watch \in [JobId -> WatchState]
    /\ hosts \in [JobId -> SUBSET Elem]

Overloaded(m) == membw_util_of_node(membw_util, m) > PER_MACHINE_TH

FrozenJob(j) == Active(j) /\ \E e \in id_to_config[j] : DomainAt(e) \in suspended

(* Whatever was migrated, a job still runs in the VMs its command line     *)
(* names, and a VM is in one place: id_to_config, machine_usage and        *)
(* vm_locations are exchanged by three different functions.                *)
CommandFollowsVMs ==
    /\ \A j \in JobId : Active(j) => hosts[j] = {vm_locations[e] : e \in id_to_config[j]}
    /\ \A d, e \in Elem : vm_locations[d] = vm_locations[e] => d = e

(* membw_util says for every slot what the VM in it uses: the scheduler    *)
(* moves the measured values along with the VMs and forgets them when the  *)
(* job ends, wherever the job has been moved to.                           *)
LoadsFollowVMs == Alive => \A e \in Elem : membw_util[e] = load[vm_locations[e]]

(* With VMs, no machine is overloaded when the scheduler turns to the next *)
(* job; while it waits, only machines of the newest job are, and that job  *)
(* is frozen (or has ended).                                               *)
ThresholdKept ==
    UseVMs =>
        /\ pc \in {"acquire", "select", "done", "drain"} => \A m \in Machine : ~Overloaded(m)
        /\ pc = "check" /\ cv = "waiting" =>
            /\ \A m \in Machine : Overloaded(m) => \E e \in config : e[1] = m
            /\ \A e \in config : thread[job_id] = "running" => DomainAt(e) \in suspended

(* A job the scheduler can place: whole slots, at most one per machine.    *)
Fits(j) ==
    /\ req_cpus(job_queue[j]) % SlotSize = 0
    /\ req_cpus(job_queue[j]) <= NMachines * SlotSize
    /\ ~UseVMs => SlotSize % job_queue[j].threads_per_proc = 0

(* A VM is suspended that was given to a job that has ended: the job was   *)
(* frozen after its last process had ended, and thaw() skips empty slots.  *)
Leaked(v) ==
    /\ UseVMs /\ v \in suspended
    /\ \E j \in JobId : v \in hosts[j] /\ thread[j] \in {"unlocked", "finished"}

(* The bandwidth of job j was recorded when the job had already ended, so  *)
(* that command_done() does not forget it.  This takes the watcher of an   *)
(* earlier job, which unlocks the mutex.                                   *)
MeasuredLate(j, e) ==
    /\ thread[j] \in {"unlocked", "finished"} /\ e \in id_to_config[j]
    /\ \E k \in JobId : k < j /\ watch[k] # "none"

(* No watcher thread has been started yet.                                 *)
NoWatch == \A j \in JobId : watch[j] = "none"

(* Why the process can die.  With VMs: a job of the wrong shape, a VM left *)
(* suspended by an earlier job, or a plan that does not hold: a pair over  *)
(* the threshold, a free slot as destination, a slot the job holds on one  *)
(* of its other machines, a machine at exactly the threshold.  With        *)
(* cgroups, otherwise, only what watcher threads cause that have handled   *)
(* the lock: the scheduler misses its lock, a watcher does, somebody locks *)
(* it when a watcher or the scheduler just has, or bandwidth was left      *)
(* behind in a slot of the new job.  The slots of ended jobs are never     *)
(* found where a new job is placed or an old one cleaned up, and with VMs  *)
(* neither is their bandwidth.  All this is said up to the point where two *)
(* threads interleave within their sections, which takes a watcher thread. *)
AbortsExplained ==
    ~Alive =>
        \/ pc \in {"abort_req", "abort_select", "abort_execute"} /\ ~Fits(cmd_counter)
        \/ pc = "abort_suspend" /\ \E v \in Elem : Leaked(v)
        \/ /\ UseVMs /\ marked_machines # {}
           /\ \/ pc = "abort_plan"
              \/ pc = "abort_bounds" /\ ~ \A e \in Elem : machine_usage[e] # Empty
              \/ pc = "abort_update" /\ \E e \in config : e[1] \notin marked_machines
              \/ pc = "abort_membw" /\ \E e \in config :
                    membw_util_of_node(membw_util, e[1]) = PER_MACHINE_TH
        \/ ~UseVMs /\ pc \in {"abort_owner", "abort_unlock"} /\ \E j \in JobId : watch[j] = "gone"
        \/ /\ ~UseVMs /\ pc = "abort_lock"
           /\ \E i, j \in JobId : watch[i] = "gone" /\ watch[j] \notin {"none", "gone"}
        \/ ~UseVMs /\ pc = "abort_measure" /\ \E e \in config, j \in JobId : MeasuredLate(j, e)
        \/ ~UseVMs /\ pc = "race" /\ ~NoWatch

(* The mutex excludes the workers until the first watcher is started, and  *)
(* the lock is owned until the first watcher has released it.              *)
LockIntactWithoutWatchers ==
    /\ NoWatch => MutualExclusion
    /\ (\A j \in JobId : watch[j] # "gone") => owns

(* A queue of jobs that fit is worked off, with VMs, or the process dies,  *)
(* or it hangs for one of two reasons: a job was started in a VM that was  *)
(* left suspended, or the frozen job is too heavy even for a machine of    *)
(* its own.                                                                *)
StuckOnLeak == \E j \in JobId : Active(j) /\ \E v \in hosts[j] : Leaked(v)

TooHeavy == pc \in {"check", "change"} /\ frozen /\ \E e \in config : membw_util[e] > PER_MACHINE_TH

QueueCompletes ==
    (\A j \in JobId : Fits(j)) =>
        \/ <>(pc = "exit" /\ \A j \in JobId : thread[j] = "finished")
        \/ <>(~Alive)
        \/ <>[](StuckOnLeak \/ TooHeavy)

(* The refinement to an allocation whose jobs may be exchanged.            *)
MovingAlloc == INSTANCE MigratingAllocation WITH
    Places   <- Elem,
    Requests <- {req_cpus(t) : t \in Jobs},
    request  <- requestBar,
    phase    <- phaseBar,
    holds    <- holdsBar

(* The controller's tables implement it: an exchange reaches the tables of *)
(* both jobs of every pair in one step, takes nothing away from anybody    *)
(* and leaves no slot to two jobs.                                         *)
ImplementsMigratingAllocation == MovingAlloc!MoveSpec

-------------------------------------------------------------------------------
(* The plans the scheduler may make at this moment.                        *)
Plans == IF AtCheck /\ UseVMs THEN NewConfigs ELSE {}

(* "find nodes that are eligible to resolve the overload of                *)
(* marked_machines" (find_swap_candidates): on the machine paired with a   *)
(* marked one there is a slot whose exchange satisfies the assertions of   *)
(* generate_new_config.                                                    *)
PairsResolveOverload ==
    \A move \in Plans : \A e \in DOMAIN move :
        e[1] \in marked_machines => \E s \in Slot : PairAsserts(e, <<move[e][1], s>>)

(* "a thread for the whole purpose of waiting until the threshold on these *)
(* machines is fine again and thaw the job": once the machines of a frozen *)
(* job stay fine, it is thawed.                                            *)
WatchedJobsThaw ==
    \A j \in JobId :
        (FrozenJob(j) /\ watch[j] # "none" /\ check_membw(id_to_config[j]) = {}) ~>
            (~FrozenJob(j) \/ check_membw(id_to_config[j]) # {} \/ ~Alive)

(* The same comment: until then the job stays frozen; when the scheduler   *)
(* has turned to the next job, no part of the waiting job runs.            *)
FrozenUntilFine ==
    pc \in {"acquire", "select", "done", "drain"} =>
        \A j \in JobId :
            watch[j] \in {"start", "waiting"} /\ Active(j) /\ check_membw(id_to_config[j]) # {} =>
                \A e \in id_to_config[j] : DomainAt(e) \in suspended
===============================================================================
