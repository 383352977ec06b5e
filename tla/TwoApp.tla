-------------------------------- MODULE TwoApp --------------------------------
(***************************************************************************)
(* two_app_sched (src/scheduler_two_app.cpp) driving the controller.  All  *)
(* jobs need one slot of every machine, so at most two run at a time.  The *)
(* memory bandwidth of a new job is measured with distgen while the old    *)
(* one is frozen; if both together exceed the budget, the new job is       *)
(* frozen until one of the two has ended.                                  *)
(*                                                                         *)
(* The scheduler thread owns the mutex from wait_for_ressource() to the    *)
(* next wait, also while it sleeps, measures, freezes and thaws.  Worker   *)
(* threads can leave system() in the meantime, and no more than that.      *)
(***************************************************************************)
EXTENDS Controller

CONSTANT
    Distgen     \* what an agent replies to a distgen request, in tenths

ASSUME DistgenAssumption == Distgen \subseteq 0 .. 10

VARIABLES
    co_config_in_use,    \* per slot
    co_config_distgend,  \* per slot, in tenths
    new_slot             \* the slot of the newest job

schedVars == <<co_config_in_use, co_config_distgend, new_slot>>
vars == <<ctlVars, schedVars>>

job    == job_queue[cmd_counter]
job_id == cmd_counter - 1           \* the newest job, once it was started
Width  == NMachines * SlotSize      \* one slot of every machine

TwoInUse == co_config_in_use[0] /\ co_config_in_use[1]

(* (1 - co_config_distgend[0]) + (1 - co_config_distgend[1]) > 0.9         *)
Overload == (10 - co_config_distgend[0]) + (10 - co_config_distgend[1]) > 9

Unmarked == {s \in Slot : ~co_config_in_use[s]}

Config(s) == Machine \X {s}

-------------------------------------------------------------------------------
Init ==
    /\ CtlInit
    /\ co_config_in_use = [s \in Slot |-> FALSE]
    /\ co_config_distgend = [s \in Slot |-> 0]
    /\ new_slot = 0

(* A step of the controller that leaves the state of the scheduler alone.  *)
Ctl(A) == A /\ UNCHANGED schedVars

AtLoopHead == pc = "acquire" /\ cv = "running" /\ owns

(* assert(job.req_cpus() == machines * slot_size)                          *)
RejectWrongSize ==
    /\ AtLoopHead
    /\ req_cpus(job) # Width
    /\ Abort("abort_req")
    /\ UNCHANGED <<job_queue, tableVars, lockVars, thread, domainVars>>

wait_for_ressource ==
    /\ AtLoopHead
    /\ req_cpus(job) = Width
    /\ ~RessourceFree(Width, 1)
    /\ CvWait

(* The search for a slot by co_config_in_use, and execute().               *)
Submit ==
    /\ AtLoopHead
    /\ req_cpus(job) = Width
    /\ RessourceFree(Width, 1)
    /\ \E s \in Unmarked :
        /\ \A t \in Unmarked : s <= t
        /\ ExecuteAsserts(job, Config(s))
        /\ execute(Config(s))
        /\ co_config_in_use' = [co_config_in_use EXCEPT ![s] = TRUE]
        /\ new_slot' = s
        /\ pc' = "freeze_old"
        /\ UNCHANGED co_config_distgend

(* assert(new_slot < slots.size()), and the assertions of execute().       *)
NoSlot ==
    /\ AtLoopHead
    /\ req_cpus(job) = Width
    /\ RessourceFree(Width, 1)
    /\ Unmarked = {}
    /\ Abort("abort_select")
    /\ UNCHANGED <<job_queue, tableVars, lockVars, thread, domainVars>>

SubmitFails ==
    /\ AtLoopHead
    /\ req_cpus(job) = Width
    /\ RessourceFree(Width, 1)
    /\ \E s \in Unmarked : /\ \A t \in Unmarked : s <= t
                           /\ ~ExecuteAsserts(job, Config(s))
    /\ Abort("abort_execute")
    /\ UNCHANGED <<job_queue, tableVars, lockVars, thread, domainVars>>

-------------------------------------------------------------------------------
(* freeze_opposing(job_id), if two jobs seem to run.                       *)
freeze_old ==
    /\ pc = "freeze_old"
    /\ IF TwoInUse
       THEN LET config == generate_opposing_config(job_id) IN
            IF SuspendAsserts(config)
            THEN Suspend(config) /\ pc' = "distgen"
            ELSE Abort("abort_suspend") /\ UNCHANGED suspended
       ELSE pc' = "distgen" /\ UNCHANGED suspended
    /\ UNCHANGED <<job_queue, tableVars, lockVars, thread, domains, vm_locations, schedVars>>

(* run_distgen() collects a reply from every machine of the opposing       *)
(* configuration; the largest result is kept for the new job.              *)
run_distgen == [generate_opposing_config(job_id) -> Distgen]

measure ==
    /\ pc = "distgen"
    /\ \E result \in run_distgen : \E c \in DOMAIN result :
        /\ \A k \in DOMAIN result : result[k] <= result[c]
        /\ co_config_distgend' = [co_config_distgend EXCEPT ![new_slot] = result[c]]
    /\ pc' = "thaw_old"
    /\ UNCHANGED <<job_queue, tableVars, lockVars, thread, domainVars, co_config_in_use, new_slot>>

(* Mutant of thaw_old: the new job is thawed instead of the old one.       *)
thaw_old_thaws_new ==
    /\ pc = "thaw_old"
    /\ IF TwoInUse
       THEN Resume(id_to_config[job_id]) /\ pc' = "decide"
       ELSE pc' = NextJob(cmd_counter) /\ UNCHANGED suspended
    /\ UNCHANGED <<job_queue, tableVars, lockVars, thread, domains, vm_locations, schedVars>>

(* thaw_opposing(job_id), if two jobs seem to run.                         *)
thaw_old ==
    /\ pc = "thaw_old"
    /\ IF TwoInUse
       THEN Resume(generate_opposing_config(job_id)) /\ pc' = "decide"
       ELSE pc' = NextJob(cmd_counter) /\ UNCHANGED suspended
    /\ UNCHANGED <<job_queue, tableVars, lockVars, thread, domains, vm_locations, schedVars>>

(* Mutant of decide: the old job is frozen instead of the new one.         *)
decide_freezes_old ==
    /\ pc = "decide"
    /\ IF Overload
       THEN Suspend(generate_opposing_config(job_id)) /\ pc' = "yield"
       ELSE pc' = NextJob(cmd_counter) /\ UNCHANGED suspended
    /\ UNCHANGED <<job_queue, tableVars, lockVars, thread, domains, vm_locations, schedVars>>

(* The budget: freeze(job_id) if it is exceeded.                           *)
decide ==
    /\ pc = "decide"
    /\ IF Overload
       THEN IF SuspendAsserts(id_to_config[job_id])
            THEN Suspend(id_to_config[job_id]) /\ pc' = "yield"
            ELSE Abort("abort_suspend") /\ UNCHANGED suspended
       ELSE pc' = NextJob(cmd_counter) /\ UNCHANGED suspended
    /\ UNCHANGED <<job_queue, tableVars, lockVars, thread, domains, vm_locations, schedVars>>

(* wait_for_ressource() of the frozen job, then thaw(job_id).              *)
wait_frozen ==
    /\ pc = "yield" /\ cv = "running" /\ owns
    /\ ~RessourceFree(Width, 1)
    /\ CvWait

(* Mutant of thaw_new: the job is not thawed.                              *)
thaw_nobody ==
    /\ pc = "yield" /\ cv = "running" /\ owns
    /\ RessourceFree(Width, 1)
    /\ pc' = NextJob(cmd_counter)
    /\ UNCHANGED <<job_queue, tableVars, lockVars, thread, domainVars, schedVars>>

thaw_new ==
    /\ pc = "yield" /\ cv = "running" /\ owns
    /\ RessourceFree(Width, 1)
    /\ Resume(id_to_config[job_id])
    /\ pc' = NextJob(cmd_counter)
    /\ UNCHANGED <<job_queue, tableVars, lockVars, thread, domains, vm_locations, schedVars>>

-------------------------------------------------------------------------------
(* The callback of a worker gets the id of its job and uses it as a slot.  *)
(* Beyond the last slot the write goes past the end of both vectors: it    *)
(* hits memory nobody looks at, or the process ends (the sanitizer of the  *)
(* Clang debug build, or the allocator).                                   *)
command_done(config) ==
    IF config \in Slot
    THEN /\ co_config_in_use' = [co_config_in_use EXCEPT ![config] = FALSE]
         /\ co_config_distgend' = [co_config_distgend EXCEPT ![config] = 0]
         /\ pc' = pc
    ELSE /\ UNCHANGED <<co_config_in_use, co_config_distgend>>
         /\ pc' = pc \/ Abort("abort_bounds")

Cleanup(j) ==
    /\ thread[j] = "locked"
    /\ UNCHANGED new_slot
    /\ IF CleanupAsserts(j)
       THEN WorkerCleanup(j) /\ command_done(j)
       ELSE /\ Abort("abort_cleanup")
            /\ UNCHANGED <<job_queue, tableVars, lockVars, thread, domainVars,
                           co_config_in_use, co_config_distgend>>

Worker(j) == \/ Ctl(WorkerExit(j) \/ WorkerLock(j) \/ WorkerNotify(j))
             \/ Cleanup(j)

Scheduler ==
    \/ Ctl(init)
    \/ Ctl(RejectWrongSize) \/ Ctl(wait_for_ressource)
    \/ Submit \/ Ctl(NoSlot) \/ Ctl(SubmitFails)
    \/ freeze_old \/ measure \/ thaw_old \/ decide
    \/ Ctl(wait_frozen) \/ thaw_new
    \/ Ctl(Reacquire)
    \/ Ctl(DoneWait) \/ Ctl(done) \/ Ctl(dismantle) \/ Ctl(destroy)

Terminated == pc = "exit" \/ ~Alive

Next ==
    \/ /\ Alive
       /\ \/ Scheduler
          \/ Ctl(SpuriousWake)
          \/ \E j \in JobId : Worker(j)
    \/ Terminated /\ UNCHANGED vars

Spec == Init /\ [][Next]_vars

(* As for Consec: threads are scheduled, jobs that are not suspended end,  *)
(* the agents answer, and the mutex does not starve a worker.              *)
Fairness ==
    /\ WF_vars(Alive /\ Scheduler)
    /\ \A j \in JobId : /\ WF_vars(Alive /\ Worker(j))
                        /\ SF_vars(Alive /\ Ctl(WorkerLock(j)))

FairSpec == Spec /\ Fairness

-------------------------------------------------------------------------------
(* Every variable has its type.                                            *)
TypeOK ==
    /\ pc \in {"init", "acquire", "freeze_old", "distgen", "thaw_old", "decide", "yield",
               "done", "dismantle", "destroy", "exit"} \cup Aborts
    /\ job_queue \in [JobId -> Jobs]
    /\ machine_usage \in [Elem -> JobId \cup {Empty}]
    /\ id_to_config \in [JobId -> SUBSET Elem]
    /\ cmd_counter \in 0 .. NJobs
    /\ pc = "acquire" => cmd_counter \in JobId
    /\ pc \in {"freeze_old", "distgen", "thaw_old", "decide", "yield"} => job_id \in JobId
    /\ locked \in BOOLEAN /\ owns \in BOOLEAN
    /\ cv \in {"running", "waiting", "woken"}
    /\ thread \in [JobId -> ThreadState]
    /\ domains \subseteq Elem \cup (Machine \X JobId)
    /\ suspended \subseteq domains
    /\ vm_locations = [e \in Elem |-> e]
    /\ co_config_in_use \in [Slot -> BOOLEAN]
    /\ co_config_distgend \in [Slot -> Distgen \cup {0}]
    /\ new_slot \in Slot

Frozen(j) == Active(j) /\ \E e \in id_to_config[j] : DomainAt(e) \in suspended

(* No wake-up is lost: while the scheduler sleeps in one of its three      *)
(* waits and the condition holds, some worker is still about to notify it. *)
Awaited == \/ pc \in {"acquire", "yield"} /\ RessourceFree(Width, 1)
           \/ pc = "done" /\ AllSlotsFree

NoLostWakeup ==
    cv = "waiting" /\ Awaited => \E j \in JobId : thread[j] = "unlocked"

(* With cgroups, no domain is left suspended when the scheduler goes on to *)
(* the next job or ends, although jobs end while they are being frozen.    *)
NothingStaysFrozen ==
    Alive /\ pc \notin {"distgen", "thaw_old", "yield"} => suspended = {}

(* Whenever a job is frozen, it is the only one: its partner, or distgen   *)
(* on behalf of its partner, runs.  While the new job yields, it is the    *)
(* one that is frozen, never the old one.                                  *)
OneJobFrozen ==
    /\ \A i, j \in JobId : Frozen(i) /\ Frozen(j) => i = j
    /\ pc = "yield" => \A j \in JobId : Frozen(j) => j = job_id

(* While the new job yields and nobody has ended, two jobs fill the        *)
(* machines: there is somebody whose end wakes the frozen job up.          *)
FrozenHasPartner ==
    pc = "yield" /\ cv = "waiting" /\ Frozen(job_id) =>
        \/ \E j \in JobId : j # job_id /\ Active(j) /\ ~Frozen(j)
        \/ \E j \in JobId : thread[j] = "unlocked"

(* A frozen job is thawed or ends, unless the process dies first.          *)
FrozenJobsThaw == \A j \in JobId : Frozen(j) ~> (~Frozen(j) \/ ~Alive)

(* A queue of jobs of the right shape is worked off if it has at most two  *)
(* jobs.  A longer one is worked off or dies of the misuse of job ids as   *)
(* slots in command_done; in no case does it hang.                         *)
Runnable(j) ==
    /\ req_cpus(job_queue[j]) = Width
    /\ ~UseVMs => SlotSize % job_queue[j].threads_per_proc = 0

QueueCompletes ==
    (\A j \in JobId : Runnable(j)) ~>
        \/ pc = "exit" /\ \A j \in JobId : thread[j] = "finished"
        \/ NJobs > 2 /\ pc \in {"abort_bounds", "abort_select"}

(* Why the process can die (with cgroups): a job of the wrong shape; the   *)
(* out-of-bounds write for the third job or a later one; from the fourth   *)
(* job on, no unmarked slot.  Wrong markers never lead to an occupied slot *)
(* or to a job that is cleaned up twice.                                   *)
AbortsExplained ==
    ~Alive => \/ pc \in {"abort_req", "abort_execute"} /\ ~Runnable(cmd_counter)
              \/ pc = "abort_bounds" /\ \E j \in JobId : j >= 2 /\ thread[j] = "unlocked"
              \/ pc = "abort_select" /\ cmd_counter >= 3

(* assert(new_slot < system_config.slots.size()) (scheduler_two_app.cpp):  *)
(* wait_for_ressource() has returned, so a slot is free and found.         *)
SlotAlwaysFound == pc # "abort_select"

(* "thaws all domains with the supplied id" (controller.hpp): when the     *)
(* loop goes on, no domain given to the newest job is still suspended.     *)
ThawReachesAllDomains ==
    pc \in {"acquire", "done"} /\ cmd_counter > 0 =>
        \A e \in id_to_config[job_id] : vm_locations[e] \notin suspended
===============================================================================
