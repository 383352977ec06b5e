-------------------------------- MODULE Consec --------------------------------
(***************************************************************************)
(* multi_app_sched_consec (src/scheduler_multi_app_consec.cpp) driving the *)
(* controller: jobs are started in queue order on whole nodes, without     *)
(* co-scheduling, as soon as enough nodes are idle.  The scheduler keeps   *)
(* no state of its own and its command_done does nothing.                  *)
(***************************************************************************)
EXTENDS Controller

vars == ctlVars

Capacity == NMachines * SlotSize * 2

job == job_queue[cmd_counter]
req == req_cpus(job)

(* The loop over machine_usage: node m is looked at while the idle nodes   *)
(* before it do not yet cover the request, and taken if slot 0 is empty.   *)
IdleNode(m) == machine_usage[<<m, 0>>] = Empty

IdleBefore(m) == {n \in Machine : n < m /\ IdleNode(n)}

LookedAt(m) == Cardinality(IdleBefore(m)) * 2 * SlotSize < req

Chosen == {m \in Machine : IdleNode(m) /\ LookedAt(m)}

SelectAsserts ==
    /\ \A m \in Machine : LookedAt(m) => machine_usage[<<m, 0>>] = machine_usage[<<m, 1>>]
    /\ Cardinality(Chosen) * 2 * SlotSize >= req

-------------------------------------------------------------------------------
Init == CtlInit

AtLoopHead == pc = "acquire" /\ cv = "running" /\ owns

(* assert(job.req_cpus() <= machines * slot_size * slots)                  *)
RejectOversized ==
    /\ AtLoopHead
    /\ req > Capacity
    /\ Abort("abort_req")
    /\ UNCHANGED <<job_queue, tableVars, lockVars, thread, domainVars>>

wait_for_ressource ==
    /\ AtLoopHead
    /\ req <= Capacity
    /\ ~RessourceFree(req, 2)
    /\ CvWait

(* Selection of the nodes and execute(), under the mutex.                  *)
Submit ==
    /\ AtLoopHead
    /\ req <= Capacity
    /\ RessourceFree(req, 2)
    /\ IF SelectAsserts /\ ExecuteAsserts(job, Chosen \X Slot)
       THEN /\ execute(Chosen \X Slot)
            /\ pc' = NextJob(cmd_counter + 1)
       ELSE /\ Abort("abort_execute")
            /\ UNCHANGED <<job_queue, tableVars, lockVars, thread, domainVars>>

(* The worker's critical section with multi_app_sched_consec::command_done *)
(* as callback.                                                            *)
Cleanup(j) ==
    /\ thread[j] = "locked"
    /\ IF CleanupAsserts(j)
       THEN WorkerCleanup(j) /\ pc' = pc
       ELSE /\ Abort("abort_cleanup")
            /\ UNCHANGED <<job_queue, tableVars, lockVars, thread, domainVars>>

Worker(j) == WorkerExit(j) \/ WorkerLock(j) \/ Cleanup(j) \/ WorkerNotify(j)

Scheduler == \/ init
             \/ RejectOversized \/ wait_for_ressource \/ Submit
             \/ Reacquire
             \/ DoneWait \/ done \/ dismantle \/ destroy

Terminated == pc = "exit" \/ ~Alive

Next ==
    \/ /\ Alive
       /\ \/ Scheduler
          \/ SpuriousWake
          \/ \E j \in JobId : Worker(j)
    \/ Terminated /\ UNCHANGED vars

Spec == Init /\ [][Next]_vars

(***************************************************************************)
(* Fairness.  Every thread is scheduled and every job ends.  A worker      *)
(* competes for the mutex with a scheduler thread that may wake up         *)
(* spuriously again and again, so its lock needs strong fairness; spurious *)
(* wake-ups are never required.                                            *)
(***************************************************************************)
Fairness ==
    /\ WF_vars(Alive /\ Scheduler)
    /\ \A j \in JobId : /\ WF_vars(Alive /\ Worker(j))
                        /\ SF_vars(Alive /\ WorkerLock(j))

FairSpec == Spec /\ Fairness

-------------------------------------------------------------------------------
(* Every variable has its type, the loop over the queue stays inside it,   *)
(* and nothing is ever suspended or moved.                                 *)
TypeOK ==
    /\ pc \in {"init", "acquire", "done", "dismantle", "destroy", "exit"} \cup Aborts
    /\ job_queue \in [JobId -> Jobs]
    /\ machine_usage \in [Elem -> JobId \cup {Empty}]
    /\ id_to_config \in [JobId -> SUBSET Elem]
    /\ cmd_counter \in 0 .. NJobs
    /\ pc = "acquire" => cmd_counter \in JobId
    /\ locked \in BOOLEAN
    /\ owns \in BOOLEAN
    /\ cv \in {"running", "waiting", "woken"}
    /\ thread \in [JobId -> ThreadState]
    /\ domains \subseteq Elem \cup (Machine \X JobId)
    /\ suspended = {}
    /\ vm_locations = [e \in Elem |-> e]

(* No wake-up is lost although notify_all() is called after the mutex was  *)
(* released: while the scheduler sleeps and what it waits for holds, some  *)
(* worker is still about to notify it.                                     *)
Awaited == \/ pc = "acquire" /\ RessourceFree(req, 2)
           \/ pc = "done" /\ AllSlotsFree

NoLostWakeup ==
    cv = "waiting" /\ Awaited => \E j \in JobId : thread[j] = "unlocked"

(* No assertion of the scheduler or the controller fails, except the two   *)
(* that reject a job the cluster cannot run: one larger than the cluster,  *)
(* or one whose processes do not fill a slot evenly (cgroups only).        *)
Runnable(j) ==
    /\ req_cpus(job_queue[j]) <= Capacity
    /\ ~UseVMs => SlotSize % job_queue[j].threads_per_proc = 0

OnlyBadJobsAbort ==
    ~Alive => /\ pc \in {"abort_req", "abort_execute"}
              /\ ~Runnable(cmd_counter)

(* A node never runs two jobs: "the same job should be running on all      *)
(* slots of a node".                                                       *)
WholeNodes == \A m \in Machine : machine_usage[<<m, 0>>] = machine_usage[<<m, 1>>]

(* A queue of runnable jobs is worked off: every job is started, ends and  *)
(* is cleaned up, and the program exits (no job starves behind another and *)
(* neither wait_for_ressource nor done() sleeps forever).                  *)
QueueCompletes ==
    (\A j \in JobId : Runnable(j)) ~>
        (pc = "exit" /\ \A j \in JobId : thread[j] = "finished")
===============================================================================
