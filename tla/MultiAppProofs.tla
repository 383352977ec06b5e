---------------------------- MODULE MultiAppProofs ----------------------------
(***************************************************************************)
(* The safety properties of MultiApp for every cluster, every queue and    *)
(* whatever distgen measures.                                              *)
(*                                                                         *)
(* The tables of the controller are right in whatever order the sections   *)
(* of the threads follow each other, since nobody cleans up a job twice    *)
(* and only the scheduler hands out slots (Tables).  With VMs there are no *)
(* watchers, the mutex is intact, and the newest job cannot end between    *)
(* its start and its measurement: what is said about loads and suspended   *)
(* VMs rests on that (Loads, Suspension).  With cgroups a watcher breaks   *)
(* the mutex; what is proved then holds up to the step Race, with which a  *)
(* behaviour ends whose sections interleave.                               *)
(***************************************************************************)
EXTENDS MultiApp, SwapPlanProofs

Ended(j) == thread[j] \in {"unlocked", "finished"}

BeforeMeasurement == {"init", "acquire", "select", "done", "drain", "freeze_opposing", "measure"}
AfterMeasurement  == {"thaw_opposing", "check", "change"}

(* The new job is being measured; it is being handled at all.              *)
Measuring == pc \in {"freeze_opposing", "measure", "thaw_opposing"}
Placing   == Measuring \/ pc \in {"check", "change"}

VMsOf(C) == {vm_locations[e] : e \in C}

Bookkeeping ==
    /\ pc = "init" => cmd_counter = 0 /\ suspended = {}
    /\ Alive /\ cv \in {"waiting", "woken"} => pc \in {"select", "check", "drain"}
    /\ Alive /\ cv \in {"unowned", "locking", "setting"} => pc \in {"acquire", "done"}
    /\ UseVMs /\ pc \notin {"init", "destroy", "exit"} => domains = Elem
    /\ ~UseVMs => pc # "change" /\ (pc = "check" => ~frozen)

(* A thread has found that the lock is not owned and is about to lock it.  *)
SomebodyLocks == \/ cv \in {"unowned", "locking", "setting"}
                 \/ \E j \in JobId : watch[j] \in {"unowned", "locking", "setting"}

(* This happens only after a watcher is gone, and only a watcher that is   *)
(* still there can have locked when the scheduler thread comes to it.      *)
LockCallers ==
    /\ SomebodyLocks => \E j \in JobId : watch[j] = "gone"
    /\ cv = "unowned" /\ owns => \E j \in JobId : watch[j] \notin {"none", "gone"}

(* The watchers, and what they leave of the mutex.                         *)
Watchers ==
    /\ UseVMs => NoWatch
    /\ NoWatch => Mutex
    /\ \A j \in JobId : watch[j] # "none" => j < cmd_counter
    /\ ~UseVMs /\ (Measuring \/ pc = "check") => watch[job_id] = "none"
    /\ (\A j \in JobId : watch[j] # "gone") => owns
    /\ NoWatch /\ Measuring => Active(job_id)
    /\ LockCallers

(* The newest job and the VMs of all jobs.                                 *)
Placement ==
    /\ Placing => /\ OnePerMachine(config)
                  /\ hosts[job_id] = VMsOf(config)
    /\ CommandFollowsVMs

(* The bandwidth that was measured.                                        *)
Loads ==
    /\ \A e \in Elem : membw_util[e] = load[vm_locations[e]]
    /\ \A e \in Elem :
            /\ membw_util[e] # 0
            /\ machine_usage[e] = Empty \/ (pc \in {"freeze_opposing", "measure"} /\ e \in config)
            => \E j \in JobId : MeasuredLate(j, e)
    /\ UseVMs =>
        /\ pc \in BeforeMeasurement => \A m \in Machine : ~Overloaded(m)
        /\ pc \in AfterMeasurement =>
            /\ \A m \in Machine : Overloaded(m) => \E e \in config : e[1] = m
            /\ \A e \in config : membw_util[Opposing(e)] <= PER_MACHINE_TH
            /\ ~Active(job_id) => \A e \in config : membw_util[e] = 0

(* With VMs: which VMs may be suspended at which point.                    *)
Suspension ==
    UseVMs /\ Alive =>
        /\ \A v \in suspended :
            \/ Leaked(v)
            \/ pc \in {"measure", "thaw_opposing"} /\ v \in VMsOf(InUse(generate_opposing_config(job_id)))
            \/ pc \in {"check", "change"} /\ frozen /\ v \in VMsOf(config)
        /\ pc \in {"check", "change"} /\ frozen =>
                \A e \in config : thread[job_id] = "running" => VmAt(e) \in suspended
        /\ pc = "change" \/ (pc = "check" /\ cv # "running") => frozen

Inv ==
    /\ TypeOK
    /\ Tables
    /\ Bookkeeping
    /\ Watchers
    /\ Placement
    /\ Loads
    /\ Suspension
    /\ AbortsExplained

-------------------------------------------------------------------------------
LEMMA InitInv == Init => Inv
<1> SUFFICES ASSUME Init PROVE Inv
  OBVIOUS
<1>1. Tables /\ Mutex
  BY TablesInit, MutexInit DEF Init
<1> USE DEF Init, CtlInit
<1>2. TypeOK
  <2>1. job_queue \in [JobId -> Jobs]
    BY <1>1 DEF Tables
  <2>2. /\ vm_locations \in [Elem -> Elem] /\ membw_util \in [Elem -> 0 .. 10] /\ load \in [Elem -> 0 .. 10]
        /\ watch \in [JobId -> WatchState] /\ hosts \in [JobId -> SUBSET Elem]
    BY DEF WatchState
  <2>3. /\ machine_usage \in [Elem -> JobId \cup {Empty}] /\ id_to_config \in [JobId -> SUBSET Elem]
        /\ thread \in [JobId -> ThreadState] /\ cmd_counter \in 0 .. NJobs
    BY <1>1 DEF Tables
  <2> HIDE DEF Init, CtlInit
  <2>4. pc = "init" /\ locked = TRUE /\ owns = TRUE /\ cv = "running" /\ domains = {} /\ suspended = {} /\ frozen = FALSE
    BY DEF Init, CtlInit
  <2> QED BY <2>1, <2>2, <2>3, <2>4 DEF TypeOK
<1>3. Bookkeeping
  BY DEF Bookkeeping, Alive, Aborts
<1>4. Watchers
  <2>1. NoWatch
    BY DEF NoWatch
  <2>2. ~Measuring /\ pc # "check"
    BY DEF Measuring
  <2> QED BY <1>1, <2>1, <2>2 DEF Watchers, NoWatch, LockCallers, SomebodyLocks
<1>5. Placement
  BY DEF Placement, Placing, Measuring, CommandFollowsVMs, Active
<1>6. Loads
  <2>1. \A m \in Machine : membw_util_of_node(membw_util, m) = 0
    BY DEF membw_util_of_node, Elem, Slot
  <2>2. \A m \in Machine : ~Overloaded(m)
    BY <2>1 DEF Overloaded, PER_MACHINE_TH
  <2> QED BY <2>2 DEF Loads, BeforeMeasurement, AfterMeasurement
<1>7. Suspension
  BY DEF Suspension
<1>8. AbortsExplained
  BY DEF AbortsExplained, Alive, Aborts
<1> QED BY <1>1, <1>2, <1>3, <1>4, <1>5, <1>6, <1>7, <1>8 DEF Inv

-------------------------------------------------------------------------------
(* Steps that leave the tables, the worker threads and the loads alone.    *)
Quiet == /\ UNCHANGED <<job_queue, tableVars, thread, vm_locations, membw_util, hosts, load>>
         /\ UseVMs \/ domains' = domains
         /\ \A j \in JobId : watch'[j] = "none" => watch[j] = "none"

LEMMA Frame ==
  ASSUME Inv, Quiet
  PROVE  /\ Tables'
         /\ \A j : Active(j)' <=> Active(j)
         /\ (Placing' => Placing) => Placement'
         /\ /\ pc' \in {"freeze_opposing", "measure"} => pc \in {"freeze_opposing", "measure"}
            /\ UseVMs /\ pc' \in BeforeMeasurement =>
                    pc \in BeforeMeasurement \/ \A m \in Machine : ~Overloaded(m)
            /\ pc' \in AfterMeasurement => pc \in AfterMeasurement
            => Loads'
<1>0. UNCHANGED <<job_queue, machine_usage, id_to_config, cmd_counter, thread, vm_locations,
                  membw_util, hosts, load, job_id, config>>
  BY DEF Quiet, tableVars, job_id, config
<1>1. \A j : Active(j)' <=> Active(j)
  BY <1>0 DEF Active
<1>2. Tables'
  BY <1>0, <1>1, TablesFrame DEF Inv, Tables, Quiet, tableVars
<1>3. ASSUME Placing' => Placing PROVE Placement'
  BY <1>0, <1>1, <1>3 DEF Inv, Placement, CommandFollowsVMs, VMsOf
<1>4. ASSUME pc' \in {"freeze_opposing", "measure"} => pc \in {"freeze_opposing", "measure"},
             UseVMs /\ pc' \in BeforeMeasurement =>
                    pc \in BeforeMeasurement \/ \A m \in Machine : ~Overloaded(m),
             pc' \in AfterMeasurement => pc \in AfterMeasurement
      PROVE  Loads'
  <2>1. \A e \in Elem, j \in JobId : MeasuredLate(j, e) => MeasuredLate(j, e)'
    BY <1>0 DEF MeasuredLate, Quiet
  <2>2. \A m \in Machine : Overloaded(m)' <=> Overloaded(m)
    BY <1>0 DEF Overloaded
  <2>3. \A e \in Elem :
            /\ membw_util'[e] # 0
            /\ machine_usage'[e] = Empty \/ (pc' \in {"freeze_opposing", "measure"} /\ e \in config')
            => \E j \in JobId : MeasuredLate(j, e)'
    BY <1>0, <1>4, <2>1 DEF Inv, Loads
  <2>4. \A e \in Elem : membw_util'[e] = load'[vm_locations'[e]]
    BY <1>0 DEF Inv, Loads
  <2>5. ASSUME UseVMs, pc' \in BeforeMeasurement PROVE \A m \in Machine : ~Overloaded(m)'
    BY <1>4, <2>2, <2>5 DEF Inv, Loads
  <2>6. ASSUME UseVMs, pc' \in AfterMeasurement
        PROVE  /\ \A m \in Machine : Overloaded(m)' => \E e \in config' : e[1] = m
               /\ \A e \in config' : membw_util'[Opposing(e)] <= PER_MACHINE_TH
               /\ ~Active(job_id)' => \A e \in config' : membw_util'[e] = 0
    <3>1. /\ \A m \in Machine : Overloaded(m) => \E e \in config : e[1] = m
          /\ \A e \in config : membw_util[Opposing(e)] <= PER_MACHINE_TH
          /\ ~Active(job_id) => \A e \in config : membw_util[e] = 0
      BY <1>4, <2>6 DEF Inv, Loads
    <3> QED BY <1>0, <1>1, <2>2, <3>1
  <2> QED BY <2>3, <2>4, <2>5, <2>6 DEF Loads, BeforeMeasurement, AfterMeasurement
<1> QED BY <1>1, <1>2, <1>3, <1>4

(* A VM that leaked stays leaked while it is suspended.                    *)
LEMMA LeakedKept ==
  ASSUME UNCHANGED hosts, \A j \in JobId : Ended(j) => Ended(j)'
  PROVE  \A v \in suspended' : Leaked(v) => Leaked(v)'
BY DEF Leaked, Ended

(* Nobody comes to lock who was not there before.                          *)
LEMMA LocksFrame ==
  ASSUME Inv, owns' = owns, cv' = cv \/ cv' \in {"running", "waiting", "woken"},
         \A j \in JobId : watch'[j] = watch[j] \/ (watch[j] = "none" /\ watch'[j] = "start")
  PROVE  LockCallers'
BY DEF Inv, Watchers, LockCallers, SomebodyLocks

(* The steps that end the process leave everything but pc alone.           *)
LEMMA AbortFrame ==
  ASSUME Inv, UNCHANGED <<job_queue, tableVars, lockVars, thread, domainVars, schedVars>>,
         ~UseVMs \/ pc \notin {"init", "destroy", "exit"}, pc' \in Aborts, AbortsExplained'
  PROVE  Inv'
<1>1. UNCHANGED <<job_queue, machine_usage, id_to_config, cmd_counter, locked, owns, cv, thread, domains,
                  suspended, vm_locations, membw_util, frozen, watch, hosts, load>>
  BY DEF tableVars, lockVars, domainVars, schedVars
<1>2. pc' \notin BeforeMeasurement \cup AfterMeasurement \cup {"init", "destroy", "exit"}
  BY DEF Aborts, BeforeMeasurement, AfterMeasurement
<1>3. Quiet
  BY <1>1 DEF Quiet, tableVars
<1>4. ~Alive' /\ ~Placing' /\ ~Measuring' /\ pc' # "check" /\ pc' # "change"
  BY <1>2 DEF Alive, Placing, Measuring, BeforeMeasurement, AfterMeasurement
<1>5. Tables' /\ Placement' /\ Loads'
  BY <1>2, <1>3, <1>4, Frame DEF BeforeMeasurement, AfterMeasurement
<1>6. TypeOK'
  BY <1>1, <1>2 DEF Inv, TypeOK, BeforeMeasurement, AfterMeasurement
<1>7. Bookkeeping'
  BY <1>1, <1>2, <1>4 DEF Inv, Bookkeeping
<1>8. Watchers'
  <2>1. NoWatch' <=> NoWatch
    BY <1>1 DEF NoWatch
  <2>2. Mutex => Mutex'
    BY <1>1, MutexFrame
  <2>3. LockCallers'
    BY <1>1, LocksFrame
  <2> QED BY <1>1, <1>4, <2>1, <2>2, <2>3 DEF Inv, Watchers
<1>9. Suspension'
  BY <1>4 DEF Suspension
<1> QED BY <1>5, <1>6, <1>7, <1>8, <1>9 DEF Inv

(* The scheduler thread goes to sleep in one of its three waits.           *)
LEMMA WaitStep ==
  ASSUME Inv, Alive, Ctl(wait_for_ressource) \/ (Ctl(Drain) /\ pc' # "dismantle") \/ wait_for_change
  PROVE  Inv'
<1>1. /\ cv = "running" /\ cv' = "waiting" /\ locked' = FALSE /\ owns' = owns
      /\ UNCHANGED <<job_queue, machine_usage, id_to_config, cmd_counter, thread, domains,
                     suspended, vm_locations, membw_util, frozen, watch, hosts, load>>
      /\ \/ pc' = pc /\ pc \in {"select", "drain"}
         \/ pc' = "check" /\ pc = "change"
  BY DEF Ctl, wait_for_ressource, Drain, wait_for_change, CvWait, schedVars, tableVars, domainVars,
         Inv, Bookkeeping, TypeOK
<1>2. Quiet
  BY <1>1 DEF Quiet, tableVars
<1>3. Alive'
  BY <1>1 DEF Alive, Aborts
<1>4. (Placing' => Placing) /\ (Measuring' => Measuring)
  BY <1>1 DEF Placing, Measuring
<1>5. Tables' /\ Placement' /\ Loads' /\ \A j : Active(j)' <=> Active(j)
  BY <1>1, <1>2, <1>4, Frame DEF BeforeMeasurement, AfterMeasurement
<1>6. TypeOK'
  BY <1>1 DEF Inv, TypeOK, job_id
<1>7. Bookkeeping'
  BY <1>1 DEF Inv, Bookkeeping
<1>8. Watchers'
  <2>1. NoWatch' <=> NoWatch
    BY <1>1 DEF NoWatch
  <2>2. Mutex => Mutex'
    BY <1>1, MutexWait
  <2>3. ~UseVMs => pc # "change"
    BY DEF Inv, Bookkeeping
  <2>4. LockCallers'
    BY <1>1, LocksFrame
  <2> QED BY <1>1, <1>4, <1>5, <2>1, <2>2, <2>3, <2>4 DEF Inv, Watchers, job_id, Measuring
<1>9. Suspension'
  <2>1. \A v \in suspended' : Leaked(v) => Leaked(v)'
    BY <1>1, LeakedKept DEF Ended
  <2> QED BY <1>1, <1>3, <2>1 DEF Inv, Suspension, job_id, config, VMsOf, VmAt
<1>10. AbortsExplained'
  BY <1>3 DEF AbortsExplained
<1> QED BY <1>5, <1>6, <1>7, <1>8, <1>9, <1>10 DEF Inv

(* It is woken, or runs again.                                             *)
LEMMA WakeStep ==
  ASSUME Inv, Alive, Ctl(Reacquire) \/ Ctl(SpuriousWake)
  PROVE  Inv'
<1>1. /\ cv \in {"waiting", "woken"} /\ cv' \in {"woken", "running"} /\ locked' \in BOOLEAN /\ owns' = owns /\ pc' = pc
      /\ UNCHANGED <<job_queue, machine_usage, id_to_config, cmd_counter, thread, domains,
                     suspended, vm_locations, membw_util, frozen, watch, hosts, load>>
  BY DEF Ctl, Reacquire, SpuriousWake, schedVars, tableVars, domainVars, Inv, TypeOK
<1>2. Quiet
  BY <1>1 DEF Quiet, tableVars
<1>3. Alive' /\ (Placing' => Placing) /\ (Measuring' => Measuring)
  BY <1>1 DEF Alive, Placing, Measuring
<1>5. Tables' /\ Placement' /\ Loads' /\ \A j : Active(j)' <=> Active(j)
  BY <1>1, <1>2, <1>3, Frame DEF BeforeMeasurement, AfterMeasurement
<1>6. TypeOK'
  BY <1>1 DEF Inv, TypeOK, job_id
<1>7. Bookkeeping'
  BY <1>1 DEF Inv, Bookkeeping
<1>8. Watchers'
  <2>1. NoWatch' <=> NoWatch
    BY <1>1 DEF NoWatch
  <2>2. Mutex => Mutex'
    BY MutexWake DEF Ctl
  <2>3. LockCallers'
    BY <1>1, LocksFrame
  <2> QED BY <1>1, <1>3, <1>5, <2>1, <2>2, <2>3 DEF Inv, Watchers, job_id, Measuring
<1>9. Suspension'
  <2>1. \A v \in suspended' : Leaked(v) => Leaked(v)'
    BY <1>1, LeakedKept DEF Ended
  <2>2. UNCHANGED <<VMsOf(config), VMsOf(InUse(generate_opposing_config(job_id))), config>>
    BY <1>1 DEF VMsOf, InUse, generate_opposing_config, config, job_id
  <2> QED BY <1>1, <1>3, <2>1, <2>2 DEF Inv, Suspension, job_id, VmAt
<1>10. AbortsExplained'
  BY <1>3 DEF AbortsExplained
<1> QED BY <1>5, <1>6, <1>7, <1>8, <1>9, <1>10 DEF Inv

(* init() and the end of the program.                                      *)
LEMMA NextJobType ==
  ASSUME NEW n \in 0 .. NJobs
  PROVE  NextJob(n) \in {"acquire", "done"} /\ (NextJob(n) = "acquire" => n \in JobId)
BY NJobsAssumption DEF NextJob, JobId

LEMMA MainStep ==
  ASSUME Inv, Alive,
         \/ Ctl(init) \/ (Ctl(Drain) /\ pc' = "dismantle")
         \/ Ctl(dismantle) \/ Ctl(destroy)
  PROVE  Inv'
<1>1. /\ UNCHANGED <<cv, owns, locked>>
      /\ UNCHANGED <<job_queue, machine_usage, id_to_config, cmd_counter, thread,
                     vm_locations, membw_util, frozen, watch, hosts, load>>
      /\ UseVMs \/ domains' = domains
  BY DEF Ctl, init, Drain, dismantle, destroy, CvWait, schedVars, tableVars,
         lockVars, domainVars, Inv, TypeOK
<1>2. \/ pc = "init" /\ pc' = NextJob(0) /\ suspended' = suspended
      \/ pc = "drain" /\ pc' = "dismantle" /\ cv = "running" /\ UNCHANGED <<domains, suspended>>
      \/ pc = "dismantle" /\ pc' = "destroy" /\ (UseVMs => domains' = {} /\ suspended' = {})
                          /\ (~UseVMs => UNCHANGED <<domains, suspended>>)
      \/ pc = "destroy" /\ pc' = "exit" /\ UNCHANGED <<domains, suspended>>
  BY DEF Ctl, init, Drain, dismantle, destroy, CvWait, schedVars, domainVars, stop_all_VMs
<1>3. 0 \in 0 .. NJobs
  BY NJobsAssumption
<1>4. NextJob(0) \in {"acquire", "done"} /\ (NextJob(0) = "acquire" => 0 \in JobId)
  BY <1>3, NextJobType
<1>5. Quiet
  BY <1>1 DEF Quiet, tableVars
<1>6. /\ Alive' /\ ~Placing' /\ ~Measuring' /\ pc' \notin {"check", "change", "init"}
      /\ pc' \notin AfterMeasurement /\ pc' \notin {"freeze_opposing", "measure"}
      /\ pc' \in BeforeMeasurement => pc \in BeforeMeasurement
  BY <1>2, <1>4 DEF Alive, Aborts, Placing, Measuring, BeforeMeasurement, AfterMeasurement
<1>7. Tables' /\ Placement' /\ Loads' /\ \A j : Active(j)' <=> Active(j)
  BY <1>5, <1>6, Frame
<1>8. TypeOK'
  <2>1. suspended' \subseteq domains' /\ domains' \subseteq Elem \cup (Machine \X JobId)
    <3>1. CASE pc = "init"
      BY <1>1, <1>2, <3>1 DEF Inv, TypeOK, Bookkeeping, Ctl, init, start_all_VMs,
                              Drain, dismantle, destroy
    <3>2. CASE pc # "init"
      BY <1>2, <3>2 DEF Inv, TypeOK
    <3> QED BY <3>1, <3>2
  <2>2. /\ pc' \in {"acquire", "done", "select", "drain", "dismantle", "destroy", "exit"}
        /\ pc' \in {"acquire", "select"} => cmd_counter \in JobId
    BY <1>2, <1>4 DEF Inv, TypeOK, Bookkeeping
  <2> QED BY <1>1, <1>6, <2>1, <2>2 DEF Inv, TypeOK, Placing, Measuring
<1>9. Bookkeeping'
  <2>1. cv = "running"
    BY <1>2 DEF Inv, Bookkeeping, TypeOK
  <2>2. cv' = "running"
    BY <1>1, <2>1
  <2>3. UseVMs /\ pc' \notin {"init", "destroy", "exit"} => domains' = Elem
    BY <1>2 DEF Inv, Bookkeeping, Ctl, init, start_all_VMs, Drain, dismantle, destroy
  <2> QED BY <1>6, <2>2, <2>3 DEF Bookkeeping
<1>10. Watchers'
  <2>1. NoWatch' <=> NoWatch
    BY <1>1 DEF NoWatch
  <2>3. NoWatch => Mutex'
    BY <1>1, MutexFrame DEF Inv, Watchers
  <2>4. LockCallers'
    BY <1>1, LocksFrame
  <2> QED BY <1>1, <1>6, <2>1, <2>3, <2>4 DEF Inv, Watchers
<1>11. Suspension'
  <2>1. \A v \in suspended' : Leaked(v) => Leaked(v)'
    BY <1>1, LeakedKept DEF Ended
  <2>2. UseVMs => \A v \in suspended' : v \in suspended /\ Leaked(v)
    BY <1>2 DEF Inv, Suspension, Bookkeeping
  <2> QED BY <1>6, <2>1, <2>2 DEF Suspension
<1>12. AbortsExplained'
  BY <1>6 DEF AbortsExplained
<1> QED BY <1>7, <1>8, <1>9, <1>10, <1>11, <1>12 DEF Inv

(* The way into the waits.  While there are no watchers the lock is owned, *)
(* and the scheduler thread goes on without touching the mutex.            *)
LEMMA LockStep ==
  ASSUME Inv, Alive, Ctl(owns_lock) \/ Ctl(CallLock) \/ Ctl(TakeLock) \/ Ctl(SetOwner)
  PROVE  Inv'
<1>1. /\ pc \in {"acquire", "done"} /\ locked' \in BOOLEAN /\ owns' \in BOOLEAN
      /\ UNCHANGED <<job_queue, machine_usage, id_to_config, cmd_counter, thread, domains,
                     suspended, vm_locations, membw_util, frozen, watch, hosts, load>>
  BY DEF Ctl, owns_lock, BeforeWait, CallLock, TakeLock, SetOwner, schedVars, tableVars, domainVars, Inv, Bookkeeping, TypeOK
<1>2. CASE pc' \in Aborts
  <2>1. pc' = "abort_lock" /\ cv = "unowned" /\ owns /\ UNCHANGED lockVars
    BY <1>1, <1>2 DEF Ctl, owns_lock, InWait, CallLock, TakeLock, SetOwner, Abort, Aborts, lockVars
  <2>2. \E i, j \in JobId : watch[i] = "gone" /\ watch[j] \notin {"none", "gone"}
    BY <2>1 DEF Inv, Watchers, LockCallers, SomebodyLocks
  <2>3. ~UseVMs
    BY <2>2 DEF Inv, Watchers, NoWatch
  <2>4. AbortsExplained'
    BY <1>1, <2>1, <2>2, <2>3 DEF AbortsExplained
  <2> QED BY <1>1, <1>2, <2>1, <2>4, AbortFrame DEF tableVars, domainVars, schedVars
<1>3. CASE pc' \notin Aborts
  <2>1. /\ pc' = pc \/ (pc' = IF pc = "done" THEN "drain" ELSE "select")
        /\ owns => owns' /\ (cv = "running" => UNCHANGED <<cv, locked>>)
        /\ cv \in {"running", "unowned", "locking", "setting"}
        /\ cv' \in {"running", "unowned", "locking", "setting"}
        /\ cv' # "running" => pc' = pc /\ owns' = owns
        /\ cv' = "unowned" => ~owns
        /\ cv' \in {"locking", "setting"} => cv # "running"
    BY <1>1, <1>3 DEF Ctl, owns_lock, BeforeWait, InWait, CallLock, TakeLock, SetOwner, Abort, Aborts
  <2>2. Quiet
    BY <1>1 DEF Quiet, tableVars
  <2>3. /\ Alive' /\ ~Placing' /\ ~Measuring' /\ pc' \in {"acquire", "done", "select", "drain"}
    BY <1>1, <2>1 DEF Alive, Aborts, Placing, Measuring
  <2>4. Tables' /\ Placement' /\ Loads'
    BY <1>1, <2>2, <2>3, Frame DEF BeforeMeasurement, AfterMeasurement
  <2>5. TypeOK'
    BY <1>1, <2>1, <2>3 DEF Inv, TypeOK
  <2>6. Bookkeeping'
    BY <1>1, <2>1, <2>3 DEF Inv, Bookkeeping
  <2>7. Watchers'
    <3>1. (NoWatch' <=> NoWatch) /\ (NoWatch => owns)
      BY <1>1 DEF NoWatch, Inv, Watchers
    <3>2. NoWatch => cv = "running"
      BY <2>1 DEF NoWatch, Inv, Watchers, LockCallers, SomebodyLocks
    <3>3. NoWatch => Mutex'
      BY <1>1, <2>1, <3>1, <3>2, MutexFrame DEF Inv, Watchers
    <3>4. (\A j \in JobId : watch'[j] # "gone") => owns'
      BY <1>1, <2>1 DEF Inv, Watchers
    <3>5. SomebodyLocks' => \E j \in JobId : watch'[j] = "gone"
      BY <1>1, <2>1 DEF Inv, Watchers, LockCallers, SomebodyLocks
    <3>6. ~(cv' = "unowned" /\ owns')
      BY <2>1
    <3> QED BY <1>1, <2>3, <3>1, <3>3, <3>4, <3>5, <3>6 DEF Inv, Watchers, LockCallers
  <2>8. Suspension'
    <3>1. \A v \in suspended' : Leaked(v) => Leaked(v)'
      BY <1>1, LeakedKept DEF Ended
    <3>2. UseVMs => \A v \in suspended : Leaked(v)
      BY <1>1 DEF Inv, Suspension
    <3> QED BY <1>1, <2>3, <3>1, <3>2 DEF Suspension
  <2>9. AbortsExplained'
    BY <2>3 DEF AbortsExplained
  <2> QED BY <2>4, <2>5, <2>6, <2>7, <2>8, <2>9 DEF Inv
<1> QED BY <1>2, <1>3

(* Sections that interleave: two threads are in sections that the mutex    *)
(* keeps apart as long as no watcher was started.                          *)
LEMMA RaceStep ==
  ASSUME Inv, Alive, Ctl(Race)
  PROVE  Inv'
<1>1. /\ Overlap /\ pc' = "race" /\ UNCHANGED watch
      /\ UNCHANGED <<job_queue, tableVars, lockVars, thread, domainVars, schedVars>>
  BY DEF Ctl, Race, Abort, schedVars
<1>2. ~NoWatch
  BY <1>1 DEF Overlap, Inv, Watchers, NoWatch, Mutex, MutualExclusion
<1>3. ~UseVMs /\ ~NoWatch'
  BY <1>1, <1>2 DEF Inv, Watchers, NoWatch
<1>4. AbortsExplained'
  BY <1>1, <1>3 DEF AbortsExplained
<1> QED BY <1>1, <1>3, <1>4, AbortFrame DEF Aborts

-------------------------------------------------------------------------------
(* The selection of slots.  Whatever is chosen is free, and on machines of *)
(* its own.                                                                *)
LEMMA ChosenSlots ==
  /\ Chosen \subseteq Elem
  /\ OnePerMachine(Chosen)
  /\ \A e \in Chosen : machine_usage[e] = Empty
<1>1. ASSUME NEW e \in Chosen
      PROVE  /\ e[1] \in Machine /\ e = <<e[1], IF 0 \in FreeSlots(e[1]) THEN 0 ELSE 1>>
             /\ FreeSlots(e[1]) # {}
  BY DEF Chosen
<1>2. ASSUME NEW e \in Chosen
      PROVE  e \in Elem /\ machine_usage[e] = Empty
  <2>1. PICK s \in {0, 1} : s = IF 0 \in FreeSlots(e[1]) THEN 0 ELSE 1
    OBVIOUS
  <2>2. e = <<e[1], s>> /\ s \in FreeSlots(e[1])
    <3>1. FreeSlots(e[1]) \subseteq {0, 1}
      BY DEF FreeSlots, Slot
    <3> QED BY <1>1, <2>1, <3>1
  <2> QED BY <1>1, <2>1, <2>2 DEF FreeSlots, Elem
<1>3. \A c, d \in Chosen : c[1] = d[1] => c = d
  BY <1>1
<1> QED BY <1>2, <1>3 DEF OnePerMachine

(* One slot per machine: as many slots as machines.                        *)
LEMMA SameSize ==
  ASSUME NEW S, NEW T, IsFiniteSet(S), NEW f \in [S -> T],
         \A a, b \in S : f[a] = f[b] => a = b, \A y \in T : \E x \in S : f[x] = y
  PROVE  Cardinality(T) = Cardinality(S)
<1>1. f \in Bijection(S, T)
  BY DEF Bijection, Injection, Surjection, IsInjective
<1>2. ExistsBijection(S, T)
  BY <1>1 DEF ExistsBijection
<1> QED BY <1>2, FS_Bijection

LEMMA SlotsOfMachines ==
  ASSUME NEW S \in SUBSET Machine
  PROVE  Cardinality({<<m, IF 0 \in FreeSlots(m) THEN 0 ELSE 1>> : m \in S}) = Cardinality(S)
<1>1. PICK T : T = {<<m, IF 0 \in FreeSlots(m) THEN 0 ELSE 1>> : m \in S}
  OBVIOUS
<1>2. PICK f : f = [m \in S |-> <<m, IF 0 \in FreeSlots(m) THEN 0 ELSE 1>>]
  OBVIOUS
<1>3. f \in [S -> T] /\ (\A a, b \in S : f[a] = f[b] => a = b) /\ \A y \in T : \E x \in S : f[x] = y
  BY <1>1, <1>2
<1>4. IsFiniteSet(S)
  BY MachinesFinite
<1>5. Cardinality(T) = Cardinality(S)
  BY <1>3, <1>4, SameSize
<1> QED BY <1>1, <1>5

(* The number of machines with a free slot, up to a machine.               *)
LEMMA FreeCount ==
  /\ \A m \in Machine : Cardinality(FreeUpTo(m)) \in Nat
  /\ Cardinality(FreeUpTo(0)) <= 1
  /\ \A m \in Machine : m # 0 => Cardinality(FreeUpTo(m)) <= Cardinality(FreeUpTo(m - 1)) + 1
<1>1. \A m : FreeUpTo(m) \in SUBSET Machine
  BY DEF FreeUpTo
<1>2. \A m \in Machine : Cardinality(FreeUpTo(m)) \in Nat
  BY <1>1, MachinesFinite
<1>3. ASSUME NEW m \in Machine, NEW S \in SUBSET Machine, FreeUpTo(m) \subseteq S \cup {m}
      PROVE  Cardinality(FreeUpTo(m)) <= Cardinality(S) + 1
  <2>1. IsFiniteSet(S) /\ Cardinality(S) \in Nat
    BY MachinesFinite
  <2>2. IsFiniteSet(S \cup {m}) /\ Cardinality(S \cup {m}) <= Cardinality(S) + 1
    BY <2>1, FS_AddElement
  <2>3. Cardinality(FreeUpTo(m)) <= Cardinality(S \cup {m}) /\ Cardinality(S \cup {m}) \in Nat
    BY <1>3, <2>2, FS_Subset, FS_CardinalityType
  <2> QED BY <1>2, <2>1, <2>2, <2>3
<1>4. Cardinality(FreeUpTo(0)) <= 1
  <2>1. 0 \in Machine /\ FreeUpTo(0) \subseteq {} \cup {0}
    BY NMachinesAssumption DEF FreeUpTo, Machine
  <2>2. Cardinality(FreeUpTo(0)) <= Cardinality({}) + 1
    BY <1>3, <2>1
  <2> QED BY <2>2, FS_EmptySet
<1>5. ASSUME NEW m \in Machine, m # 0
      PROVE  Cardinality(FreeUpTo(m)) <= Cardinality(FreeUpTo(m - 1)) + 1
  <2>1. FreeUpTo(m) \subseteq FreeUpTo(m - 1) \cup {m}
    BY DEF FreeUpTo, Machine
  <2> QED BY <1>1, <1>3, <2>1
<1> QED BY <1>2, <1>4, <1>5

(* The loop over the machines stops when the request is covered: a request *)
(* for whole slots is, once wait_for_ressource() has returned.             *)
LEMMA Selection ==
  ASSUME NEW q \in Nat \ {0}, req_cpus(job) = q * SlotSize, RessourceFree(req_cpus(job), 1)
  PROVE  Cardinality(Chosen) = q
<1> DEFINE n(m) == Cardinality(FreeUpTo(m))
           last == NMachines - 1
<1>0. last \in Machine /\ Machine \subseteq Nat /\ \A m \in Machine : m <= last
  BY NMachinesAssumption DEF Machine
<1>1. \A a, b \in Nat : (a * SlotSize = b * SlotSize <=> a = b) /\ (a * SlotSize * 1 >= b * SlotSize => a >= b)
  BY SlotSizeAssumption
<1>2. \A m \in Machine : n(m) \in Nat
  BY FreeCount
<1>3. \A m \in Machine : Covered(m) <=> n(m) = q
  BY <1>1, <1>2 DEF Covered
<1>4. n(last) >= q
  <2>1. \A m \in Machine : Cardinality(FreeSlots(m)) >= 1 <=> FreeSlots(m) # {}
    <3> SUFFICES ASSUME NEW m \in Machine PROVE Cardinality(FreeSlots(m)) >= 1 <=> FreeSlots(m) # {}
      OBVIOUS
    <3>1. IsFiniteSet(FreeSlots(m))
      BY SlotIsPair, FS_Subset DEF FreeSlots
    <3>2. Cardinality(FreeSlots(m)) \in Nat /\ (Cardinality(FreeSlots(m)) = 0 <=> FreeSlots(m) = {})
      BY <3>1, FS_CardinalityType, FS_EmptySet
    <3> QED BY <3>2
  <2>2. {m \in Machine : Cardinality(FreeSlots(m)) >= 1} = FreeUpTo(last)
    BY <1>0, <2>1 DEF FreeUpTo
  <2>3. n(last) * SlotSize * 1 >= q * SlotSize
    BY <2>2 DEF RessourceFree
  <2> QED BY <1>0, <1>1, <1>2, <2>3
<1>5. PICK G : G = {m \in Machine : n(m) >= q}
  OBVIOUS
<1>6. PICK k \in G : \A m \in G : k <= m
  <2>1. G \in SUBSET Nat /\ G # {}
    BY <1>0, <1>4, <1>5
  <2> QED BY <2>1, NatMin
<1>7. k \in Machine /\ n(k) = q
  <2>1. k \in Machine /\ n(k) >= q
    BY <1>5, <1>6
  <2>2. n(k) <= q
    <3>1. CASE k = 0
      BY <1>2, <2>1, <3>1, FreeCount
    <3>2. CASE k # 0
      <4>1. k - 1 \in Machine /\ k - 1 \notin G
        BY <1>6, <2>1, <3>2, NMachinesAssumption DEF Machine
      <4>2. n(k - 1) < q
        BY <1>2, <1>5, <4>1
      <4>3. n(k) <= n(k - 1) + 1
        BY <2>1, <3>2, FreeCount
      <4> QED BY <1>2, <2>1, <4>1, <4>2, <4>3
    <3> QED BY <3>1, <3>2
  <2> QED BY <1>2, <2>1, <2>2
<1>8. ASSUME NEW m \in Machine
      PROVE  (~ \E i \in 0 .. m - 1 : Covered(i)) <=> m <= k
  <2>1. ASSUME m <= k, NEW i \in 0 .. m - 1 PROVE ~Covered(i)
    <3>1. i \in Machine /\ i < k
      BY <1>7, <2>1, NMachinesAssumption DEF Machine
    <3>2. i \notin G
      BY <1>6, <1>7, <3>1, NMachinesAssumption DEF Machine
    <3> QED BY <1>2, <1>3, <1>5, <3>1, <3>2
  <2>2. ASSUME ~(m <= k) PROVE k \in 0 .. m - 1 /\ Covered(k)
    BY <1>3, <1>7, <2>2 DEF Machine
  <2> QED BY <2>1, <2>2
<1>9. {m \in Machine : FreeSlots(m) # {} /\ ~ \E i \in 0 .. m - 1 : Covered(i)} = FreeUpTo(k)
  BY <1>8 DEF FreeUpTo
<1>10. Chosen = {<<m, IF 0 \in FreeSlots(m) THEN 0 ELSE 1>> : m \in FreeUpTo(k)}
  BY <1>9 DEF Chosen
<1>11. FreeUpTo(k) \in SUBSET Machine
  BY DEF FreeUpTo
<1> QED BY <1>7, <1>10, <1>11, SlotsOfMachines

(* A job that fits is covered by the slots that are chosen.                *)
LEMMA FittingJobIsCovered ==
  ASSUME Tables, cmd_counter \in JobId, Fits(cmd_counter), RessourceFree(req_cpus(job), 1)
  PROVE  Cardinality(Chosen) * SlotSize = req_cpus(job)
<1>1. PICK r \in Nat \ {0} : r = req_cpus(job)
  BY ReqType DEF Tables, job
<1>2. r % SlotSize = 0
  BY <1>1 DEF Fits, job
<1>3. \A a \in Nat \ {0}, b \in Nat \ {0} : a % b = 0 => a = (a \div b) * b /\ a \div b \in Nat \ {0}
  OBVIOUS
<1>4. PICK q \in Nat \ {0} : r = q * SlotSize
  BY <1>2, <1>3, SlotSizeAssumption
<1> QED BY <1>1, <1>4, Selection

-------------------------------------------------------------------------------
(* A job that is too large, or that does not fit, ends the process.        *)
LEMMA RejectStep ==
  ASSUME Inv, Ctl(RejectOversized)
  PROVE  Inv'
<1>1. /\ pc = "acquire" /\ pc' = "abort_req" /\ req_cpus(job) > NMachines * SlotSize
      /\ UNCHANGED <<job_queue, tableVars, lockVars, thread, domainVars, schedVars>>
      /\ job_queue' = job_queue /\ cmd_counter' = cmd_counter
  BY DEF Ctl, RejectOversized, Abort, tableVars
<1>2. ~Fits(cmd_counter)
  <2>1. PICK r \in Nat : r = req_cpus(job)
    BY <1>1, ReqType DEF job, Inv, Tables, TypeOK
  <2>2. PICK a \in Int : a = NMachines * SlotSize
    BY NMachinesAssumption, SlotSizeAssumption
  <2> QED BY <1>1, <2>1, <2>2 DEF Fits, job
<1>3. ~Fits(cmd_counter)'
  BY <1>1, <1>2 DEF Fits, req_cpus
<1>4. AbortsExplained'
  BY <1>1, <1>3 DEF AbortsExplained
<1> QED BY <1>1, <1>4, AbortFrame DEF Aborts

LEMMA SubmitFailsStep ==
  ASSUME Inv, Ctl(SubmitFails)
  PROVE  Inv'
<1> USE DEF Inv
<1>1. /\ pc = "select" /\ pc' \in {"abort_select", "abort_owner", "abort_execute"}
      /\ RessourceFree(req_cpus(job), 1)
      /\ UNCHANGED <<job_queue, tableVars, lockVars, thread, domainVars, schedVars>>
      /\ UNCHANGED <<job_queue, cmd_counter, watch>>
      /\ pc' = "abort_select" => Cardinality(Chosen) * SlotSize # req_cpus(job)
      /\ pc' = "abort_owner" => ~owns
      /\ pc' = "abort_execute" => /\ Cardinality(Chosen) * SlotSize = req_cpus(job) /\ owns
                                  /\ ~ExecuteAsserts(job, Chosen)
  BY DEF Ctl, SubmitFails, Abort, tableVars, schedVars
<1>2. cmd_counter \in JobId
  BY <1>1 DEF TypeOK
<1>3. ASSUME pc' # "abort_owner" PROVE ~Fits(cmd_counter)
  <2>1. CASE pc' = "abort_select"
    BY <1>1, <1>2, <2>1, FittingJobIsCovered
  <2>2. CASE pc' = "abort_execute"
    <3>1. req_cpus(job) \in Nat \ {0}
      BY <1>2, ReqType DEF job, TypeOK
    <3>2. Chosen # {}
      BY <1>1, <2>2, <3>1, FS_EmptySet, SlotSizeAssumption
    <3>3. ~CommandAsserts(job, Chosen)
      BY <1>1, <2>2, <3>2, ChosenSlots DEF ExecuteAsserts
    <3>4. ~UseVMs /\ SlotSize % job.threads_per_proc # 0
      BY <1>1, <2>2, <3>1, <3>3 DEF CommandAsserts
    <3> QED BY <3>4 DEF Fits, job
  <2> QED BY <1>1, <1>3, <2>1, <2>2
<1>4. ~Fits(cmd_counter) => ~Fits(cmd_counter)'
  BY <1>1 DEF Fits, req_cpus
<1>5. ASSUME pc' = "abort_owner" PROVE ~UseVMs /\ \E j \in JobId : watch'[j] = "gone"
  <2>1. \E j \in JobId : watch[j] = "gone"
    BY <1>1, <1>5 DEF Watchers
  <2> QED BY <1>1, <2>1 DEF Watchers, NoWatch
<1>6. AbortsExplained'
  BY <1>1, <1>3, <1>4, <1>5 DEF AbortsExplained
<1> QED BY <1>1, <1>6, AbortFrame DEF Aborts

(* A job is started in free slots.                                         *)
LEMMA SubmitStep ==
  ASSUME Inv, Alive, Submit
  PROVE  Inv'
<1> USE DEF Inv
<1>1. PICK id \in JobId : id = cmd_counter /\ id \in Nat /\ id # Empty
  BY NJobsAssumption DEF Submit, TypeOK, JobId, Empty
<1>2. PICK C : C = Chosen
  OBVIOUS
<1>3. /\ pc = "select" /\ cv = "running" /\ pc' = "freeze_opposing"
      /\ UNCHANGED <<membw_util, frozen, watch, load>>
      /\ C # {} /\ execute(C)
      /\ hosts' = [hosts EXCEPT ![id] = VMsOf(C)]
  BY <1>1, <1>2 DEF Submit, ExecuteAsserts, VMsOf
<1>4. OnePerMachine(C) /\ C \in (SUBSET Elem) \ {{}} /\ \A e \in C : machine_usage[e] = Empty
  BY <1>2, <1>3, ChosenSlots
<1>5. /\ Tables' /\ (Mutex => Mutex')
      /\ \A j \in JobId : Active(j)' <=> (Active(j) \/ j = id)
      /\ \A j \in JobId : j # id => thread'[j] = thread[j] /\ id_to_config'[j] = id_to_config[j]
      /\ id_to_config'[id] = C /\ thread[id] = "none"
      /\ \A e \in Elem : machine_usage'[e] = IF e \in C THEN id ELSE machine_usage[e]
  BY <1>1, <1>3, <1>4, TablesExecute, MutexExecute
<1>6. /\ cmd_counter' = id + 1
      /\ domains' = domains \cup create_domain(id, C)
      /\ UNCHANGED <<job_queue, locked, owns, cv, suspended, vm_locations>>
  BY <1>1, <1>3 DEF execute, lockVars
<1>7. job_id' = id /\ config' = C /\ cmd_counter' \in 0 .. NJobs
  BY <1>1, <1>5, <1>6, NJobsAssumption DEF job_id, config, JobId
<1>8. VMsOf(C) \subseteq Elem /\ UNCHANGED VMsOf(C)
  BY <1>4, <1>6 DEF VMsOf, TypeOK
<1>9. \A j \in JobId : hosts'[j] = IF j = id THEN VMsOf(C) ELSE hosts[j]
  BY <1>3 DEF TypeOK
<1>10. TypeOK'
  <2>1. create_domain(id, C) \subseteq Machine \X JobId
    BY <1>4 DEF create_domain, Elem
  <2>2. hosts' \in [JobId -> SUBSET Elem]
    BY <1>3, <1>8 DEF TypeOK
  <2>3. domains' \subseteq Elem \cup (Machine \X JobId) /\ suspended' \subseteq domains'
    BY <1>6, <2>1 DEF TypeOK
  <2>4. /\ job_queue' \in [JobId -> Jobs] /\ machine_usage' \in [Elem -> JobId \cup {Empty}]
        /\ id_to_config' \in [JobId -> SUBSET Elem] /\ thread' \in [JobId -> ThreadState]
    BY <1>5 DEF Tables
  <2> QED BY <1>1, <1>3, <1>6, <1>7, <2>2, <2>3, <2>4 DEF TypeOK
<1>11. Bookkeeping'
  BY <1>3, <1>6 DEF Bookkeeping, create_domain
<1>12. Watchers'
  <2>1. NoWatch' <=> NoWatch
    BY <1>3 DEF NoWatch
  <2>2. watch[id] = "none"
    BY <1>1 DEF Watchers
  <2>3. \A j \in JobId : watch'[j] # "none" => j < cmd_counter'
    BY <1>1, <1>3, <1>6 DEF Watchers, JobId
  <2>4. LockCallers'
    BY <1>3, <1>6, LocksFrame
  <2> QED BY <1>1, <1>3, <1>5, <1>6, <1>7, <2>1, <2>2, <2>3, <2>4 DEF Watchers
<1>13. Placement'
  <2>1. \A j \in JobId : Active(j)' => hosts'[j] = {vm_locations'[e] : e \in id_to_config'[j]}
    <3> SUFFICES ASSUME NEW j \in JobId, Active(j)'
                 PROVE  hosts'[j] = {vm_locations'[e] : e \in id_to_config'[j]}
      OBVIOUS
    <3>1. CASE j = id
      BY <1>5, <1>6, <1>9, <3>1 DEF VMsOf
    <3>2. CASE j # id
      <4>1. hosts[j] = {vm_locations[e] : e \in id_to_config[j]}
        BY <1>5, <3>2 DEF Placement, CommandFollowsVMs
      <4> QED BY <1>5, <1>6, <1>9, <3>2, <4>1
    <3> QED BY <3>1, <3>2
  <2>2. \A d, e \in Elem : vm_locations'[d] = vm_locations'[e] => d = e
    BY <1>6 DEF Placement, CommandFollowsVMs
  <2>3. CommandFollowsVMs'
    BY <2>1, <2>2 DEF CommandFollowsVMs
  <2>4. hosts'[job_id'] = VMsOf(config)'
    BY <1>7, <1>8, <1>9 DEF VMsOf
  <2> QED BY <1>4, <1>7, <2>3, <2>4 DEF Placement, OnePerMachine
<1>14. Loads'
  <2>1. ASSUME NEW e \in Elem, membw_util'[e] # 0,
               machine_usage'[e] = Empty \/ e \in config'
        PROVE  \E j \in JobId : MeasuredLate(j, e)'
    <3>1. machine_usage[e] = Empty
      BY <1>1, <1>4, <1>5, <1>7, <2>1
    <3>2. PICK j \in JobId : MeasuredLate(j, e)
      BY <1>3, <2>1, <3>1 DEF Loads
    <3>3. j # id
      BY <1>5, <3>2 DEF MeasuredLate
    <3>4. MeasuredLate(j, e)'
      BY <1>3, <1>5, <3>2, <3>3 DEF MeasuredLate
    <3> QED BY <3>4
  <2>2. UseVMs => \A m \in Machine : ~Overloaded(m)'
    BY <1>3 DEF Loads, BeforeMeasurement, Overloaded
  <2>3. \A e \in Elem : membw_util'[e] = load'[vm_locations'[e]]
    BY <1>3, <1>6 DEF Loads
  <2> QED BY <1>3, <2>1, <2>2, <2>3 DEF Loads, AfterMeasurement
<1>15. Suspension'
  <2>1. ASSUME UseVMs, NEW v \in suspended' PROVE Leaked(v)'
    <3>1. Leaked(v) /\ v \in suspended
      BY <1>3, <1>6, <2>1 DEF Suspension
    <3>2. PICK j \in JobId : v \in hosts[j] /\ thread[j] \in {"unlocked", "finished"}
      BY <3>1 DEF Leaked
    <3>3. v \in hosts'[j] /\ thread'[j] \in {"unlocked", "finished"}
      BY <1>5, <1>9, <3>2
    <3> QED BY <1>6, <2>1, <3>1, <3>3 DEF Leaked
  <2> QED BY <1>3, <2>1 DEF Suspension
<1>16. AbortsExplained'
  BY <1>3 DEF AbortsExplained, Alive, Aborts
<1> QED BY <1>5, <1>10, <1>11, <1>12, <1>13, <1>14, <1>15, <1>16

-------------------------------------------------------------------------------
(* The steps of the loop that suspend and resume.                          *)
LEMMA DomainsExist ==
  ASSUME Inv, pc \notin {"init", "destroy", "exit"}, NEW C \in SUBSET Elem
  PROVE  {DomainAt(e) : e \in InUse(C)} \subseteq domains
<1> SUFFICES ASSUME NEW e \in C, machine_usage[e] # Empty PROVE DomainAt(e) \in domains
  BY DEF InUse
<1>1. CASE UseVMs
  BY <1>1 DEF Inv, Bookkeeping, TypeOK, DomainAt, VmAt
<1>2. CASE ~UseVMs
  BY <1>2 DEF Inv, Tables, CgroupsFollowJobs, DomainAt, CgroupAt, InUse
<1> QED BY <1>1, <1>2

(* The slots of the newest job and those next to them.                     *)
LEMMA NewestJob ==
  ASSUME Inv, Placing
  PROVE  /\ job_id \in JobId /\ job_id < cmd_counter /\ config \in SUBSET Elem
         /\ generate_opposing_config(job_id) \in SUBSET Elem
         /\ \A e \in config : machine_usage[e] = Empty => ~Active(job_id)
         /\ ~Active(job_id) <=> Ended(job_id)
<1>1. job_id \in JobId /\ job_id < cmd_counter
  BY DEF Inv, TypeOK, Placing, Measuring, job_id
<1>2. config \in SUBSET Elem
  BY <1>1 DEF Inv, TypeOK, config
<1>3. generate_opposing_config(job_id) \in SUBSET Elem
  BY <1>2, SlotPairs DEF generate_opposing_config, config
<1>4. \A e \in config : machine_usage[e] = Empty => ~Active(job_id)
  BY <1>1, <1>2, NJobsAssumption DEF Inv, Tables, UsageMatchesConfig, config, Empty, JobId
<1>5. thread[job_id] \in ThreadState \ {"none"}
  BY <1>1 DEF Inv, Tables, JobId
<1> QED BY <1>1, <1>2, <1>3, <1>4, <1>5 DEF Active, Ended, ThreadState

LEMMA LoopFrame ==
  ASSUME Inv, pc \in {"freeze_opposing", "thaw_opposing", "check"}, cv = "running",
         UNCHANGED <<job_queue, tableVars, lockVars, thread, domains, vm_locations, membw_util, hosts, load>>,
         suspended' \subseteq domains, frozen' \in BOOLEAN,
         \/ watch' = watch
         \/ ~UseVMs /\ watch' = [watch EXCEPT ![job_id] = "start"] /\ pc' = NextJob(cmd_counter),
         \/ pc = "freeze_opposing" /\ pc' = "measure"
         \/ pc = "thaw_opposing" /\ pc' = "check" /\ ~frozen'
         \/ pc = "check" /\ pc' = "change" /\ UseVMs
         \/ /\ pc = "check" /\ pc' = NextJob(cmd_counter)
            /\ UseVMs => \A m \in Machine : ~Overloaded(m),
         Suspension'
  PROVE  Inv'
<1>1. UNCHANGED <<job_queue, machine_usage, id_to_config, cmd_counter, locked, owns, cv, thread, domains,
                  vm_locations, membw_util, hosts, load, job_id, config>>
  BY DEF tableVars, lockVars, job_id, config
<1>2. job_id \in JobId /\ job_id < cmd_counter
  BY NewestJob DEF Placing, Measuring
<1>3. /\ cmd_counter \in 0 .. NJobs /\ NextJob(cmd_counter) \in {"acquire", "done"}
      /\ NextJob(cmd_counter) = "acquire" => cmd_counter \in JobId
  BY NextJobType DEF Inv, TypeOK
<1>4. /\ watch' \in [JobId -> WatchState] /\ \A j \in JobId : watch'[j] = "none" => watch[j] = "none"
      /\ watch' = watch \/ (~UseVMs /\ watch'[job_id] = "start" /\ pc' = NextJob(cmd_counter))
      /\ \A j \in JobId : j # job_id => watch'[j] = watch[j]
  BY <1>2 DEF Inv, TypeOK, WatchState
<1>5. Quiet
  BY <1>1, <1>4 DEF Quiet, tableVars
<1>6. /\ pc' \in {"measure", "check", "change", "acquire", "done"}
      /\ pc' \in {"measure", "check", "change"} => pc' # NextJob(cmd_counter)
  BY <1>3
<1>7. Alive' /\ (Placing' => Placing) /\ (Measuring' => Measuring)
  BY <1>6 DEF Alive, Aborts, Placing, Measuring
<1>8. Tables' /\ Placement' /\ Loads' /\ \A j : Active(j)' <=> Active(j)
  BY <1>3, <1>5, <1>7, Frame DEF BeforeMeasurement, AfterMeasurement
<1>9. TypeOK'
  <2>1. cmd_counter' \in 0 .. NJobs /\ (pc' = "acquire" => cmd_counter' \in JobId)
    BY <1>1, <1>3
  <2>2. suspended' \subseteq domains'
    BY <1>1
  <2> QED BY <1>1, <1>2, <1>4, <1>6, <2>1, <2>2 DEF Inv, TypeOK
<1>10. Bookkeeping'
  BY <1>1, <1>6 DEF Inv, Bookkeeping
<1>11. Watchers'
  <2>1. NoWatch' => NoWatch
    BY <1>4 DEF NoWatch
  <2>2. Mutex => Mutex'
    BY <1>1, MutexFrame
  <2>3. UseVMs => NoWatch'
    BY <1>4 DEF Inv, Watchers, NoWatch
  <2>4. \A j \in JobId : watch'[j] # "none" => j < cmd_counter'
    BY <1>1, <1>2, <1>4 DEF Inv, Watchers
  <2>5. ~UseVMs /\ (Measuring' \/ pc' = "check") => watch'[job_id'] = "none"
    BY <1>1, <1>4, <1>6, <1>7 DEF Inv, Watchers, Measuring
  <2>6. (\A j \in JobId : watch'[j] # "gone") => owns'
    <3>1. CASE watch' = watch
      BY <1>1, <3>1 DEF Inv, Watchers
    <3>2. CASE watch' # watch
      <4>1. ~UseVMs
        BY <1>4, <3>2
      <4>2. watch[job_id] = "none"
        BY <4>1 DEF Inv, Watchers, Measuring
      <4>3. (\A j \in JobId : watch'[j] # "gone") => \A j \in JobId : watch[j] # "gone"
        BY <1>4, <4>2
      <4> QED BY <1>1, <4>3 DEF Inv, Watchers
    <3> QED BY <3>1, <3>2
  <2>7. NoWatch' /\ Measuring' => Active(job_id)'
    BY <1>1, <1>7, <1>8, <2>1 DEF Inv, Watchers
  <2>8. LockCallers'
    <3>1. CASE watch' = watch
      BY <1>1, <3>1, LocksFrame
    <3>2. CASE watch' # watch
      <4>1. ~UseVMs /\ watch[job_id] = "none" /\ watch'[job_id] = "start"
        BY <1>4, <3>2 DEF Inv, Watchers, Measuring
      <4> QED BY <1>1, <1>4, <4>1, LocksFrame
    <3> QED BY <3>1, <3>2
  <2> QED BY <2>1, <2>2, <2>3, <2>4, <2>5, <2>6, <2>7, <2>8 DEF Inv, Watchers
<1>12. AbortsExplained'
  BY <1>7 DEF AbortsExplained
<1> QED BY <1>8, <1>9, <1>10, <1>11, <1>12 DEF Inv

(* With VMs, the domains of slots in use are their VMs.                    *)
LEMMA SuspendedVMs ==
  ASSUME UseVMs, NEW C
  PROVE  {DomainAt(e) : e \in InUse(C)} = VMsOf(InUse(C))
BY DEF DomainAt, VmAt, VMsOf

(* Suspending a VM that is suspended: somebody has left it so.             *)
LEMMA SuspendFails ==
  ASSUME Inv, NEW C \in SUBSET Elem, ~SuspendAsserts(C), pc' = "abort_suspend",
         UseVMs => \A v \in suspended : Leaked(v),
         UNCHANGED <<job_queue, tableVars, lockVars, thread, domainVars, schedVars>>,
         pc \notin {"init", "destroy", "exit"}
  PROVE  Inv'
<1>1. PICK e \in C : UseVMs /\ VmAt(e) \in suspended
  BY DEF SuspendAsserts, InUse, DomainAt
<1>2. VmAt(e) \in Elem /\ Leaked(VmAt(e))
  BY <1>1 DEF Inv, TypeOK, VmAt
<1>3. \E v \in Elem : Leaked(v)'
  BY <1>2 DEF Leaked, schedVars, domainVars
<1>4. AbortsExplained'
  BY <1>3 DEF AbortsExplained
<1> QED BY <1>4, AbortFrame DEF Aborts

LEMMA FreezeOpposingStep ==
  ASSUME Inv, freeze_opposing
  PROVE  Inv'
<1>1. PICK opp : opp = generate_opposing_config(job_id)
  OBVIOUS
<1>2. pc = "freeze_opposing" /\ cv = "running" /\ Placing
  BY DEF freeze_opposing, Inv, Bookkeeping, TypeOK, Alive, Aborts, Placing, Measuring
<1>3. opp \in SUBSET Elem
  BY <1>1, <1>2, NewestJob
<1>4. UseVMs => \A v \in suspended : Leaked(v)
  BY <1>2 DEF Inv, Suspension, Alive, Aborts
<1>5. /\ UNCHANGED <<job_queue, tableVars, lockVars, thread, domains, vm_locations, schedVars>>
      /\ UNCHANGED <<membw_util, frozen, watch, hosts, load>>
  BY DEF freeze_opposing, schedVars
<1>6. CASE SuspendAsserts(opp)
  <2>1. pc' = "measure" /\ suspended' = suspended \cup {DomainAt(e) : e \in InUse(opp)}
    BY <1>1, <1>6 DEF freeze_opposing, Suspend
  <2>2. suspended' \subseteq domains
    BY <1>2, <1>3, <2>1, DomainsExist DEF Inv, TypeOK
  <2>3. Suspension'
    <3>1. ASSUME UseVMs, NEW v \in suspended' PROVE Leaked(v)' \/ v \in VMsOf(InUse(generate_opposing_config(job_id)))'
      <4>1. CASE v \in suspended
        BY <1>4, <1>5, <3>1, <4>1 DEF Leaked
      <4>2. CASE v \in VMsOf(InUse(opp))
        <5>1. generate_opposing_config(job_id)' = opp /\ machine_usage' = machine_usage
          BY <1>1, <1>5 DEF generate_opposing_config, tableVars, job_id
        <5>2. InUse(generate_opposing_config(job_id))' = InUse(opp)
          BY <5>1 DEF InUse
        <5>3. VMsOf(InUse(generate_opposing_config(job_id)))' = VMsOf(InUse(opp))
          BY <1>5, <5>2 DEF VMsOf
        <5> QED BY <4>2, <5>3
      <4> QED BY <2>1, <3>1, <4>1, <4>2, SuspendedVMs
    <3> QED BY <2>1, <3>1 DEF Suspension
  <2> QED BY <1>2, <1>5, <2>1, <2>2, <2>3, LoopFrame DEF Inv, TypeOK
<1>7. CASE ~SuspendAsserts(opp)
  <2>1. pc' = "abort_suspend" /\ UNCHANGED domainVars
    BY <1>1, <1>7 DEF freeze_opposing, Abort, domainVars
  <2> QED BY <1>2, <1>3, <1>4, <1>5, <1>7, <2>1, SuspendFails
<1> QED BY <1>6, <1>7

LEMMA ThawOpposingStep ==
  ASSUME Inv, thaw_opposing
  PROVE  Inv'
<1>1. PICK opp : opp = generate_opposing_config(job_id)
  OBVIOUS
<1>2. pc = "thaw_opposing" /\ cv = "running"
  BY DEF thaw_opposing, Inv, Bookkeeping, TypeOK, Alive, Aborts
<1>3. /\ UNCHANGED <<job_queue, tableVars, lockVars, thread, domains, vm_locations>>
      /\ UNCHANGED <<membw_util, watch, hosts, load>>
      /\ frozen' = FALSE /\ pc' = "check"
      /\ suspended' = suspended \ {DomainAt(e) : e \in InUse(opp)}
      /\ cv' = cv
  BY <1>1 DEF thaw_opposing, Resume, lockVars
<1>4. suspended' \subseteq domains
  BY <1>3 DEF Inv, TypeOK
<1>5. Suspension'
  <2>1. ASSUME UseVMs, NEW v \in suspended' PROVE Leaked(v)'
    <3>1. v \in suspended /\ v \notin VMsOf(InUse(opp))
      BY <1>3, <2>1, SuspendedVMs
    <3>2. Leaked(v)
      BY <1>1, <1>2, <2>1, <3>1 DEF Inv, Suspension, Alive, Aborts
    <3> QED BY <1>3, <2>1, <3>2 DEF Leaked
  <2> QED BY <1>2, <1>3, <2>1 DEF Suspension
<1> QED BY <1>2, <1>3, <1>4, <1>5, LoopFrame

(* What the frozen job leaves suspended when it is thawed: its VMs, if it  *)
(* has ended.                                                              *)
LEMMA ThawLeaks ==
  ASSUME Inv, pc = "check", ThawIfFrozen, UseVMs, UNCHANGED hosts,
         \A j \in JobId : Ended(j) => Ended(j)'
  PROVE  suspended' \subseteq suspended /\ \A v \in suspended' : Leaked(v)'
<1>0. Placing /\ Alive
  BY DEF Placing, Alive, Aborts
<1>1. suspended' \subseteq suspended
  BY DEF ThawIfFrozen, Resume
<1>2. ASSUME NEW v \in suspended' PROVE Leaked(v)
  <2>1. Leaked(v) \/ (frozen /\ v \in VMsOf(config))
    BY <1>0, <1>1 DEF Inv, Suspension
  <2>2. ASSUME frozen, NEW e \in config, v = vm_locations[e] PROVE Leaked(v)
    <3>1. e \notin InUse(config)
      BY <2>2, SuspendedVMs DEF ThawIfFrozen, Resume, VMsOf
    <3>2. machine_usage[e] = Empty
      BY <3>1 DEF InUse
    <3>3. Ended(job_id) /\ job_id \in JobId
      BY <1>0, <3>2, NewestJob
    <3>4. v \in hosts[job_id]
      BY <1>0, <2>2 DEF Inv, Placement, VMsOf
    <3> QED BY <1>1, <3>3, <3>4 DEF Leaked, Ended
  <2> QED BY <2>1, <2>2 DEF VMsOf
<1>3. \A v \in suspended' : Leaked(v) => Leaked(v)'
  BY LeakedKept
<1> QED BY <1>1, <1>2, <1>3

LEMMA EverythingFineStep ==
  ASSUME Inv, EverythingFine
  PROVE  Inv'
<1>1. /\ pc = "check" /\ cv = "running" /\ Placing /\ Alive
      /\ marked_machines = {} /\ ThawIfFrozen
      /\ pc' = NextJob(cmd_counter)
      /\ UNCHANGED <<job_queue, tableVars, lockVars, thread, domains, vm_locations>>
      /\ UNCHANGED <<membw_util, frozen, watch, hosts, load>>
  BY DEF EverythingFine, AtCheck, Placing, Alive, Aborts, schedVars
<1>2. pc' \in {"acquire", "done"}
  BY <1>1, NextJobType DEF Inv, TypeOK
<1>3. ASSUME UseVMs, NEW m \in Machine, Overloaded(m) PROVE FALSE
  <2>1. PICK e \in config : e[1] = m
    BY <1>1, <1>3 DEF Inv, Loads, AfterMeasurement
  <2>2. m \in marked_machines
    BY <1>3, <2>1 DEF marked_machines, check_membw, Overloaded
  <2> QED BY <1>1, <2>2
<1>4. suspended' \subseteq domains
  BY <1>1 DEF ThawIfFrozen, Resume, Inv, TypeOK
<1>5. Suspension'
  <2>1. UseVMs => \A v \in suspended' : Leaked(v)'
    BY <1>1, ThawLeaks DEF Ended
  <2> QED BY <1>2, <2>1 DEF Suspension
<1>6. frozen' \in BOOLEAN
  BY <1>1 DEF Inv, TypeOK
<1> QED BY <1>1, <1>3, <1>4, <1>5, <1>6, LoopFrame

LEMMA FreezeStep ==
  ASSUME Inv, Freeze
  PROVE  Inv'
<1>1. /\ pc = "check" /\ cv = "running" /\ Placing /\ Alive /\ ~frozen
      /\ UNCHANGED <<job_queue, tableVars, lockVars, thread, domains, vm_locations>>
      /\ UNCHANGED <<membw_util, hosts, load>>
  BY DEF Freeze, AtCheck, Placing, Alive, Aborts
<1>2. /\ job_id \in JobId /\ config \in SUBSET Elem
      /\ \A e \in config : machine_usage[e] = Empty => ~Active(job_id)
  BY <1>1, NewestJob
<1>3. UseVMs => \A v \in suspended : Leaked(v)
  BY <1>1 DEF Inv, Suspension
<1>4. UNCHANGED <<job_id, config, VMsOf(config)>>
  BY <1>1 DEF job_id, config, VMsOf, tableVars
<1>5. CASE SuspendAsserts(config)
  <2>1. /\ suspended' = suspended \cup {DomainAt(e) : e \in InUse(config)}
        /\ frozen' = TRUE
        /\ pc' = IF UseVMs THEN "change" ELSE NextJob(cmd_counter)
        /\ watch' = IF UseVMs THEN watch ELSE [watch EXCEPT ![job_id] = "start"]
    BY <1>5 DEF Freeze, Suspend
  <2>2. suspended' \subseteq domains
    BY <1>1, <1>2, <2>1, DomainsExist DEF Inv, TypeOK
  <2>3. Suspension'
    <3> SUFFICES ASSUME UseVMs
                 PROVE  /\ \A v \in suspended' : Leaked(v)' \/ v \in VMsOf(config)'
                        /\ \A e \in config' : thread'[job_id'] = "running" => VmAt(e)' \in suspended'
      BY <2>1 DEF Suspension
    <3>1. suspended' = suspended \cup VMsOf(InUse(config))
      BY <2>1, SuspendedVMs
    <3>2. ASSUME NEW v \in suspended' PROVE Leaked(v)' \/ v \in VMsOf(config)'
      <4>1. CASE v \in suspended
        BY <1>1, <1>3, <4>1 DEF Leaked
      <4>2. CASE v \in VMsOf(InUse(config))
        BY <1>4, <4>2 DEF VMsOf, InUse
      <4> QED BY <3>1, <4>1, <4>2
    <3>3. ASSUME NEW e \in config, thread[job_id] = "running" PROVE vm_locations[e] \in suspended'
      <4>1. e \in InUse(config)
        BY <1>2, <3>3 DEF Active, InUse
      <4> QED BY <3>1, <4>1 DEF VMsOf
    <3> QED BY <1>1, <1>4, <3>2, <3>3 DEF VmAt
  <2> QED BY <1>1, <2>1, <2>2, <2>3, LoopFrame
<1>6. CASE ~SuspendAsserts(config)
  <2>1. pc' = "abort_suspend" /\ UNCHANGED domainVars /\ UNCHANGED schedVars
    BY <1>1, <1>6 DEF Freeze, Abort, domainVars, schedVars
  <2> QED BY <1>1, <1>2, <1>3, <1>6, <2>1, SuspendFails
<1> QED BY <1>5, <1>6

LEMMA StillFrozenStep ==
  ASSUME Inv, StillFrozen
  PROVE  Inv'
<1>1. /\ pc = "check" /\ cv = "running" /\ Alive /\ frozen
      /\ pc' = "change"
      /\ UNCHANGED <<job_queue, tableVars, lockVars, thread, domains, suspended, vm_locations>>
      /\ UNCHANGED <<membw_util, frozen, watch, hosts, load, job_id, config>>
  BY DEF StillFrozen, AtCheck, Alive, Aborts, domainVars, schedVars, job_id, config, tableVars
<1>2. UseVMs
  BY <1>1 DEF Inv, Bookkeeping
<1>3. suspended' \subseteq domains /\ frozen' \in BOOLEAN
  BY <1>1 DEF Inv, TypeOK
<1>4. Suspension'
  <2>1. \A v \in suspended' : Leaked(v) => Leaked(v)'
    BY <1>1, LeakedKept DEF Ended
  <2> QED BY <1>1, <1>2, <2>1 DEF Inv, Suspension, VMsOf, VmAt
<1> QED BY <1>1, <1>2, <1>3, <1>4, LoopFrame

-------------------------------------------------------------------------------
(* The measurement: what is written belongs to the VMs of the new job, and *)
(* nothing else changes.                                                   *)
LEMMA Measured ==
  ASSUME Inv, Placing, NEW result \in run_distgen,
         membw_util' = [e \in Elem |-> IF e \in config THEN 10 - result[e] ELSE membw_util[e]],
         load' = [v \in Elem |-> IF \E e \in config : vm_locations[e] = v
                                 THEN 10 - result[CHOOSE e \in config : vm_locations[e] = v]
                                 ELSE load[v]]
  PROVE  /\ membw_util' \in [Elem -> 0 .. 10] /\ load' \in [Elem -> 0 .. 10]
         /\ \A e \in Elem : membw_util'[e] = load'[vm_locations[e]]
<1>1. config \in SUBSET Elem
  BY NewestJob
<1>2. \A e \in config : 10 - result[e] \in 0 .. 10
  <2> SUFFICES ASSUME NEW e \in config PROVE 10 - result[e] \in 0 .. 10
    OBVIOUS
  <2>1. result[e] \in Distgen
    BY DEF run_distgen
  <2>2. result[e] \in 0 .. 10
    BY <2>1, DistgenAssumption
  <2> QED BY <2>2
<1>3. membw_util \in [Elem -> 0 .. 10] /\ load \in [Elem -> 0 .. 10] /\ vm_locations \in [Elem -> Elem]
  BY DEF Inv, TypeOK
<1>4. \A d, e \in Elem : vm_locations[d] = vm_locations[e] => d = e
  BY DEF Inv, Placement, CommandFollowsVMs
<1>5. membw_util' \in [Elem -> 0 .. 10]
  BY <1>2, <1>3
<1>6. ASSUME NEW v, \E e \in config : vm_locations[e] = v
      PROVE  /\ (CHOOSE e \in config : vm_locations[e] = v) \in config
             /\ vm_locations[CHOOSE e \in config : vm_locations[e] = v] = v
  BY <1>6
<1>7. load' \in [Elem -> 0 .. 10]
  <2> SUFFICES ASSUME NEW v \in Elem
               PROVE  (IF \E e \in config : vm_locations[e] = v
                       THEN 10 - result[CHOOSE e \in config : vm_locations[e] = v]
                       ELSE load[v]) \in 0 .. 10
    OBVIOUS
  <2> QED BY <1>2, <1>3, <1>6
<1>8. ASSUME NEW e \in Elem PROVE membw_util'[e] = load'[vm_locations[e]]
  <2>0. PICK v \in Elem : v = vm_locations[e]
    BY <1>3
  <2>1. CASE e \in config
    <3>1. (CHOOSE x \in config : vm_locations[x] = v) = e
      BY <1>1, <1>4, <1>6, <2>0, <2>1
    <3>2. load'[v] = 10 - result[e]
      BY <2>0, <2>1, <3>1
    <3> QED BY <2>0, <2>1, <3>2
  <2>2. CASE e \notin config
    <3>1. ~ \E x \in config : vm_locations[x] = v
      BY <1>1, <1>4, <2>0, <2>2
    <3> QED BY <2>0, <2>2, <3>1 DEF Inv, Loads
  <2> QED BY <2>1, <2>2
<1> QED BY <1>5, <1>7, <1>8

(* A job that is measured when it has ended: a watcher has unlocked the    *)
(* mutex.                                                                  *)
LEMMA EndedEarly ==
  ASSUME Inv, pc = "measure", ~Active(job_id)
  PROVE  \A e \in config : MeasuredLate(job_id, e)
<1>1. Placing /\ Measuring
  BY DEF Placing, Measuring
<1>2. job_id \in JobId /\ Ended(job_id)
  BY <1>1, NewestJob
<1>3. PICK k \in JobId : watch[k] # "none"
  BY <1>1 DEF Inv, Watchers, NoWatch
<1>4. watch[job_id] = "none"
  BY <1>1, <1>3 DEF Inv, Watchers, NoWatch
<1>5. k < job_id
  BY <1>2, <1>3, <1>4, NJobsAssumption DEF Inv, Watchers, job_id, JobId, TypeOK
<1> QED BY <1>2, <1>3, <1>5 DEF MeasuredLate, Ended, config

LEMMA MeasureStep ==
  ASSUME Inv, measure
  PROVE  Inv'
<1> USE DEF Inv
<1>1. /\ pc = "measure" /\ cv = "running" /\ Placing /\ Measuring /\ Alive
      /\ UNCHANGED <<job_queue, tableVars, lockVars, thread, domainVars, frozen, watch, hosts>>
  BY DEF measure, Bookkeeping, TypeOK, Alive, Aborts, Placing, Measuring
<1>2. UNCHANGED <<machine_usage, id_to_config, cmd_counter, locked, owns, cv, domains, suspended, vm_locations,
                  job_id, config>>
  BY <1>1 DEF tableVars, lockVars, domainVars, job_id, config
<1>3. /\ job_id \in JobId /\ config \in SUBSET Elem
      /\ \A e \in config : machine_usage[e] = Empty => ~Active(job_id)
  BY <1>1, NewestJob
<1>4. \A j \in JobId, e \in Elem : MeasuredLate(j, e) => MeasuredLate(j, e)'
  BY <1>1, <1>2 DEF MeasuredLate
<1>5. CASE \A e \in config : membw_util[e] = 0
  <2>1. PICK result \in run_distgen :
            /\ membw_util' = [e \in Elem |-> IF e \in config THEN 10 - result[e] ELSE membw_util[e]]
            /\ load' = [v \in Elem |-> IF \E e \in config : vm_locations[e] = v
                                       THEN 10 - result[CHOOSE e \in config : vm_locations[e] = v]
                                       ELSE load[v]]
    BY <1>5 DEF measure
  <2>2. pc' = "thaw_opposing"
    BY <1>5 DEF measure
  <2>3. /\ membw_util' \in [Elem -> 0 .. 10] /\ load' \in [Elem -> 0 .. 10]
        /\ \A e \in Elem : membw_util'[e] = load'[vm_locations[e]]
    BY <1>1, <2>1, Measured
  <2>4. \A j : Active(j)' <=> Active(j)
    BY <1>1 DEF Active
  <2>5. TypeOK'
    BY <1>1, <1>2, <2>2, <2>3 DEF TypeOK
  <2>6. Tables'
    BY <1>1, <1>2, <2>4, TablesFrame DEF Tables, tableVars
  <2>7. Bookkeeping'
    BY <1>1, <1>2, <2>2 DEF Bookkeeping
  <2>8. Watchers'
    <3>1. (NoWatch' <=> NoWatch) /\ (Mutex => Mutex')
      BY <1>1, <1>2, MutexFrame DEF NoWatch
    <3>2. LockCallers'
      BY <1>1, <1>2, LocksFrame
    <3> QED BY <1>1, <1>2, <2>2, <2>4, <3>1, <3>2 DEF Watchers, Measuring
  <2>9. Placement'
    BY <1>1, <1>2, <2>2, <2>4 DEF Placement, CommandFollowsVMs, VMsOf
  <2>10. Loads'
    <3>1. ASSUME NEW e \in Elem, membw_util'[e] # 0, machine_usage[e] = Empty
          PROVE  \E j \in JobId : MeasuredLate(j, e)'
      <4>1. CASE e \in config
        BY <1>1, <1>3, <1>4, <3>1, <4>1, EndedEarly
      <4>2. CASE e \notin config
        <5>1. \E j \in JobId : MeasuredLate(j, e)
          BY <2>1, <3>1, <4>2 DEF Loads
        <5> QED BY <1>4, <5>1
      <4> QED BY <4>1, <4>2
    <3>2. ASSUME UseVMs
          PROVE  /\ \A m \in Machine : Overloaded(m)' => \E e \in config : e[1] = m
                 /\ \A e \in config : membw_util'[Opposing(e)] <= PER_MACHINE_TH
                 /\ Active(job_id)
      <4>1. Active(job_id)
        BY <1>1, <3>2 DEF Watchers
      <4>2. \A m \in Machine : ~Overloaded(m)
        BY <1>1, <3>2 DEF Loads, BeforeMeasurement
      <4>3. ASSUME NEW m \in Machine, Overloaded(m)', \A e \in config : e[1] # m PROVE FALSE
        <5>1. /\ <<m, 0>> \in Elem /\ <<m, 1>> \in Elem
              /\ <<m, 0>> \notin config /\ <<m, 1>> \notin config
          BY <4>3 DEF Elem, Slot
        <5>2. membw_util'[<<m, 0>>] = membw_util[<<m, 0>>] /\ membw_util'[<<m, 1>>] = membw_util[<<m, 1>>]
          BY <2>1, <5>1
        <5> QED BY <4>2, <4>3, <5>2 DEF Overloaded, membw_util_of_node
      <4>4. ASSUME NEW e \in config PROVE membw_util'[Opposing(e)] <= PER_MACHINE_TH
        <5>1. Opposing(e) \in Elem /\ Opposing(e) \notin config /\ e[1] \in Machine
          BY <1>1, <1>3, SlotPairs DEF Placement, OnePerMachine
        <5>2. membw_util'[Opposing(e)] = membw_util[Opposing(e)]
          BY <2>1, <5>1
        <5>3. /\ membw_util[e] \in 0 .. 10 /\ membw_util[Opposing(e)] \in 0 .. 10
              /\ membw_util_of_node(membw_util, e[1]) = membw_util[e] + membw_util[Opposing(e)]
          BY <1>3, NodeSum DEF TypeOK
        <5> QED BY <4>2, <5>1, <5>2, <5>3 DEF Overloaded, PER_MACHINE_TH
      <4> QED BY <4>1, <4>3, <4>4
    <3> QED BY <1>2, <2>2, <2>3, <2>4, <3>1, <3>2 DEF Loads, BeforeMeasurement, AfterMeasurement
  <2>11. Suspension'
    <3>1. \A v \in suspended' : Leaked(v) => Leaked(v)'
      BY <1>1, LeakedKept DEF Ended
    <3>2. VMsOf(InUse(generate_opposing_config(job_id)))' = VMsOf(InUse(generate_opposing_config(job_id)))
      BY <1>2 DEF VMsOf, InUse, generate_opposing_config
    <3> QED BY <1>1, <1>2, <2>2, <3>1, <3>2 DEF Suspension
  <2>12. AbortsExplained'
    BY <2>2 DEF AbortsExplained, Alive, Aborts
  <2> QED BY <2>5, <2>6, <2>7, <2>8, <2>9, <2>10, <2>11, <2>12
<1>6. CASE ~ \A e \in config : membw_util[e] = 0
  <2>1. pc' = "abort_measure" /\ UNCHANGED schedVars
    BY <1>1, <1>6 DEF measure, Abort, schedVars
  <2>2. PICK e \in config : membw_util[e] # 0
    BY <1>6
  <2>3. PICK j \in JobId : MeasuredLate(j, e)
    BY <1>1, <1>3, <2>2 DEF Loads
  <2>4. ~UseVMs
    BY <2>3 DEF MeasuredLate, Watchers, NoWatch
  <2>5. MeasuredLate(j, e)' /\ e \in config'
    BY <1>2, <1>3, <1>4, <2>3
  <2>6. AbortsExplained'
    BY <2>1, <2>4, <2>5 DEF AbortsExplained
  <2> QED BY <1>1, <2>1, <2>6, AbortFrame DEF Aborts
<1> QED BY <1>5, <1>6

-------------------------------------------------------------------------------
(* The watcher threads, which there are with cgroups only.                 *)
WatcherMoves(j, to) ==
    /\ watch[j] \notin {"none", "gone"} /\ to \in WatchState \ {"none"}
    /\ watch' = [watch EXCEPT ![j] = to]
    /\ UNCHANGED <<job_queue, tableVars, cv, thread, domains, vm_locations,
                   membw_util, frozen, hosts, load>>
    /\ locked' \in BOOLEAN /\ owns' \in BOOLEAN
    /\ suspended' \subseteq suspended
    /\ IF to = "gone" THEN ~owns' ELSE owns' \/ (owns' = owns)
    /\ to \in {"unowned", "locking", "setting"} => ~owns \/ watch[j] \in {"unowned", "locking", "setting"}
    /\ \/ pc' = pc
       \/ pc' = "abort_unlock" /\ ~owns
       \/ pc' = "abort_lock" /\ watch[j] = "unowned" /\ to # "gone"

LEMMA WatcherMoved ==
  ASSUME Inv, NEW j \in JobId, Watcher(j) \/ WatchSpurious(j)
  PROVE  \E to : WatcherMoves(j, to)
<1> USE DEF Watch, WatchState, WatcherMoves, Inv, TypeOK
<1>1. CASE WatchOwnsLock(j)
  <2>1. WatcherMoves(j, IF owns THEN "enter" ELSE "unowned")
    BY <1>1 DEF WatchOwnsLock
  <2> QED BY <2>1
<1>2. CASE WatchCallLock(j)
  <2>1. WatcherMoves(j, IF owns THEN "unowned" ELSE "locking")
    BY <1>2 DEF WatchCallLock, Abort
  <2> QED BY <2>1
<1>3. CASE WatchTakeLock(j)
  <2>1. WatcherMoves(j, "setting")
    BY <1>3 DEF WatchTakeLock
  <2> QED BY <2>1
<1>4. CASE WatchSetOwner(j)
  <2>1. WatcherMoves(j, "enter")
    BY <1>4 DEF WatchSetOwner
  <2> QED BY <2>1
<1>5. CASE WatchWait(j)
  <2>1. WatcherMoves(j, "waiting")
    BY <1>5 DEF WatchWait
  <2> QED BY <2>1
<1>6. CASE WatchSpurious(j)
  <2>1. WatcherMoves(j, "woken")
    BY <1>6 DEF WatchSpurious
  <2> QED BY <2>1
<1>7. CASE WatchReacquire(j)
  <2>1. WatcherMoves(j, "check")
    BY <1>7 DEF WatchReacquire
  <2> QED BY <2>1
<1>8. CASE WatchAgain(j)
  <2>1. WatcherMoves(j, "start")
    BY <1>8 DEF WatchAgain
  <2> QED BY <2>1
<1>9. CASE WatchThaw(j)
  <2>1. WatcherMoves(j, "unlock")
    BY <1>9 DEF WatchThaw, Resume
  <2> QED BY <2>1
<1>10. CASE WatchUnlock(j)
  <2>1. WatcherMoves(j, IF owns THEN "release" ELSE "unlock")
    BY <1>10 DEF WatchUnlock, Abort
  <2> QED BY <2>1
<1>11. CASE WatchRelease(j)
  <2>1. WatcherMoves(j, "clear")
    BY <1>11 DEF WatchRelease
  <2> QED BY <2>1
<1>12. CASE WatchClear(j)
  <2>1. WatcherMoves(j, "gone")
    BY <1>12 DEF WatchClear
  <2> QED BY <2>1
<1> QED BY <1>1, <1>2, <1>3, <1>4, <1>5, <1>6, <1>7, <1>8, <1>9, <1>10, <1>11, <1>12 DEF Watcher

LEMMA WatcherStep ==
  ASSUME Inv, Alive, NEW j \in JobId, Watcher(j) \/ WatchSpurious(j)
  PROVE  Inv'
<1>1. PICK to : WatcherMoves(j, to)
  BY WatcherMoved
<1>2. /\ watch \in [JobId -> WatchState] /\ watch' \in [JobId -> WatchState]
      /\ watch[j] \notin {"none", "gone"} /\ watch'[j] = to /\ to # "none"
      /\ \A k \in JobId : k # j => watch'[k] = watch[k]
  BY <1>1 DEF WatcherMoves, Inv, TypeOK
<1>3. ~NoWatch /\ ~NoWatch' /\ ~UseVMs
  BY <1>2 DEF NoWatch, Inv, Watchers
<1>4. UNCHANGED <<job_queue, machine_usage, id_to_config, cmd_counter, cv, thread, domains,
                  vm_locations, membw_util, frozen, hosts, load, job_id, config>>
  BY <1>1 DEF WatcherMoves, tableVars, job_id, config
<1>5. Quiet
  BY <1>2, <1>4 DEF Quiet, tableVars
<1>6. pc' = pc \/ pc' \in {"abort_unlock", "abort_lock"}
  BY <1>1 DEF WatcherMoves
<1>7. (Placing' => Placing) /\ (Measuring' => Measuring)
  BY <1>6 DEF Placing, Measuring
<1>8. Tables' /\ Placement' /\ Loads'
  BY <1>3, <1>5, <1>6, <1>7, Frame DEF BeforeMeasurement, AfterMeasurement
<1>9. TypeOK'
  <2>1. locked' \in BOOLEAN /\ owns' \in BOOLEAN /\ suspended' \subseteq domains'
    BY <1>1, <1>4 DEF WatcherMoves, Inv, TypeOK
  <2> QED BY <1>2, <1>4, <1>6, <2>1 DEF Inv, TypeOK, Aborts
<1>10. Bookkeeping'
  <2>1. suspended' \subseteq suspended
    BY <1>1 DEF WatcherMoves
  <2> QED BY <1>3, <1>4, <1>6, <2>1 DEF Inv, Bookkeeping, Alive, Aborts
<1>11. Watchers'
  <2>1. \A k \in JobId : watch'[k] # "none" => k < cmd_counter'
    BY <1>2, <1>4 DEF Inv, Watchers
  <2>2. (Measuring' \/ pc' = "check") => watch'[job_id'] = "none"
    <3>1. Measuring' \/ pc' = "check" => watch[job_id] = "none" /\ job_id \in JobId
      BY <1>3, <1>6, <1>7, NewestJob DEF Inv, Watchers, Placing
    <3> QED BY <1>2, <1>4, <3>1
  <2>3. (\A k \in JobId : watch'[k] # "gone") => owns'
    <3>1. (\A k \in JobId : watch'[k] # "gone") => \A k \in JobId : watch[k] # "gone"
      BY <1>2
    <3>2. to = "gone" \/ owns' \/ (owns' = owns)
      BY <1>1 DEF WatcherMoves
    <3> QED BY <1>2, <3>1, <3>2 DEF Inv, Watchers
  <2>4. SomebodyLocks' => \E k \in JobId : watch'[k] = "gone"
    <3>1. SomebodyLocks' => SomebodyLocks \/ ~owns
      BY <1>1, <1>2, <1>4 DEF SomebodyLocks, WatcherMoves
    <3>2. SomebodyLocks' => \E k \in JobId : watch[k] = "gone"
      BY <3>1 DEF Inv, Watchers, LockCallers
    <3> QED BY <1>2, <3>2
  <2>5. owns' => \E k \in JobId : watch'[k] \notin {"none", "gone"}
    BY <1>1, <1>2 DEF WatcherMoves
  <2> QED BY <1>3, <2>1, <2>2, <2>3, <2>4, <2>5 DEF Watchers, LockCallers
<1>12. Suspension'
  BY <1>3 DEF Suspension
<1>13. AbortsExplained'
  <2>1. CASE pc' = pc
    BY <2>1 DEF AbortsExplained, Alive
  <2>2. CASE pc' = "abort_unlock" /\ ~owns
    <3>1. \E k \in JobId : watch[k] = "gone"
      BY <2>2 DEF Inv, Watchers
    <3>2. \E k \in JobId : watch'[k] = "gone"
      BY <1>2, <3>1
    <3> QED BY <1>3, <2>2, <3>2 DEF AbortsExplained
  <2>3. CASE pc' = "abort_lock" /\ watch[j] = "unowned" /\ to # "gone"
    <3>1. \E k \in JobId : watch[k] = "gone"
      BY <2>3 DEF Inv, Watchers, LockCallers, SomebodyLocks
    <3>2. watch'[j] \notin {"none", "gone"} /\ \E k \in JobId : watch'[k] = "gone"
      BY <1>2, <2>3, <3>1
    <3> QED BY <1>3, <2>3, <3>2 DEF AbortsExplained
  <2> QED BY <1>1, <2>1, <2>2, <2>3 DEF WatcherMoves
<1> QED BY <1>8, <1>9, <1>10, <1>11, <1>12, <1>13 DEF Inv

-------------------------------------------------------------------------------
(* A worker outside its critical section.                                  *)
LEMMA WorkerStep ==
  ASSUME Inv, Alive, NEW j \in JobId, Ctl(WorkerExit(j) \/ WorkerLock(j)) \/ Notify(j)
  PROVE  Inv'
<1>1. WorkerExit(j) \/ WorkerLock(j) \/ WorkerNotify(j)
  BY DEF Ctl, Notify
<1>2. /\ Tables' /\ (Mutex => Mutex')
      /\ \A i \in JobId : Active(i)' <=> Active(i)
      /\ UNCHANGED <<job_queue, tableVars, domainVars>>
      /\ \A i \in JobId : i # j => thread'[i] = thread[i]
  BY <1>1, WorkerFrame, MutexWorker DEF Inv
<1>3. UNCHANGED <<job_queue, machine_usage, id_to_config, cmd_counter, domains, suspended, vm_locations,
                  pc, owns, membw_util, frozen, hosts, load, job_id, config>>
  BY <1>2 DEF tableVars, domainVars, Ctl, Notify, schedVars, WorkerExit, WorkerLock, WorkerNotify, lockVars,
              job_id, config
<1>4. /\ \A i \in JobId : Ended(i) => Ended(i)'
      /\ \A i \in JobId : thread'[i] = "running" => thread[i] = "running"
  BY <1>1, <1>2 DEF Inv, Tables, WorkerExit, WorkerLock, WorkerNotify, Ended
<1>5. /\ locked' \in BOOLEAN
      /\ cv' = cv \/ (cv' = "woken" /\ cv = "waiting")
  BY <1>1 DEF Inv, TypeOK, WorkerExit, WorkerLock, WorkerNotify, lockVars
<1>6. /\ watch' \in [JobId -> WatchState]
      /\ \A k \in JobId : /\ watch'[k] = "none" <=> watch[k] = "none"
                          /\ watch'[k] = "gone" <=> watch[k] = "gone"
                          /\ watch'[k] \in {"unowned", "locking", "setting"} => watch[k] \in {"unowned", "locking", "setting"}
  BY DEF Inv, TypeOK, WatchState, Ctl, Notify, schedVars
<1>7. \A i \in JobId, e \in Elem : MeasuredLate(i, e) => MeasuredLate(i, e)'
  BY <1>3, <1>4, <1>6 DEF MeasuredLate, Ended
<1>8. TypeOK'
  <2>1. thread' \in [JobId -> ThreadState]
    BY <1>2 DEF Tables
  <2> QED BY <1>3, <1>5, <1>6, <2>1 DEF Inv, TypeOK
<1>9. Bookkeeping'
  BY <1>3, <1>5 DEF Inv, Bookkeeping, Alive
<1>10. Placing => job_id \in JobId
  BY NewestJob DEF Inv
<1>11. Watchers'
  <2>1. NoWatch' <=> NoWatch
    BY <1>6 DEF NoWatch
  <2>2. ~UseVMs /\ (Measuring' \/ pc' = "check") => watch'[job_id'] = "none"
    BY <1>3, <1>6, <1>10 DEF Inv, Watchers, Measuring, Placing
  <2>3. NoWatch' /\ Measuring' => Active(job_id)'
    BY <1>2, <1>3, <1>10, <2>1 DEF Inv, Watchers, Measuring, Placing, Active
  <2>4. \A k \in JobId : watch'[k] # "none" => k < cmd_counter'
    BY <1>3, <1>6 DEF Inv, Watchers
  <2>5. SomebodyLocks' => \E k \in JobId : watch'[k] = "gone"
    BY <1>5, <1>6 DEF Inv, Watchers, LockCallers, SomebodyLocks
  <2>6. cv' = "unowned" /\ owns' => \E k \in JobId : watch'[k] \notin {"none", "gone"}
    BY <1>3, <1>5, <1>6 DEF Inv, Watchers, LockCallers
  <2> QED BY <1>2, <1>3, <1>6, <2>1, <2>2, <2>3, <2>4, <2>5, <2>6 DEF Inv, Watchers, LockCallers
<1>12. Placement'
  <2>1. CommandFollowsVMs'
    BY <1>2, <1>3 DEF Inv, Placement, CommandFollowsVMs
  <2> QED BY <1>3, <2>1 DEF Inv, Placement, Placing, Measuring, VMsOf
<1>13. Loads'
  <2>1. \A e \in Elem :
            /\ membw_util'[e] # 0
            /\ machine_usage'[e] = Empty \/ (pc' \in {"freeze_opposing", "measure"} /\ e \in config')
            => \E i \in JobId : MeasuredLate(i, e)'
    BY <1>3, <1>7 DEF Inv, Loads
  <2>2. pc' \in AfterMeasurement => (Active(job_id)' <=> Active(job_id))
    BY <1>2, <1>3, <1>10 DEF Placing, Measuring, AfterMeasurement, Active
  <2>3. UseVMs => /\ pc' \in BeforeMeasurement => \A m \in Machine : ~Overloaded(m)'
                  /\ pc' \in AfterMeasurement =>
                        /\ \A m \in Machine : Overloaded(m)' => \E e \in config' : e[1] = m
                        /\ \A e \in config' : membw_util'[Opposing(e)] <= PER_MACHINE_TH
                        /\ ~Active(job_id)' => \A e \in config' : membw_util'[e] = 0
    <3>1. UseVMs => /\ pc \in BeforeMeasurement => \A m \in Machine : ~Overloaded(m)
                    /\ pc \in AfterMeasurement =>
                          /\ \A m \in Machine : Overloaded(m) => \E e \in config : e[1] = m
                          /\ \A e \in config : membw_util[Opposing(e)] <= PER_MACHINE_TH
                          /\ ~Active(job_id) => \A e \in config : membw_util[e] = 0
      BY DEF Inv, Loads
    <3> QED BY <1>3, <2>2, <3>1 DEF Overloaded
  <2>4. \A e \in Elem : membw_util'[e] = load'[vm_locations'[e]]
    BY <1>3 DEF Inv, Loads
  <2> QED BY <2>1, <2>3, <2>4 DEF Loads, BeforeMeasurement, AfterMeasurement
<1>14. Suspension'
  <2>1. \A v \in suspended' : Leaked(v) => Leaked(v)'
    BY <1>3, <1>4, LeakedKept
  <2>2. UNCHANGED <<VMsOf(config), VMsOf(InUse(generate_opposing_config(job_id))), config>>
    BY <1>3 DEF VMsOf, InUse, generate_opposing_config
  <2>3. pc' \in {"check", "change"} /\ thread'[job_id'] = "running" => thread[job_id] = "running"
    BY <1>3, <1>4, <1>10 DEF Placing
  <2> QED BY <1>3, <1>5, <2>1, <2>2, <2>3 DEF Inv, Suspension, VmAt, Alive
<1>15. AbortsExplained'
  BY <1>3 DEF AbortsExplained, Alive
<1> QED BY <1>2, <1>8, <1>9, <1>11, <1>12, <1>13, <1>14, <1>15 DEF Inv

(* The critical section of a worker, with the callback of the scheduler.   *)
(* Without watchers, the scheduler thread sleeps meanwhile.                *)
LEMMA CleanupStep ==
  ASSUME Inv, Alive, NEW j \in JobId, Cleanup(j)
  PROVE  Inv'
<1> USE DEF Inv
<1>1. thread[j] = "locked" /\ Active(j)
  BY DEF Cleanup, Active
<1>2. PICK K : K = id_to_config[j]
  OBVIOUS
<1>3. /\ WorkerCleanup(j) /\ pc' = pc
      /\ membw_util' = [e \in Elem |-> IF e \in K THEN 0 ELSE membw_util[e]]
      /\ load' = [v \in Elem |-> IF v \in hosts[j] THEN 0 ELSE load[v]]
      /\ UNCHANGED <<frozen, watch, hosts>>
  BY <1>1, <1>2, CleanupAssertsHold DEF Cleanup, command_done
<1>4. /\ Tables' /\ (Mutex => Mutex')
      /\ \A i \in JobId : Active(i)' <=> (Active(i) /\ i # j)
      /\ \A i \in JobId : i # j => thread'[i] = thread[i]
      /\ thread'[j] = "unlocked"
      /\ \A e \in Elem : machine_usage'[e] = IF machine_usage[e] = j THEN Empty ELSE machine_usage[e]
  BY <1>1, <1>3, TablesCleanup, MutexCleanup
<1>5. /\ UNCHANGED <<job_queue, id_to_config, cmd_counter, owns, cv, vm_locations, job_id, config>>
      /\ locked' = FALSE
      /\ domains' = domains \ delete_domain(j) /\ suspended' = suspended \ delete_domain(j)
      /\ UseVMs => delete_domain(j) = {}
  BY <1>3 DEF WorkerCleanup, delete_domain, create_domain, job_id, config
<1>6. NoWatch => ~Measuring
  BY <1>1 DEF Watchers, Mutex, MutualExclusion, Bookkeeping, TypeOK, Measuring
<1>7. \A i \in JobId : Ended(i) => Ended(i)'
  BY <1>1, <1>4 DEF Ended
<1>8. Placing => job_id \in JobId /\ config \in SUBSET Elem
  BY NewestJob
<1>9. \A i \in JobId, e \in Elem : MeasuredLate(i, e) => MeasuredLate(i, e)'
  BY <1>3, <1>5, <1>7 DEF MeasuredLate, Ended
<1>10. \A e \in Elem : membw_util'[e] = 0 \/ (e \notin K /\ membw_util'[e] = membw_util[e])
  BY <1>3
<1>11. TypeOK'
  <2>1. /\ membw_util' \in [Elem -> 0 .. 10] /\ load' \in [Elem -> 0 .. 10]
    BY <1>3 DEF TypeOK
  <2>2. machine_usage' \in [Elem -> JobId \cup {Empty}] /\ thread' \in [JobId -> ThreadState]
    BY <1>4 DEF Tables
  <2>3. domains' \subseteq Elem \cup (Machine \X JobId) /\ suspended' \subseteq domains'
    BY <1>5 DEF TypeOK
  <2> QED BY <1>3, <1>5, <2>1, <2>2, <2>3 DEF TypeOK
<1>12. Bookkeeping'
  BY <1>3, <1>5 DEF Bookkeeping, Alive
<1>13. Watchers'
  <2>1. NoWatch' <=> NoWatch
    BY <1>3 DEF NoWatch
  <2>2. LockCallers'
    BY <1>3, <1>5, LocksFrame
  <2> QED BY <1>3, <1>4, <1>5, <1>6, <2>1, <2>2 DEF Watchers, Measuring
<1>14. Placement'
  <2>1. CommandFollowsVMs'
    BY <1>3, <1>4, <1>5 DEF Placement, CommandFollowsVMs
  <2> QED BY <1>3, <1>5, <2>1 DEF Placement, Placing, Measuring, VMsOf
<1>15. Loads'
  <2>1. ASSUME NEW e \in Elem PROVE membw_util'[e] = load'[vm_locations[e]]
    <3>1. hosts[j] = {vm_locations[x] : x \in K} /\ K \subseteq Elem
      BY <1>1, <1>2 DEF Placement, CommandFollowsVMs, TypeOK
    <3>2. vm_locations[e] \in hosts[j] <=> e \in K
      BY <3>1 DEF Placement, CommandFollowsVMs
    <3>3. vm_locations[e] \in Elem
      BY DEF TypeOK
    <3> QED BY <1>3, <3>2, <3>3 DEF Loads
  <2>2. ASSUME NEW e \in Elem, membw_util'[e] # 0,
               machine_usage'[e] = Empty \/ (pc' \in {"freeze_opposing", "measure"} /\ e \in config')
        PROVE  \E i \in JobId : MeasuredLate(i, e)'
    <3>1. e \notin K /\ membw_util[e] # 0
      BY <1>10, <2>2
    <3>2. machine_usage[e] # j
      BY <1>1, <1>2, <3>1 DEF Tables, UsageMatchesConfig
    <3>3. \E i \in JobId : MeasuredLate(i, e)
      BY <1>3, <1>4, <1>5, <2>2, <3>1, <3>2 DEF Loads
    <3> QED BY <1>9, <3>3
  <2>3. \A m \in Machine : Overloaded(m)' => Overloaded(m)
    <3> SUFFICES ASSUME NEW m \in Machine PROVE Overloaded(m)' => Overloaded(m)
      OBVIOUS
    <3>1. <<m, 0>> \in Elem /\ <<m, 1>> \in Elem
      BY DEF Elem, Slot
    <3>2. /\ membw_util[<<m, 0>>] \in 0 .. 10 /\ membw_util[<<m, 1>>] \in 0 .. 10
          /\ membw_util'[<<m, 0>>] \in {0, membw_util[<<m, 0>>]}
          /\ membw_util'[<<m, 1>>] \in {0, membw_util[<<m, 1>>]}
      BY <1>10, <3>1 DEF TypeOK
    <3> QED BY <3>2 DEF Overloaded, membw_util_of_node, PER_MACHINE_TH
  <2>4. ASSUME UseVMs, pc' \in AfterMeasurement
        PROVE  /\ \A m \in Machine : Overloaded(m)' => \E e \in config' : e[1] = m
               /\ \A e \in config' : membw_util'[Opposing(e)] <= PER_MACHINE_TH
               /\ ~Active(job_id)' => \A e \in config' : membw_util'[e] = 0
    <3>0. Placing
      BY <1>3, <2>4 DEF Placing, Measuring, AfterMeasurement
    <3>1. /\ \A m \in Machine : Overloaded(m) => \E e \in config : e[1] = m
          /\ \A e \in config : membw_util[Opposing(e)] <= PER_MACHINE_TH
          /\ ~Active(job_id) => \A e \in config : membw_util[e] = 0
      BY <1>3, <2>4 DEF Loads
    <3>2. \A e \in config : membw_util'[Opposing(e)] <= PER_MACHINE_TH
      <4> SUFFICES ASSUME NEW e \in config PROVE membw_util'[Opposing(e)] <= PER_MACHINE_TH
        OBVIOUS
      <4>1. Opposing(e) \in Elem
        BY <1>8, <3>0, SlotPairs
      <4> QED BY <1>10, <3>1, <4>1 DEF PER_MACHINE_TH
    <3>3. ASSUME ~Active(job_id)', NEW e \in config PROVE membw_util'[e] = 0
      <4>1. e \in Elem /\ job_id \in JobId
        BY <1>8, <3>0
      <4>2. CASE job_id = j
        BY <1>2, <1>3, <4>1, <4>2 DEF config
      <4>3. CASE job_id # j
        <5>1. ~Active(job_id)
          BY <1>4, <1>5, <3>3, <4>1, <4>3 DEF Active
        <5> QED BY <1>10, <3>1, <4>1, <5>1
      <4> QED BY <4>2, <4>3
    <3> QED BY <1>5, <2>3, <3>1, <3>2, <3>3
  <2>5. UseVMs /\ pc' \in BeforeMeasurement => \A m \in Machine : ~Overloaded(m)'
    BY <1>3, <2>3 DEF Loads
  <2> QED BY <1>5, <2>1, <2>2, <2>4, <2>5 DEF Loads, BeforeMeasurement, AfterMeasurement
<1>16. Suspension'
  <2> SUFFICES ASSUME UseVMs
               PROVE  /\ \A v \in suspended' :
                            Leaked(v)' \/ (pc' \in {"check", "change"} /\ frozen' /\ v \in VMsOf(config)')
                      /\ pc' \in {"check", "change"} /\ frozen' =>
                            \A e \in config' : thread'[job_id'] = "running" => VmAt(e)' \in suspended'
                      /\ pc' = "change" \/ (pc' = "check" /\ cv' # "running") => frozen'
    BY DEF Suspension
  <2>1. suspended' = suspended /\ ~Measuring
    BY <1>5, <1>6 DEF Watchers
  <2>2. \A v \in suspended' : Leaked(v) => Leaked(v)'
    BY <1>3, <1>7, LeakedKept
  <2>3. UNCHANGED VMsOf(config)
    BY <1>5 DEF VMsOf
  <2>4. pc' \in {"check", "change"} /\ thread'[job_id'] = "running" => thread[job_id] = "running"
    BY <1>3, <1>4, <1>5, <1>8 DEF Placing
  <2> QED BY <1>3, <1>5, <2>1, <2>2, <2>3, <2>4 DEF Suspension, VmAt, Measuring
<1>17. AbortsExplained'
  BY <1>3 DEF AbortsExplained, Alive
<1> QED BY <1>4, <1>11, <1>12, <1>13, <1>14, <1>15, <1>16, <1>17

-------------------------------------------------------------------------------
(* The migration.  A machine that is overloaded after the measurement has  *)
(* a job that still runs, and the plan to relieve it is one of those that  *)
(* SwapPlanProofs speaks of.                                               *)
LEMMA PlanMade ==
  ASSUME Inv, AtCheck, UseVMs, marked_machines # {}, NEW move \in NewConfigs
  PROVE  /\ job_id \in JobId /\ Active(job_id) /\ OnePerMachine(config) /\ move \in [config -> Elem]
         /\ PlanAsserts(move) => Planned(config, move)
<1> USE DEF Inv
<1>1. pc = "check" /\ Placing
  BY DEF AtCheck, Placing
<1>2. job_id \in JobId /\ config \in SUBSET Elem /\ OnePerMachine(config)
  BY <1>1, NewestJob DEF Placement
<1>3. Active(job_id)
  <2> SUFFICES ASSUME ~Active(job_id) PROVE FALSE
    OBVIOUS
  <2>1. PICK e \in config : membw_util_of_node(membw_util, e[1]) > PER_MACHINE_TH
    BY DEF marked_machines, check_membw
  <2>2. membw_util[e] = 0 /\ membw_util[Opposing(e)] <= PER_MACHINE_TH
    BY <1>1 DEF Loads, AfterMeasurement
  <2>3. /\ membw_util[e] \in 0 .. 10 /\ membw_util[Opposing(e)] \in 0 .. 10
        /\ membw_util_of_node(membw_util, e[1]) = membw_util[e] + membw_util[Opposing(e)]
    BY <1>2, NodeSum DEF TypeOK
  <2> QED BY <2>1, <2>2, <2>3 DEF PER_MACHINE_TH
<1>4. PICK cand \in find_swap_candidates(marked_machines) \ {<<>>} :
            move \in generate_new_config(config, marked_machines, cand)
  BY DEF NewConfigs
<1>5. marked_machines \in SUBSET Machine
  BY <1>2, MarkedMachines DEF marked_machines
<1>6. PlanFrom(config, marked_machines, move)
  BY <1>2, <1>4, <1>5, PlansArePlans
<1> QED BY <1>2, <1>3, <1>6 DEF Planned, PlanFrom, PlanAsserts, marked_machines

LEMMA AcceptedIsApart ==
  ASSUME Inv, AtCheck, UseVMs, marked_machines # {}, NEW move \in NewConfigs,
         PlanAsserts(move), UpdateAsserts(update_config(job_id, move), move)
  PROVE  Planned(config, move) /\ Apart(config, move)
<1>1. /\ job_id \in JobId /\ OnePerMachine(config) /\ move \in [config -> Elem]
      /\ Planned(config, move)
  BY PlanMade
<1>2. \A c, d \in config : move[c] = move[d] => c = d
  BY <1>1, AssertedInjective DEF Inv, TypeOK
<1> QED BY <1>1, <1>2, PlannedIsApart DEF Inv, TypeOK

(* A table in which every slot has got the entry of its partner.           *)
Through(P, f) == [x \in Elem |-> f[P[x]]]

(* All tables are exchanged along the same pairs, and of every pair one    *)
(* slot was held by the job that is migrated.                              *)
Swapped(P) ==
    /\ P \in [Elem -> Elem] /\ \A x \in Elem : P[P[x]] = x
    /\ \A x \in Elem : P[x] = x \/ machine_usage[x] = job_id \/ machine_usage[P[x]] = job_id
    /\ machine_usage' = Through(P, machine_usage)
    /\ vm_locations' = Through(P, vm_locations)
    /\ membw_util' = Through(P, membw_util)
    /\ id_to_config' \in [JobId -> SUBSET Elem]
    /\ \A j \in JobId : Active(j) => id_to_config'[j] = {x \in Elem : machine_usage'[x] = j}

LEMMA MigrateSwaps ==
  ASSUME Inv, AtCheck, UseVMs, marked_machines # {}, NEW move \in NewConfigs,
         MigrationOK(move), Migrate(move)
  PROVE  \E P : Swapped(P)
<1>1. /\ job_id \in JobId /\ Active(job_id) /\ OnePerMachine(config) /\ move \in [config -> Elem]
      /\ Planned(config, move) /\ Apart(config, move)
  BY PlanMade, AcceptedIsApart DEF MigrationOK
<1>2. PICK P : P = Partner(config, move)
  OBVIOUS
<1>3. PICK t : t = update_config(job_id, move)
  OBVIOUS
<1>4. machine_usage' = t.usage /\ id_to_config' = t.configs
  BY <1>3 DEF Migrate
<1>5. /\ t \in MoveTable(config)
      /\ t.usage = [x \in Elem |-> machine_usage[P[x]]]
      /\ \A j \in JobId : Active(j) => t.configs[j] = {x \in Elem : t.usage[x] = j}
  BY <1>1, <1>2, <1>3, UpdateResult DEF Inv, config
<1>6. id_to_config' \in [JobId -> SUBSET Elem]
  BY <1>4, <1>5 DEF MoveTable
<1>7. vm_locations' = Through(P, vm_locations)
  <2>1. PICK V, f : V = Elem /\ f = vm_locations /\ f \in [Elem -> V]
    BY DEF Inv, TypeOK
  <2>2. SwapPairs(f, move)[NMachines] = [x \in Elem |-> f[P[x]]]
    BY <1>1, <1>2, <2>1, SwapsArePartners
  <2>3. vm_locations' = SwapVMs(move)
    BY DEF Migrate
  <2> QED BY <2>1, <2>2, <2>3 DEF SwapVMs, Through
<1>8. membw_util' = Through(P, membw_util)
  BY <1>1, <1>2, MembwResult DEF Migrate, Through, Inv, TypeOK
<1>9. /\ P \in [Elem -> Elem] /\ \A x \in Elem : P[P[x]] = x
      /\ \A c \in config : P[c] = move[c] /\ P[move[c]] = c
      /\ \A x \in Elem : (\A c \in config : x # c /\ x # move[c]) => P[x] = x
  BY <1>1, <1>2, Partners
<1>10. \A c \in config : c \in Elem /\ machine_usage[c] = job_id
  BY <1>1 DEF Inv, Tables, UsageMatchesConfig, OnePerMachine, config
<1>11. \A x \in Elem : P[x] = x \/ machine_usage[x] = job_id \/ machine_usage[P[x]] = job_id
  BY <1>9, <1>10
<1> QED BY <1>4, <1>5, <1>6, <1>7, <1>8, <1>9, <1>11 DEF Swapped, Through

(* No machine is overloaded afterwards.                                    *)
LEMMA Relieved ==
  ASSUME Inv, AtCheck, UseVMs, marked_machines # {}, NEW move \in NewConfigs,
         MigrationOK(move), Migrate(move)
  PROVE  \A m \in Machine : ~Overloaded(m)'
<1>1. /\ OnePerMachine(config) /\ Planned(config, move) /\ Apart(config, move)
  BY PlanMade, AcceptedIsApart DEF MigrationOK
<1>2. membw_util' = update_membw_util(move).util
  BY DEF Migrate
<1>3. \A m \in Machine : membw_util_of_node(update_membw_util(move).util, m) > PER_MACHINE_TH =>
                    /\ \A e \in config : e[1] # m
                    /\ membw_util_of_node(membw_util, m) > PER_MACHINE_TH
  BY <1>1, MembwResult DEF Inv, TypeOK
<1>4. \A m \in Machine : Overloaded(m) => \E e \in config : e[1] = m
  BY DEF Inv, Loads, AtCheck, AfterMeasurement
<1> QED BY <1>2, <1>3, <1>4 DEF Overloaded

LEMMA MigrateStep ==
  ASSUME Inv, AtCheck, UseVMs, marked_machines # {}, NEW move \in NewConfigs,
         MigrationOK(move), Migrate(move)
  PROVE  Inv'
<1> USE DEF Inv
<1>1. PICK P : Swapped(P)
  BY MigrateSwaps
<1>2. /\ P \in [Elem -> Elem] /\ \A x \in Elem : P[P[x]] = x
      /\ \A x \in Elem : /\ machine_usage'[x] = machine_usage[P[x]]
                         /\ vm_locations'[x] = vm_locations[P[x]]
                         /\ membw_util'[x] = membw_util[P[x]]
      /\ \A j \in JobId : Active(j) => id_to_config'[j] = {x \in Elem : machine_usage'[x] = j}
      /\ id_to_config' \in [JobId -> SUBSET Elem]
  BY <1>1 DEF Swapped, Through
<1>3. /\ machine_usage' \in [Elem -> JobId \cup {Empty}]
      /\ vm_locations' \in [Elem -> Elem] /\ membw_util' \in [Elem -> 0 .. 10]
  BY <1>1, <1>2 DEF Swapped, Through, TypeOK
<1>4. /\ pc = "check" /\ cv = "running" /\ ThawIfFrozen /\ pc' = NextJob(cmd_counter)
      /\ UNCHANGED <<job_queue, cmd_counter, lockVars, thread, domains, frozen, watch, hosts, load>>
      /\ UNCHANGED <<locked, owns, cv>>
  BY DEF Migrate, AtCheck, lockVars
<1>5. pc' \in {"acquire", "done"} /\ (pc' = "acquire" => cmd_counter \in JobId)
  BY <1>4, NextJobType DEF TypeOK
<1>6. ~Placing' /\ ~Measuring' /\ Alive' /\ pc' \in BeforeMeasurement
  BY <1>5 DEF Placing, Measuring, Alive, Aborts, BeforeMeasurement
<1>7. (\A j : Active(j)' <=> Active(j)) /\ NoWatch
  BY <1>4 DEF Active, Watchers
<1>8. /\ suspended' \subseteq suspended /\ \A v \in suspended' : Leaked(v)'
  BY <1>4, ThawLeaks DEF Ended
<1>9. TypeOK'
  <2>1. suspended' \subseteq domains'
    BY <1>4, <1>8 DEF TypeOK
  <2> QED BY <1>2, <1>3, <1>4, <1>5, <2>1 DEF TypeOK
<1>10. Tables'
  <2>1. ASSUME NEW e \in Elem, NEW j \in JobId
        PROVE  machine_usage'[e] = j <=> Active(j) /\ e \in id_to_config'[j]
    <3>1. CASE Active(j)
      BY <1>2, <3>1
    <3>2. CASE ~Active(j)
      BY <1>2, <3>2 DEF Tables, UsageMatchesConfig
    <3> QED BY <3>1, <3>2
  <2>2. ASSUME NEW j \in JobId, Active(j) PROVE id_to_config'[j] # {}
    <3>1. PICK e \in Elem : machine_usage[e] = j
      BY <2>2 DEF Tables, UsageMatchesConfig
    <3>2. machine_usage'[P[e]] = j /\ P[e] \in Elem
      BY <1>2, <3>1
    <3> QED BY <1>2, <2>2, <3>2
  <2>3. UsageMatchesConfig'
    BY <1>7, <2>1 DEF UsageMatchesConfig
  <2>4. CgroupsFollowJobs'
    BY DEF CgroupsFollowJobs
  <2> QED BY <1>2, <1>3, <1>4, <1>7, <2>2, <2>3, <2>4 DEF Tables
<1>11. Bookkeeping'
  BY <1>4, <1>5 DEF Bookkeeping
<1>12. Watchers'
  <2>1. (NoWatch' <=> NoWatch) /\ (Mutex => Mutex')
    BY <1>4, MutexFrame DEF NoWatch
  <2>2. LockCallers'
    BY <1>4, LocksFrame
  <2> QED BY <1>4, <1>6, <1>7, <2>1, <2>2 DEF Watchers
<1>13. Placement'
  <2>1. ASSUME NEW j \in JobId, Active(j)
        PROVE  hosts[j] = {vm_locations'[e] : e \in id_to_config'[j]}
    <3>1. hosts[j] = {vm_locations[e] : e \in id_to_config[j]}
      BY <2>1 DEF Placement, CommandFollowsVMs
    <3>2. \A e \in Elem : e \in id_to_config[j] <=> machine_usage[e] = j
      BY <2>1 DEF Tables, UsageMatchesConfig
    <3>3. id_to_config[j] \subseteq Elem /\ id_to_config'[j] \subseteq Elem
      BY <1>2 DEF TypeOK
    <3>4. \A e \in id_to_config[j] : P[e] \in id_to_config'[j] /\ vm_locations'[P[e]] = vm_locations[e]
      BY <1>2, <2>1, <3>2, <3>3
    <3>5. \A e \in id_to_config'[j] : P[e] \in id_to_config[j] /\ vm_locations[P[e]] = vm_locations'[e]
      BY <1>2, <2>1, <3>2, <3>3
    <3> QED BY <3>1, <3>4, <3>5
  <2>2. \A d, e \in Elem : vm_locations'[d] = vm_locations'[e] => d = e
    BY <1>2 DEF Placement, CommandFollowsVMs
  <2>3. CommandFollowsVMs'
    BY <1>4, <1>7, <2>1, <2>2 DEF CommandFollowsVMs
  <2> QED BY <1>6, <2>3 DEF Placement
<1>14. Loads'
  <2>1. \A e \in Elem : membw_util'[e] = load'[vm_locations'[e]]
    BY <1>2, <1>4 DEF Loads
  <2>2. ASSUME NEW e \in Elem, membw_util'[e] # 0, machine_usage'[e] = Empty PROVE FALSE
    <3>1. membw_util[P[e]] # 0 /\ machine_usage[P[e]] = Empty /\ P[e] \in Elem
      BY <1>2, <2>2
    <3>2. \E j \in JobId : MeasuredLate(j, P[e])
      BY <3>1 DEF Loads
    <3> QED BY <1>7, <3>2 DEF MeasuredLate, NoWatch
  <2>3. \A m \in Machine : ~Overloaded(m)'
    BY Relieved
  <2> QED BY <1>5, <2>1, <2>2, <2>3 DEF Loads, AfterMeasurement
<1>15. Suspension'
  BY <1>5, <1>8 DEF Suspension
<1>16. AbortsExplained'
  BY <1>6 DEF AbortsExplained
<1> QED BY <1>9, <1>10, <1>11, <1>12, <1>13, <1>14, <1>15, <1>16

(* The assertions that stop a migration.                                   *)
LEMMA MigrationFailsStep ==
  ASSUME Inv, AtCheck, UseVMs, marked_machines # {}, NEW move \in NewConfigs, MigrationFails(move)
  PROVE  Inv'
<1>1. /\ UNCHANGED <<job_queue, tableVars, lockVars, thread, domainVars, schedVars>>
      /\ pc = "check"
  BY DEF MigrationFails, AtCheck
<1>2. /\ UNCHANGED <<machine_usage, membw_util, config, marked_machines>>
  BY <1>1 DEF tableVars, schedVars, config, job_id, marked_machines, check_membw
<1>3. /\ job_id \in JobId /\ Active(job_id) /\ OnePerMachine(config) /\ move \in [config -> Elem]
      /\ PlanAsserts(move) => Planned(config, move)
  BY PlanMade
<1>4. \/ pc' = "abort_plan"
      \/ pc' = "abort_bounds" /\ LooksUpNobody(move)
      \/ /\ pc' = "abort_update" /\ PlanAsserts(move)
         /\ ~(MigrateAsserts(move) /\ UpdateAsserts(update_config(job_id, move), move))
      \/ /\ pc' = "abort_membw" /\ PlanAsserts(move)
         /\ UpdateAsserts(update_config(job_id, move), move)
         /\ ~update_membw_util(move).ok
  BY DEF MigrationFails, Abort
<1>5. ASSUME pc' = "abort_bounds" PROVE ~ \A e \in Elem : machine_usage[e] # Empty
  BY <1>3, <1>4, <1>5 DEF LooksUpNobody, Migrations
<1>6. ASSUME pc' = "abort_update" PROVE \E e \in config : e[1] \notin marked_machines
  <2> SUFFICES ASSUME \A e \in config : e[1] \in check_membw(config) PROVE FALSE
    BY DEF marked_machines
  <2>1. Planned(config, move)
    BY <1>3, <1>4, <1>6
  <2>2. Apart(config, move) /\ MigrateAsserts(move)
    BY <1>3, <2>1, OverloadedIsApart DEF Inv, TypeOK
  <2>3. UpdateAsserts(update_config(job_id, move), move)
    BY <1>3, <2>2, UpdateResult DEF Inv, config
  <2> QED BY <1>4, <1>6, <2>2, <2>3
<1>7. ASSUME pc' = "abort_membw"
      PROVE  \E e \in config : membw_util_of_node(membw_util, e[1]) = PER_MACHINE_TH
  <2>1. PlanAsserts(move) /\ UpdateAsserts(update_config(job_id, move), move) /\ ~update_membw_util(move).ok
    BY <1>4, <1>7
  <2>2. Planned(config, move) /\ Apart(config, move)
    BY <2>1, AcceptedIsApart
  <2> QED BY <1>3, <2>1, <2>2, MembwResult DEF Inv, TypeOK
<1>8. AbortsExplained'
  BY <1>2, <1>4, <1>5, <1>6, <1>7 DEF AbortsExplained
<1> QED BY <1>1, <1>4, <1>8, AbortFrame DEF Aborts

LEMMA ExchangeStep ==
  ASSUME Inv, Exchange
  PROVE  Inv'
BY MigrateStep, MigrationFailsStep DEF Exchange

-------------------------------------------------------------------------------
(* Inv is preserved by every step.                                         *)
LEMMA StutterStep ==
  ASSUME Inv, UNCHANGED vars
  PROVE  Inv'
<1>1. UNCHANGED <<pc, job_queue, machine_usage, id_to_config, cmd_counter, locked, owns, cv, thread, domains,
                  suspended, vm_locations, membw_util, frozen, watch, hosts, load, job_id, config>>
  BY DEF vars, ctlVars, tableVars, lockVars, domainVars, schedVars, job_id, config
<1>2. Quiet
  BY <1>1 DEF Quiet, tableVars
<1>3. Tables' /\ Placement' /\ Loads' /\ (\A j : Active(j)' <=> Active(j)) /\ (Mutex => Mutex')
  BY <1>1, <1>2, Frame, MutexFrame DEF Placing, Measuring
<1>4. TypeOK'
  BY <1>1 DEF Inv, TypeOK
<1>5. Bookkeeping'
  BY <1>1 DEF Inv, Bookkeeping, Alive
<1>6. Watchers'
  <2>1. LockCallers'
    BY <1>1, LocksFrame
  <2> QED BY <1>1, <1>3, <2>1 DEF Inv, Watchers, NoWatch, Measuring
<1>7. Suspension'
  BY <1>1 DEF Inv, Suspension, Alive, Leaked, VMsOf, InUse, generate_opposing_config, VmAt
<1>8. AbortsExplained'
  BY <1>1 DEF Inv, AbortsExplained, Alive, Fits, Leaked, marked_machines, check_membw, MeasuredLate, NoWatch
<1> QED BY <1>3, <1>4, <1>5, <1>6, <1>7, <1>8 DEF Inv

LEMMA NextInv == Inv /\ [Next]_vars => Inv'
<1> SUFFICES ASSUME Inv, [Next]_vars PROVE Inv'
  OBVIOUS
<1>1. CASE Alive /\ Scheduler
  <2>1. CASE Ctl(init) \/ Ctl(Drain) \/ Ctl(dismantle) \/ Ctl(destroy)
    BY <1>1, <2>1, MainStep, WaitStep
  <2>2. CASE Ctl(RejectOversized) \/ Submit \/ Ctl(SubmitFails)
    BY <1>1, <2>2, RejectStep, SubmitStep, SubmitFailsStep
  <2>3. CASE Ctl(wait_for_ressource) \/ wait_for_change \/ Ctl(Reacquire)
    BY <1>1, <2>3, WaitStep, WakeStep
  <2>4. CASE freeze_opposing \/ measure \/ thaw_opposing
    BY <2>4, FreezeOpposingStep, MeasureStep, ThawOpposingStep
  <2>5. CASE EverythingFine \/ Exchange \/ Freeze \/ StillFrozen
    BY <2>5, EverythingFineStep, ExchangeStep, FreezeStep, StillFrozenStep
  <2>6. CASE Ctl(owns_lock) \/ Ctl(CallLock) \/ Ctl(TakeLock) \/ Ctl(SetOwner)
    BY <1>1, <2>6, LockStep
  <2> QED BY <1>1, <2>1, <2>2, <2>3, <2>4, <2>5, <2>6 DEF Scheduler
<1>2. CASE Alive /\ Ctl(SpuriousWake)
  BY <1>2, WakeStep
<1>3. CASE Alive /\ \E j \in JobId : Worker(j)
  BY <1>3, WorkerStep, CleanupStep DEF Worker
<1>4. CASE Alive /\ \E j \in JobId : Watcher(j) \/ WatchSpurious(j)
  BY <1>4, WatcherStep
<1>5. CASE Alive /\ Ctl(Race)
  BY <1>5, RaceStep
<1>6. CASE UNCHANGED vars
  BY <1>6, StutterStep
<1> QED BY <1>1, <1>2, <1>3, <1>4, <1>5, <1>6 DEF Next

(* Inv holds in every reachable state, for every cluster, every job queue, *)
(* every set of measurements and both back ends.                           *)
THEOREM InvHolds == Spec => []Inv
BY InitInv, NextInv, PTL DEF Spec

(* Type correctness of the controller driven by multi_app_sched.           *)
THEOREM TypeCorrect == Spec => []TypeOK
<1>1. Inv => TypeOK
  BY DEF Inv
<1> QED BY <1>1, InvHolds, PTL

(* The slot table and the job table agree, through all migrations of       *)
(* update_config; with cgroups, as long as the sections of two threads do  *)
(* not interleave after a watcher has broken the mutex (step Race).        *)
THEOREM TablesAgree == Spec => []UsageMatchesConfig
<1>1. Inv => UsageMatchesConfig
  BY DEF Inv, Tables
<1> QED BY <1>1, InvHolds, PTL

(* A cgroup exists exactly as long as its job holds a slot there, whatever *)
(* the order in which the scheduler, workers and watchers enter their      *)
(* sections, until two of these interleave: then execute() and the cleanup *)
(* of a worker race for the tables and for the results of create_domain    *)
(* and delete_domain, and nothing is claimed (step Race).                  *)
THEOREM CgroupsFollow == Spec => []CgroupsFollowJobs
<1>1. Inv => CgroupsFollowJobs
  BY DEF Inv, Tables
<1> QED BY <1>1, InvHolds, PTL

(* Wherever a job was migrated, it runs in the VMs its command names: the  *)
(* pairs that update_config exchanges in the tables are the pairs          *)
(* vm_controller exchanges between the hosts.                              *)
THEOREM CommandsFollowVMs == Spec => []CommandFollowsVMs
<1>1. Inv => CommandFollowsVMs
  BY DEF Inv, Placement
<1> QED BY <1>1, InvHolds, PTL

(* membw_util follows the VMs: update_membw_util exchanges the same pairs, *)
(* and command_done() forgets what the job used where it is now.           *)
THEOREM LoadsFollow == Spec => []LoadsFollowVMs
<1>1. Inv => LoadsFollowVMs
  BY DEF Inv, Loads, LoadsFollowVMs
<1> QED BY <1>1, InvHolds, PTL

(* With VMs, nothing is overloaded once the scheduler turns to the next    *)
(* job, and what is while it waits belongs to the frozen job.              *)
THEOREM ThresholdIsKept == Spec => []ThresholdKept
<1>1. Inv => ThresholdKept
  <2> SUFFICES ASSUME Inv, UseVMs PROVE ThresholdKept
    BY DEF ThresholdKept
  <2>1. pc \in {"acquire", "select", "done", "drain"} => \A m \in Machine : ~Overloaded(m)
    BY DEF Inv, Loads, BeforeMeasurement
  <2>2. ASSUME pc = "check", cv = "waiting"
        PROVE  /\ \A m \in Machine : Overloaded(m) => \E e \in config : e[1] = m
               /\ \A e \in config : thread[job_id] = "running" => DomainAt(e) \in suspended
    <3>1. Alive
      BY <2>2 DEF Alive, Aborts
    <3> QED BY <2>2, <3>1 DEF Inv, Loads, AfterMeasurement, Suspension, DomainAt
  <2> QED BY <2>1, <2>2 DEF ThresholdKept
<1> QED BY <1>1, InvHolds, PTL

(* Why the process can die, the exceptions of lock() and unlock() on the   *)
(* shared unique_lock included; no other assertion fails, and no two       *)
(* sections interleave before a watcher was started.  After the step Race  *)
(* the threads race for memory and nothing is claimed.                     *)
THEOREM AbortsAreExplained == Spec => []AbortsExplained
<1>1. Inv => AbortsExplained
  BY DEF Inv
<1> QED BY <1>1, InvHolds, PTL

(* The mutex is intact until the first watcher is started, and the lock is *)
(* owned until the first watcher unlocks it.                               *)
THEOREM LockIntact == Spec => []LockIntactWithoutWatchers
<1>1. Inv => LockIntactWithoutWatchers
  BY DEF Inv, Watchers, Mutex, NoWatch, LockIntactWithoutWatchers
<1> QED BY <1>1, InvHolds, PTL

-------------------------------------------------------------------------------
(* Refinement.  A step that is not an exchange is one of the allocation    *)
(* without migration, or a stuttering one.                                 *)
LEMMA AllocStep ==
  ASSUME Inv, [Next]_vars, ~(Alive /\ Exchange)
  PROVE  Alloc!Next \/ UNCHANGED Alloc!vars
<1>0. Tables
  BY DEF Inv
<1>1. CASE Submit
  <2>1. PICK C : C = Chosen
    OBVIOUS
  <2>2. /\ cmd_counter \in JobId /\ execute(C) /\ C # {}
        /\ Cardinality(C) * SlotSize = req_cpus(job_queue[cmd_counter])
    BY <1>1, <2>1 DEF Submit, ExecuteAsserts, Inv, TypeOK, job
  <2>3. C \in (SUBSET Elem) \ {{}} /\ \A e \in C : machine_usage[e] = Empty
    BY <2>1, <2>2, ChosenSlots
  <2>4. req_cpus(job_queue[cmd_counter]) \in Nat
    BY <1>0, <2>2, ReqType DEF Tables
  <2>5. Cardinality(C) * SlotSize >= req_cpus(job_queue[cmd_counter])
    BY <2>2, <2>4
  <2> QED BY <1>0, <2>2, <2>3, <2>5, AllocExecute
<1>2. CASE \E j \in JobId : Cleanup(j)
  BY <1>0, <1>2, CleanupAssertsHold, AllocCleanup DEF Cleanup, Active
<1>3. CASE \E j \in JobId : WorkerExit(j) \/ WorkerLock(j) \/ WorkerNotify(j)
  BY <1>0, <1>3, WorkerFrame, AllocStutter DEF tableVars
<1>4. CASE UNCHANGED <<job_queue, id_to_config, thread>>
  BY <1>4, AllocStutter DEF Active
<1>5. \/ Submit \/ \E j \in JobId : Worker(j)
      \/ UNCHANGED <<job_queue, id_to_config, thread>>
  <2>1. ASSUME Alive, Scheduler PROVE Submit \/ UNCHANGED <<job_queue, id_to_config, thread>>
    BY <2>1 DEF Scheduler, Ctl, init, RejectOversized, owns_lock, CallLock, TakeLock, SetOwner, wait_for_ressource, SubmitFails,
         freeze_opposing, measure, thaw_opposing, EverythingFine, Freeze, StillFrozen, wait_for_change,
         Reacquire, Drain, CvWait, dismantle, destroy, tableVars
  <2>2. ASSUME NEW j \in JobId, Watcher(j) \/ WatchSpurious(j)
        PROVE  UNCHANGED <<job_queue, id_to_config, thread>>
    BY <2>2, WatcherMoved DEF WatcherMoves, tableVars
  <2> QED BY <2>1, <2>2 DEF Next, Ctl, SpuriousWake, Race, vars, ctlVars, tableVars
<1> QED BY <1>1, <1>2, <1>3, <1>4, <1>5 DEF Worker, Ctl, Notify

(* With cgroups, a job keeps the slots it was given: the controller driven *)
(* by multi_app_sched implements the abstract allocation of slots, up to   *)
(* the step Race.  Before that the slots of a job change hands at once,    *)
(* also when a watcher lets a worker clean up while a job is being placed; *)
(* in a race the slots that a worker releases one by one are seen by the   *)
(* scheduler in between.                                                   *)
THEOREM Refinement ==
  ASSUME ~UseVMs
  PROVE  Spec => ImplementsAllocation
<1>1. Inv /\ [Next]_vars => [Alloc!Next]_Alloc!vars
  BY AllocStep DEF Exchange
<1> QED BY <1>1, InvHolds, AllocInit, PTL DEF Spec, Init, ImplementsAllocation, Alloc!Spec

(* The allocation with migration contains the one without.                 *)
LEMMA MovingInit == CtlInit => MovingAlloc!Init
BY AllocInit DEF Alloc!Init, MovingAlloc!Init, Alloc!Job, MovingAlloc!Job

LEMMA MovingContains ==
  /\ Alloc!Next => MovingAlloc!Next
  /\ UNCHANGED Alloc!vars => UNCHANGED MovingAlloc!vars
<1>1. Alloc!Job = MovingAlloc!Job /\ Alloc!Taken = MovingAlloc!Taken
  BY DEF Alloc!Job, MovingAlloc!Job, Alloc!Taken, MovingAlloc!Taken
<1>2. ASSUME NEW j, NEW S PROVE Alloc!Place(j, S) => MovingAlloc!Place(j, S)
  BY <1>1 DEF Alloc!Place, MovingAlloc!Place, Alloc!Cardinality, MovingAlloc!Cardinality
<1>3. ASSUME NEW j PROVE Alloc!Release(j) => MovingAlloc!Release(j)
  BY DEF Alloc!Release, MovingAlloc!Release
<1>4. Alloc!Next => MovingAlloc!Next
  BY <1>1, <1>2, <1>3 DEF Alloc!Next, MovingAlloc!Next
<1>5. UNCHANGED Alloc!vars => UNCHANGED MovingAlloc!vars
  BY DEF Alloc!vars, MovingAlloc!vars
<1> QED BY <1>4, <1>5

LEMMA ElemFinite == IsFiniteSet(Elem)
BY MachinesFinite, SlotIsPair, FS_Product DEF Elem

(* A migration is an exchange of the newest job with others.               *)
LEMMA SwapIsExchange ==
  ASSUME Inv, NEW id \in JobId, id = job_id, Active(id), NEW P, Swapped(P), UNCHANGED <<job_queue, thread>>
  PROVE  MovingAlloc!Exchange(id)
<1> USE DEF Inv
<1>1. /\ P \in [Elem -> Elem] /\ \A x \in Elem : P[P[x]] = x
      /\ \A x \in Elem : P[x] = x \/ machine_usage[x] = id \/ machine_usage[P[x]] = id
      /\ \A x \in Elem : machine_usage'[x] = machine_usage[P[x]]
      /\ \A j \in JobId : Active(j) => id_to_config'[j] = {x \in Elem : machine_usage'[x] = j}
  BY DEF Swapped, Through
<1>2. \A j : Active(j)' <=> Active(j)
  BY DEF Active
<1>3. MovingAlloc!Job = JobId
  BY DEF MovingAlloc!Job, JobId
<1>4. UNCHANGED <<requestBar, phaseBar>>
  BY <1>2 DEF requestBar, phaseBar, req_cpus
<1>5. MovingAlloc!Newest(id) /\ phaseBar[id] = "placed"
  <2>1. ASSUME NEW k \in JobId, k > id PROVE phaseBar[k] = "queued"
    BY <2>1, NJobsAssumption DEF phaseBar, Tables, job_id, JobId
  <2>2. phaseBar[id] = "placed"
    BY DEF phaseBar, Active
  <2> QED BY <1>3, <2>1, <2>2 DEF MovingAlloc!Newest
<1>6. \A k \in JobId, x \in Elem : /\ x \in holdsBar[k] <=> machine_usage[x] = k
                                   /\ x \in holdsBar'[k] <=> machine_usage'[x] = k
  <2> SUFFICES ASSUME NEW k \in JobId, NEW x \in Elem
               PROVE  /\ x \in holdsBar[k] <=> machine_usage[x] = k
                      /\ x \in holdsBar'[k] <=> machine_usage'[x] = k
    OBVIOUS
  <2>1. \A y \in Elem : machine_usage[y] = k <=> Active(k) /\ y \in id_to_config[k]
    BY DEF Tables, UsageMatchesConfig
  <2>2. x \in holdsBar[k] <=> machine_usage[x] = k
    BY <2>1 DEF holdsBar
  <2>3. holdsBar'[k] = IF Active(k) THEN id_to_config'[k] ELSE {}
    BY <1>2 DEF holdsBar
  <2>4. machine_usage'[x] = k => Active(k)
    BY <1>1, <2>1
  <2> QED BY <1>1, <2>2, <2>3, <2>4
<1>7. \A k \in JobId : holdsBar[k] \subseteq Elem /\ holdsBar'[k] \subseteq Elem
  <2>1. id_to_config' \in [JobId -> SUBSET Elem]
    BY DEF Swapped
  <2> QED BY <2>1 DEF holdsBar, TypeOK
<1>8. ASSUME NEW k \in JobId PROVE Cardinality(holdsBar'[k]) = Cardinality(holdsBar[k])
  <2>1. PICK S, T : S = holdsBar[k] /\ T = holdsBar'[k]
    OBVIOUS
  <2>2. PICK f : f = [x \in S |-> P[x]]
    OBVIOUS
  <2>3. \A x \in Elem : P[x] \in Elem /\ (x \in S => P[x] \in T) /\ (x \in T => P[x] \in S)
    BY <1>1, <1>6, <2>1
  <2>4. S \subseteq Elem /\ T \subseteq Elem
    BY <1>7, <2>1
  <2>5. f \in [S -> T] /\ (\A a, b \in S : f[a] = f[b] => a = b) /\ \A y \in T : \E x \in S : f[x] = y
    <3>1. f \in [S -> T]
      BY <2>2, <2>3, <2>4
    <3>2. \A a, b \in S : f[a] = f[b] => a = b
      BY <1>1, <2>2, <2>4
    <3>3. \A y \in T : P[y] \in S /\ f[P[y]] = y
      BY <1>1, <2>2, <2>3, <2>4
    <3> QED BY <3>1, <3>2, <3>3
  <2>6. IsFiniteSet(S)
    BY <2>4, ElemFinite, FS_Subset
  <2>7. Cardinality(T) = Cardinality(S)
    BY <2>5, <2>6, SameSize
  <2> QED BY <2>1, <2>7
<1>9. \A k, l \in JobId : k # l => holdsBar'[k] \cap holdsBar'[l] = {}
  BY <1>6, <1>7
<1>10. ASSUME NEW k \in JobId, k # id
       PROVE  /\ holdsBar[k] \ holdsBar'[k] \subseteq holdsBar'[id] \ holdsBar[id]
              /\ holdsBar'[k] \ holdsBar[k] \subseteq holdsBar[id] \ holdsBar'[id]
  <2>1. ASSUME NEW x \in Elem, machine_usage[x] = k, machine_usage'[x] # k
        PROVE  machine_usage'[x] = id /\ machine_usage[x] # id
    BY <1>1, <1>10, <2>1
  <2>2. ASSUME NEW x \in Elem, machine_usage'[x] = k, machine_usage[x] # k
        PROVE  machine_usage[x] = id /\ machine_usage'[x] # id
    BY <1>1, <1>10, <2>2
  <2>3. \A x \in Elem : x \in holdsBar[k] \ holdsBar'[k] => x \in holdsBar'[id] \ holdsBar[id]
    BY <1>6, <2>1
  <2>4. \A x \in Elem : x \in holdsBar'[k] \ holdsBar[k] => x \in holdsBar[id] \ holdsBar'[id]
    BY <1>6, <2>2
  <2> QED BY <1>7, <2>3, <2>4
<1>11. \A k \in JobId : MovingAlloc!Cardinality(holdsBar'[k]) = MovingAlloc!Cardinality(holdsBar[k])
  BY <1>8 DEF MovingAlloc!Cardinality, Cardinality
<1> QED BY <1>3, <1>4, <1>5, <1>9, <1>10, <1>11 DEF MovingAlloc!Exchange

LEMMA MovingStep ==
  ASSUME Inv, [Next]_vars
  PROVE  MovingAlloc!MoveNext \/ UNCHANGED MovingAlloc!vars
<1>1. CASE ~(Alive /\ Exchange)
  BY <1>1, AllocStep, MovingContains DEF MovingAlloc!MoveNext
<1>2. CASE Exchange
  <2>1. PICK move \in NewConfigs : (MigrationOK(move) /\ Migrate(move)) \/ MigrationFails(move)
    BY <1>2 DEF Exchange
  <2>2. AtCheck /\ UseVMs /\ marked_machines # {}
    BY <1>2 DEF Exchange
  <2>3. CASE MigrationOK(move) /\ Migrate(move)
    <3>1. job_id \in JobId /\ Active(job_id)
      BY <2>2, PlanMade
    <3>2. PICK P : Swapped(P)
      BY <2>2, <2>3, MigrateSwaps
    <3>3. UNCHANGED <<job_queue, thread>>
      BY <2>3 DEF Migrate
    <3>4. PICK id \in JobId : id = job_id
      BY <3>1
    <3>5. MovingAlloc!Exchange(id)
      BY <3>1, <3>2, <3>3, <3>4, SwapIsExchange
    <3>6. id \in MovingAlloc!Job
      BY DEF MovingAlloc!Job, JobId
    <3> QED BY <3>5, <3>6 DEF MovingAlloc!MoveNext
  <2>4. CASE MigrationFails(move)
    <3>1. UNCHANGED <<job_queue, id_to_config, thread>>
      BY <2>4 DEF MigrationFails, tableVars
    <3>2. UNCHANGED Alloc!vars
      BY <3>1, AllocStutter DEF Active
    <3> QED BY <3>2, MovingContains
  <2> QED BY <2>1, <2>3, <2>4
<1> QED BY <1>1, <1>2

(* The controller driven by multi_app_sched implements the allocation in   *)
(* which the newest job may exchange its places: a migration takes nothing *)
(* away from anybody, leaves no slot to two jobs, and reaches the tables   *)
(* of all jobs concerned in one step.                                      *)
THEOREM MigratingRefinement == Spec => ImplementsMigratingAllocation
<1>1. Inv /\ [Next]_vars => [MovingAlloc!MoveNext]_MovingAlloc!vars
  BY MovingStep
<1> QED BY <1>1, InvHolds, MovingInit, PTL DEF Spec, Init, ImplementsMigratingAllocation, MovingAlloc!MoveSpec

===============================================================================
