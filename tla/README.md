# A TLA+ development of poncos

poncos (Poor Man's Co-Scheduler) takes a queue of MPI jobs and starts them on
the slots of a set of machines. A machine has two slots; two jobs may share a
machine if the memory bandwidth they use together stays below a threshold.
Jobs run in cgroups or in virtual machines, which are created, suspended,
resumed and migrated by agents (migfra, mmbwmon) reached over MQTT.

This directory models the program, all three schedulers, both back ends, the
start-up and the messages included, and checks it on small instances with TLC.
With TLAPS it proves, for every value of the constants, the safety properties
and the refinements of every part (section 4 says where a back end is assumed).

## 1. The system

| Part | State | Operations | Talks to |
|---|---|---|---|
| `main` (`src/poncos.cpp`) | options | `init`, `schedule`, `dismantle`, delete scheduler, delete controller | scheduler, controller |
| `controllerT` (`src/controller.cpp`) | `_machine_usage` (slot -> job), `_id_to_config` (job -> slots), `cmd_counter`, mutex, condition variable, owner flag of the `unique_lock`, worker threads | `execute`, `execute_command_internal`, `wait_for_ressource`, `wait_for_change`, `done`, `freeze`, `thaw`, `freeze_opposing`, `thaw_opposing`, `update_config`, `unlock` | scheduler (callback), agents |
| `cgroup_controller` | the cgroups on the hosts | `create_domain`, `delete_domain`, `generate_command` | agents |
| `vm_controller` | `vm_locations`, the VM pool | start and stop of all VMs, `update_config` (live migration) | agents |
| `multi_app_sched_consec` | none | whole nodes, one job per node | controller |
| `two_app_sched` | `co_config_in_use`, `co_config_distgend` | one slot of every machine per job, at most two jobs | controller, mmbwmon |
| `multi_app_sched` | `membw_util`, watcher threads | co-scheduling with migration (VMs) or watchers (cgroups) | controller, mmbwmon |
| `schedulerT::run_distgen` | none | a measurement on the cores opposite a job | mmbwmon |
| jobs, queues, slots, helpers | input files | parsing | - |
| fast-lib | subscriptions, message queues | `send_message`, `get_message` | broker |

The threads are the main thread, which runs the scheduler, and one worker per
started job, which calls `system()`, then takes `worker_counter_mutex`, deletes
the domain, frees the slots, runs the scheduler's callback, releases the mutex
and notifies. The main thread takes the mutex in the constructor and gives it up
only while it sleeps on the condition variable. In particular it holds it while
it sleeps for the start phase of a job, measures, freezes and thaws.

What is hard here: the end of a job races with the scheduler; slots are recorded
in two tables and, for `two_app_sched`, a third time in markers; freezing and
thawing look at the slot table at different times; the notification comes after
the unlock; `main` deletes the scheduler while worker threads still exist; a
frozen job keeps its slots while others wait for slots; migration changes four
tables in three functions; watcher threads share the main thread's lock object;
results of the agents do not say what they answer. `PROJECT.json` lists
these hazards with the line where each one bites.

## 2. The modules

| Module | What it is |
|---|---|
| `SlotAllocation` | abstract: jobs are placed in queue order on free places, enough for their CPUs, and release them all at once |
| `MigratingAllocation` | abstract: the same, and the newest job may exchange places with others |
| `Controller` | `controllerT` and its back ends: state, one action or action fragment per operation, and the guarantees that do not depend on the scheduler |
| `Consec` | `multi_app_sched_consec` driving the controller |
| `TwoApp` | `two_app_sched` driving the controller |
| `SwapPlan` | the planning algorithms of `multi_app_sched` and `update_config` as operators over `Controller` |
| `MultiApp` | `multi_app_sched` driving the controller, with VMs (migration) or cgroups (watcher threads); extends `SwapPlan` |
| `AtomicRequests` | abstract: operations on domains happen at once |
| `Requests` | tasks and results between the controller and the agents, over the queues of fast-lib |
| `Startup` | `main`: options, machine file, subscriptions, start and stop of the VMs |
| `MCConsec`, `MCTwoApp`, `MCMultiApp`, `MCStartup` | values of the constants for TLC |
| `Loops` | lemmas: least numbers, induction over the rounds of a loop, the tables a loop builds up |
| `ControllerProofs` | lemmas: what the operations of `Controller` do to the tables, the mutex and the abstract allocation |
| `SwapPlanProofs` | lemmas: what the loops of `SwapPlan` return, for plans of any size |
| `ConsecProofs`, `TwoAppProofs`, `MultiAppProofs`, `RequestsProofs`, `StartupProofs` | the theorems about the module each is named after |

`Controller` has no specification of its own; a scheduler module extends it and
says which operation its thread performs at which `pc`.

How the state corresponds to the code:

- `machine_usage`, `id_to_config`, `cmd_counter`: the members of these names.
  A configuration is a set of (machine, slot) pairs. Its order matters only to
  the text of a command line and to migration; a scheduler migrates only the
  newest job, whose vector is still in the order of the machines: round `n` of a
  loop over it treats its element on machine `n - 1` (`Idle`, `ElementOf`). Such a
  loop is a recursive function of the number of rounds.
- `locked`: the mutex. `owns`: `work_counter_lock.owns_lock()`. `cv`: whether
  the main thread runs, sleeps on the condition variable, or was woken and
  competes for the mutex (`MultiApp` adds the steps of `lock()`). `SpuriousWake` is
  the wake-up nobody asked for.
- `thread[j]`: how far `execute_command_internal` of job `j` is. `running` is
  inside `system()`, `exited` before the `lock_guard`, `locked` inside the
  critical section, `unlocked` before `notify_all()`.
- `domains`, `suspended`: the cgroups (machine, job) or VMs that exist, and those
  that are suspended. `vm_locations`: the VM in each slot.
- `pc`: the main thread. The values in `Aborts` are the points where an
  assertion fails (the default build type is Debug, so assertions are active),
  an out-of-bounds access is fatal, the `unique_lock` throws, or two threads
  interleave where the mutex should separate them.

Atomicity: what a thread does between two points where it takes or releases the
mutex, its section, is one step, or several where something visible lies
between them (`TwoApp` and `MultiApp` split freeze, measure, thaw and decide, since jobs
can leave `system()` in between). A request to an agent and its reply are part
of the step. `Requests` shows why this is right: while the mutex separates the
critical sections, an exchange of messages looks like one step to the others,
apart from an agent that refuses or has crashed. Where the mutex is broken
(`MultiApp` with cgroups) the step `Race` stands for sections that interleave. The
scheduler modules assume
that agents answer and succeed, and that `system()` does not return -1. A job
cannot end while one of its domains is suspended.

`command_done` of `two_app_sched` is called with a job id and uses it as a slot
index. For ids beyond the last slot the two writes go past the end of the
vectors. The model chooses between no visible effect (the bits of a
`vector<bool>` beyond its size, the padding of the heap block) and the end of
the process (the sanitizer of the Clang debug build, the allocator).

`MultiApp` adds:

- `membw_util` in tenths of what a machine delivers, `frozen` (the local flag),
  and the watcher of each job: `start` (about to call `wait_for_change`), `unowned`,
  `locking`, `setting` (in `lock()`), `enter`, `waiting`, `woken` (in the wait),
  `check`, `unlock`, `release`, `clear` (in `unlock()`), `gone`.
- The lock. There is one `unique_lock`, `owns` is its flag, and every thread uses
  it. `wait_for_change` and `wait_for_ressource` lock only if the flag is not
  set; the wait then unlocks the mutex, whoever has locked it, and locks it again
  on the way out without touching the flag. This is what libstdc++ and a normal
  glibc mutex do; unlocking a mutex of another thread is formally undefined.
  `unlock()` throws if the flag is not set, `lock()` if it is, which ends the
  process. The flag belongs to no thread, so every access to it is a step of its
  own: `if (!owns_lock()) lock()` is the test (`owns_lock`, `WatchOwnsLock`), the test
  inside `lock()` (`CallLock`), locking the mutex (`TakeLock`) and setting the flag
  (`SetOwner`); `unlock()` is its test, unlocking and clearing the flag.
- Two history variables that the code does not have: `hosts`, the VMs in the
  command line of a job, and `load`, what the processes in a VM were measured to
  use. They follow the VMs, while `membw_util` follows the tables.
- What the code reads from `id_to_job[SIZE_MAX]` when a destination slot is free
  is undefined: the process ends, or it goes on with one field of the request to
  the agent wrong.
- `Race`. A watcher that waits unlocks the mutex, so that two threads may be in
  sections the mutex should separate (`Overlap`): the main thread whenever it runs, a
  worker inside its `lock_guard`, a watcher that looks at its machines and thaws. Two
  such sections may still follow one another, in any order, and the model goes on
  with that. Or they interleave: `machine_usage` is cleared slot by slot while the
  main thread evaluates its condition, `create_domain` takes the answer meant for
  a `delete_domain`, the second loop of `suspend_resume_config` skips a slot that the
  first one asked about, two threads write one vector. That is a data race, and
  its outcomes are not bounded; the behaviour ends with the step `Race`
  (`pc = "race"`). Whatever is said of `MultiApp` with cgroups is said up to there.
  With VMs there is no watcher, and `AbortsExplained` says that `Race` cannot happen.

`Requests` numbers the critical sections in the order they begin. Each sends one
task per domain (`suspend`, `resume`: `suspend_resume_config`) or per machine
(`start`, `stop`: `cgroup_controller::create_domain`, `delete_domain`) and takes
one result per task from the queue of the machine. Agents work in any order,
carry out, refuse, or crash. Messages are delivered exactly once (every call uses
the default QoS 2 of fast-lib), on different topics in any order. The library's
thread and `get_message` meet in `add_message`, which notifies only if the queue
was empty. `before` is a history variable for the refinement. The exchange
with mmbwmon in `run_distgen` and the one of a migration have the same form.

`Startup` chooses the arguments while they are read. An option variable is `""`
or `"given"`. A machine file is a sequence of host, comment and blank lines that
ends with or without a newline. `pool` is a list of numbered VMs; taking from an
empty one is undefined, so the process ends or goes on with something.

Mutants: definitions introduced by "Mutant of" are wrong variants of the
definition that follows. They are used only to show that a property notices.

## 3. What the runs check

| Run | Bounds | Result |
|---|---|---|
| `consec` | 3 machines, slots of 2 CPUs, every queue of 3 jobs out of 6 kinds (1, 1, 2 and 3 nodes, too large, wrong thread count), cgroups, fair threads | all invariants hold; implements `SlotAllocation`; every queue of runnable jobs is worked off |
| `two_app` | 2 machines, every queue of 4 jobs out of 3 kinds, distgen 0.3 or 0.6, cgroups, fair threads | all invariants hold; implements `SlotAllocation`; frozen jobs are thawed; the queue is worked off or dies of the defect below, it never hangs |
| `two_app_markers` | 2 machines, 4 jobs of the right size, cgroups | `SlotAlwaysFound` is violated |
| `two_app_vm_thaw` | 2 machines, 3 jobs, VMs | `ThawReachesAllDomains` is violated |
| `multi_app_vm` | 3 machines, every queue of 3 jobs on 1 or 2 machines or too large, loads 0.2, 0.3, 0.6, VMs | all invariants hold; implements `MigratingAllocation` |
| `multi_app_vm_live` | 3 machines, 3 jobs that fit, loads 0.1, 0.6, 1.0, VMs, fair threads | the queue is worked off, or one of the named accidents happens |
| `multi_app_cgroup` | 2 machines with slots of 2 CPUs, 3 jobs out of 4 shapes, loads 0.4, 0.8, watchers | allocation and cgroups stay right until two sections interleave (`Race`), and only watchers make that possible; the list of deaths |
| `multi_app_pairs` | 3 machines, 2 jobs, VMs | `PairsResolveOverload` is violated |
| `multi_app_watcher` | 1 machine, 2 jobs, cgroups, fair threads | `WatchedJobsThaw` is violated |
| `multi_app_thaw` | 2 machines, 3 jobs, cgroups | `FrozenUntilFine` is violated |
| `startup` | up to 9 arguments, 10 machine files, 4 VMs in the pool | all properties hold |
| `requests` | 2 machines, at most one job at the beginning, 2 critical sections of any kind, every agent may crash | all properties hold; implements `AtomicRequests` |

Why the bounds are enough. With three nodes and requests of one to three nodes a
job waits behind a larger one, several jobs end while the scheduler sleeps, and
the selection loop skips busy nodes. `Consec` has no counters beyond the queue
and is proved for all bounds. `TwoApp` has two places for jobs; four jobs cover a
first pair, the reuse of either slot, and the first job that meets the markers
left by a job with an id outside the slots. With five jobs the result is the
same. Two machines are needed for a configuration to be more than one slot. The
distgen values make one pair of jobs fit (0.4 + 0.4) and the others not; a sum
of exactly 0.9 is avoided because there the code's result depends on rounding.

`MultiApp` with VMs needs three machines: then a job on two machines can exchange
slots with a machine that is its own, marked or not, or with a third one, and a
plan can hold two pairs. Three jobs are the newest one, one beside it and one it
is exchanged with. The loads of `multi_app_vm` make pairs that are below the
threshold, above it and exactly at it (0.6 + 0.3); in `multi_app_vm_live` a job
may exceed it alone, and a frozen job is migrated once another one has ended
(the mutant that migrates it without thawing it shows that this happens). With cgroups nothing is exchanged; three
jobs are a frozen one with its watcher, the job beside it, and the next one the
scheduler waits for; one watcher can be gone while the next one and the scheduler
both find the lock unowned. Loads are counted exactly, while the code adds
doubles; for the loads used here two of them come out at 0.9 as well. The sum
over several pairs in `find_swap_candidates` may come out just below its bound where
tenths give equality (2.4 + 1.2 < 3.6): then the code makes a plan the model
rejects, and reaches the assertion of `generate_new_config`, an end the model
reaches with other loads (`abort_plan`). `CHECK_DEADLOCK FALSE` is used
where the program really may stop: watchers that sleep for ever or lock a mutex
nobody unlocks (cgroups), a blank line in the machine file, a crashed agent.

In `startup` nine arguments are enough for `--vm` with the four options it
requires; the machine files have up to three lines, and the third machine finds
the pool empty. In `requests` a second critical section is enough to receive
what a first one left behind; critical sections before these two only change
which jobs run and what is suspended, and every kind of operation is tried.

Properties of `Controller`. All are checked under `Consec` (and proved there); the
other schedulers check those they could break: the tables under migration, the
cgroups and the lock under watchers, the refinement under all of them.

- `UsageMatchesConfig`: the slot table and the job table agree at every step.
- `MutualExclusion`: the mutex separates main thread and workers.
- `SafeTeardown`: no worker can reach the scheduler or back end once `main`
  dismantles.
- `CgroupsFollowJobs`: the cgroups on the hosts are exactly those of the jobs in
  the slot table.
- `ImplementsAllocation`: refinement of `SlotAllocation`. A job holds what
  `id_to_config` names while the code decides by `machine_usage`, so this needs
  the agreement of the tables.

Of the schedulers: `NoLostWakeup`, `OnlyBadJobsAbort` and `WholeNodes` (`Consec`);
`NoLostWakeup`, `AbortsExplained`, `NothingStaysFrozen`, `OneJobFrozen`,
`FrozenHasPartner` (`TwoApp`). `AbortsExplained` also shows that wrong markers
never lead to an occupied slot: jobs 0 and 1 always sit in slots 0 and 1, because
the main thread does not give the mutex up between them, and the callbacks of
later jobs clear nothing.

Of `MultiApp`:

- `CommandFollowsVMs`: `id_to_config`, `vm_locations` and the command line
  written at the start name the same VMs after any number of migrations.
- `LoadsFollowVMs`: `membw_util` is right for every slot, also for jobs that were
  moved by another job's exchange and end afterwards.
- `ThresholdKept`: no machine is overloaded when the scheduler turns to the next
  job; if it waits, the newest job is to blame and frozen.
- `AbortsExplained`: the ways in which the process can die by an assertion, an
  access out of bounds or an exception of the lock. With cgroups and jobs that
  fit, a watcher is behind every one of them, and behind every `Race`, after which
  nothing is said.
- `ImplementsMigratingAllocation`: an exchange gives and takes whole slots
  between two jobs or a job and nobody, in both tables.
- `LockIntactWithoutWatchers`: until a watcher is started the mutex excludes; until
  one has ended the lock is owned.
- `CgroupsFollowJobs` and `ImplementsAllocation` with cgroups: although a worker may
  clean up between any two sections of the scheduler once the mutex is broken,
  the newest job between its start and its measurement included, cgroups and
  slots change together. Within interleaving sections they do not (`Race`).
- `QueueCompletes`: fair threads work off a queue of jobs that fit, unless the
  process dies, a job is put into a VM left suspended (disagreement 2), or the
  frozen job is above the threshold alone, which the source has a TODO about
  (`scheduler_multi_app.cpp:287`).

Of `Startup`: `VMsMatchSlots` (if the pool suffices it is never found empty, and the
VMs that run are those in `vm_locations`, each in one slot, also after a run that
was cut short), `TopicsSubscribed`,
`NoVMsLeft`, `StartupEnds`. Of `Requests`: `ResultsAreMine` (results carry no id;
still a critical section takes only its own and leaves none behind),
`NoSleepOnMessage`, `OperationsReturn` (unless an agent it needs has crashed:
then the mutex is never released), `ImplementsAtomicRequests`.

Fairness. Weak fairness for the main thread and each worker: the operating
system schedules every thread, a job that is not suspended ends, agents answer.
Strong fairness for a worker's lock: the main thread may wake up spuriously and
take the mutex again and again, and a mutex is assumed not to starve a waiter
forever; `MultiApp` assumes it of every thread that competes for the mutex, the
main thread and the watchers in `lock()` and on their way out of a wait included.
Nothing is
assumed of spurious wake-ups. In `Requests` the thread inside the critical
section, the library's thread and the agents that have not crashed keep going;
nothing makes an agent crash or a critical section begin. `Startup` is one
thread with weak fairness.

### Disagreements found

1. `two_app_sched::command_done` takes a job id for a slot. From the third job
   on, the marker of the slot stays set and the write is out of bounds; the
   fourth job can fail `assert(new_slot < system_config.slots.size())` although
   `wait_for_ressource` has returned (`two_app_markers`).
2. `thaw` promises to thaw "all domains with the supplied id", but
   `suspend_resume_config` skips slots that have become empty. With VMs, a job
   whose command returned before `freeze` but whose worker is cleaned up during
   the following wait leaves its VMs suspended (`two_app_vm_thaw`). With cgroups
   the domain disappears with the job, and `NothingStaysFrozen` holds.
3. `find_swap_candidates` is to find machines that resolve the overload. The sum
   over all pairs says nothing of a pair, and a marked machine may be a
   candidate: an assertion of `generate_new_config` fails (`multi_app_pairs`).
4. A watcher waits without a condition. It can miss the last change and leave its
   job frozen for ever (`multi_app_watcher`).
5. A watched job is to stay frozen until its machines are fine. The measurement
   of the next job beside it resumes it (`multi_app_thaw`).

Further ways to end the process are reached by the passing runs and named in
`AbortsExplained` of `MultiApp`:

- a candidate is another machine of the same job and the slot the job's own:
  `assert(old_config == new_config)` of `update_config` fails (`abort_update`);
- a machine of the job is at exactly the threshold: not overloaded for
  `check_membw`, which uses `>`, but the assertions of `update_membw_util`, which
  use `<`, fail (`abort_membw`);
- the destination slot is free: `vm_controller::update_config` looks up
  `id_to_job[SIZE_MAX]` (`abort_bounds`);
- a watcher has ended with `unlock()`: the scheduler thread finds its lock not
  owned in `execute` (`abort_owner`), or a second watcher does (`abort_unlock`);
- a watcher has ended, and the scheduler thread (in `done()` or
  `wait_for_ressource`) and a second watcher both find the lock not owned; one of
  them locks it, and `lock()` of the other throws (`abort_lock`);
- a watcher has unlocked the mutex, a job ends before its measurement is
  recorded, so its bandwidth stays in the slot, and the assertion of the next job
  measured there fails (`abort_measure`, `MeasuredLate`). The proof found this one:
  it takes a fourth job, or a third and a load above the threshold by itself,
  which the bounds of `multi_app_cgroup` leave out.

Seen while modelling, without a run of their own: the slot rule of
`generate_new_config` does not minimize the variance its comment speaks of; the
required `--server` is not checked (`OptionsOK`); a machine file whose last line
has no newline fails an assertion (`ReadAsserts`).

## 4. What is proved

Every invariant and every refinement the passing runs check is a theorem, for
every value of the constants. The hypotheses are the named assumptions of the
modules: at least one machine and one CPU per slot; jobs with at least one
process and one thread; distgen answers in 0..1 (it is a ratio, kept in tenths);
in `Requests` any number of critical sections; in `Startup` machine files of
host, comment and blank lines and a pool of any size. Nothing is assumed of the
queue: jobs that do not fit are in it. "Both" means for either back end.

| Module | Proved | Back end |
|---|---|---|
| `ConsecProofs` | `TypeOK`, `UsageMatchesConfig`, `MutualExclusion`, `NoLostWakeup`, `OnlyBadJobsAbort`, `WholeNodes`, `SafeTeardown`, `CgroupsFollowJobs`, `ImplementsAllocation` | both |
| `TwoAppProofs` | `TypeOK`, `UsageMatchesConfig`, `NoLostWakeup`, `SafeTeardown`, `FrozenHasPartner`, `ImplementsAllocation` | both |
| | `AbortsExplained`, `NothingStaysFrozen`, `OneJobFrozen` | cgroups |
| `MultiAppProofs` (with cgroups up to `Race`) | `TypeOK`, `UsageMatchesConfig`, `CgroupsFollowJobs`, `CommandFollowsVMs`, `LoadsFollowVMs`, `ThresholdKept`, `AbortsExplained`, `LockIntactWithoutWatchers`, `ImplementsMigratingAllocation` | both |
| | `ImplementsAllocation` | cgroups |
| `RequestsProofs` | `TypeOK`, `ResultsAreMine`, `NoSleepOnMessage`, `ImplementsAtomicRequests` | - |
| `StartupProofs` | `TopicsSubscribed`, `VMsMatchSlots` | - |

The three properties of `TwoApp` proved with cgroups are false with VMs: a VM
left suspended (disagreement 2) stays so, and the next job in it counts as
frozen. With VMs `MultiApp` migrates and implements only the allocation with
exchanges.

The arguments, one inductive invariant (`Inv`) per scheduler:

- The controller (`ControllerProofs`). `Tables` says how the slot table, the job
  table, the threads and the cgroups belong together, `Mutex` that the mutex is
  locked exactly if the main thread runs or one worker is in its critical section.
  They are kept apart because in `MultiApp` the mutex may be broken while sections
  still follow one another: the tables do not need it then, since only the
  scheduler hands out slots and a job is cleaned up once.
- `Consec`. `Bookkeeping` adds at which waits the main thread sleeps.
  `OnlyBadJobsAbort` rests on `SelectionSuffices`: when `wait_for_ressource` has
  returned, the loop over the nodes collects enough. Either it takes all idle
  nodes, which are the ones `wait_for_ressource` counted because nodes are used as
  a whole, or the first idle node it does not look at (`NatMin`) has enough idle
  nodes before it.
- `TwoApp`. The markers are wrong in one direction only: an unmarked slot is free
  on every machine, since jobs 0 and 1 really got slots 0 and 1 (`Markers`,
  `Order`). `Frozenness` says which cgroups may be suspended at which `pc`; it is
  inductive because the mutex is held from the start of a job to the next wait.
  `FrozenHasPartner` needs only `PartnerRuns`: the old job holds the opposing
  column, so `thaw_opposing` reaches all its domains, and freezing the new job
  touches no domain of another one (`OwnDomains`). This survives leaked VMs.
- `MultiApp`. `Loads` (the bandwidth table follows the VMs, and no machine but the
  newest job's is overloaded), `Suspension` (which VMs may be suspended, leaked
  ones named), `Placement` and `Watchers`. With VMs there are no watchers, the mutex
  is intact, and the newest job cannot end before it is measured; with cgroups
  that holds until the first watcher starts, so `Race` needs one (`RaceStep`).
  `LockCallers` is about the shared flag: nobody finds the lock unowned before a
  watcher is gone, and if the scheduler thread then finds it owned inside `lock()`,
  a watcher that is still there has locked it.
- Migration (`SwapPlanProofs`). The loops build tables element by element; that
  such tables exist is `RoundsExist`, what they contain follows by induction on
  the round (`UpTo`). If the assertions of `update_config` hold, its loop is injective
  (`AssertedInjective`) and its result exchanges the two ends of each pair
  (`SwapsExchange`, `UpdateResult`, `MembwResult`). `DestinationsFine` and
  `PlannedIsApart` say of a plan what keeps `ThresholdKept` true on the machines the
  newest job leaves and enters. `SwapIsExchange` maps the step to `MigratingAllocation`.
- `Requests`. `Accounting`: every message under way belongs to one place for which
  the critical section with the mutex still expects an answer, and no place has
  two; places of one loop are on different machines, so the topic tells which
  task a result answers. `Effect` says how much of an operation has happened, and
  at its end that is what `AtomicRequests` does at once.
- `Startup`. `Taken`: machine `i` got the `i`-th two VMs of the pool, so two are left
  for every machine to come if the pool suffices. `OnlyOurs`: no other VM runs on
  the machines of the file.

Only model-checked is liveness (`QueueCompletes`, `FrozenJobsThaw`, `NoVMsLeft`,
`StartupEnds`, `OperationsReturn`), which the prover cannot do: it knows neither
`ENABLED` nor fairness. The properties of the runs that expect a violation are
false, so there is nothing to prove.

## 5. What is not modelled

- Failing agents under a scheduler (only `Requests` and `Startup` have them) and
  a failing `system()`.
- The rest of fast-lib: connecting and reconnecting, topic patterns, message
  formats, timers. A lost connection is not modelled; nothing in `src/` outside
  the library handles one.
- More than two slots per machine. The code asserts two where it matters.
- `wait_for_completion_of`, which nothing calls, and what detached watchers do
  after `main` has deleted scheduler and controller.
- What becomes of the tables, the messages and the process once sections of two
  threads interleave because a watcher broke the mutex (after `Race`).
- Text: command lines, host files, XML, YAML, logging, timers; the scripts that
  start a job in its cgroup.

## 6. Plan

1. The steps behind the liveness properties that are safety: measures that no
   step increases and the scheduler's steps decrease, for `Consec` and `Requests`.
2. Operators: which machines the selection of `multi_app_sched` returns, and that
   what `wait_for_ressource` waits for stays true until the scheduler runs.
3. `AbortsExplained` of `TwoApp` with VMs, with the leaked VMs named as in
   `MultiApp`.
