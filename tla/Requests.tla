------------------------------- MODULE Requests -------------------------------
(***************************************************************************)
(* How the controller talks to the agents on the machines: a critical      *)
(* section sends one task per domain (suspend_resume_config) or machine    *)
(* (create_domain, delete_domain of cgroup_controller), then takes one     *)
(* result per task from the queue of the machine's result topic, which the *)
(* thread of the MQTT library fills (MQTT_subscription_get of fast-lib).   *)
(* Results carry nothing that says which task they answer.                 *)
(*                                                                         *)
(* Messages are neither lost nor duplicated (QoS 2); agents work on tasks  *)
(* in any order, may refuse, and may stop answering.                       *)
(***************************************************************************)
EXTENDS Integers, Sequences, FiniteSets

CONSTANTS
    NMachines,  \* number of machines, with two slots each
    NOps,       \* bound on the number of critical sections
    NRunning    \* bound on the number of jobs that run at the beginning

ASSUME NMachinesAssumption == NMachines \in Nat \ {0}
ASSUME NOpsAssumption      == NOps \in Nat
ASSUME NRunningAssumption  == NRunning \in Nat

Machine == 0 .. NMachines - 1
Place   == Machine \X (0 .. 1)
Op      == 1 .. NOps            \* the critical sections
NoOp    == 0

VARIABLES
    mutex,      \* the critical section that holds worker_counter_mutex
    phase,      \* where each critical section is
    call,       \* the operation of each critical section
    todo,       \* the elements that are left of the loop it is in
    jobs,       \* configurations of the jobs that hold slots
    state,      \* the domain in each slot
    tasks,      \* tasks the agents have not worked on
    net,        \* results on their way
    results,    \* MQTT_subscription_get::messages of each result topic
    sleeping,   \* the critical section sleeps in get_message()
    dead,       \* machines whose agent has stopped answering
    aborted,    \* an assertion has failed
    before      \* history: jobs and state when the mutex was taken

ctl  == <<mutex, phase, call, todo, jobs, before>>
vars == <<ctl, state, tasks, net, results, sleeping, dead, aborted>>

usage == UNION jobs     \* slots in use, according to machine_usage

Kinds == {"suspend", "resume", "start", "stop"}

NoCall == [kind |-> "stop", config |-> {}]

After == [suspend |-> "suspended", resume |-> "running", start |-> "running", stop |-> "none"]

Init ==
    /\ mutex = NoOp
    /\ phase = [o \in Op |-> "idle"]
    /\ call = [o \in Op |-> NoCall]
    /\ todo = [o \in Op |-> {}]
    /\ jobs \in SUBSET ((SUBSET Place) \ {{}})
    /\ Cardinality(jobs) <= NRunning
    /\ \A c, d \in jobs : c # d => c \cap d = {}
    /\ state = [p \in Place |-> IF p \in usage THEN "running" ELSE "none"]
    /\ tasks = {} /\ net = {}
    /\ results = [m \in Machine |-> <<>>]
    /\ sleeping = [o \in Op |-> FALSE]
    /\ dead = {} /\ aborted = FALSE
    /\ before = <<jobs, state>>

-------------------------------------------------------------------------------
(* Jobs that may be frozen, and their opposing configurations, use one     *)
(* slot per machine; a job that starts uses free slots.                    *)
OnePerMachine == {c \in SUBSET Place : \A p, q \in c : p[1] = q[1] => p = q}

Configs(kind) ==
    CASE kind = "start" -> SUBSET (Place \ usage)
      [] kind = "stop"  -> jobs
      [] OTHER          -> OnePerMachine

(* The elements of both loops: all of a configuration, or the map of its   *)
(* machines, in which the slots of a machine are merged.                   *)
Loop(c) == IF c.kind \in {"start", "stop"} THEN {<<p[1], 0>> : p \in c.config} ELSE c.config

(* A vector or an unordered_map is iterated in some order, the same in     *)
(* both loops.                                                             *)
First(S) == CHOOSE p \in S : TRUE

Current(o) == First(todo[o])

Advance(o) == todo' = [todo EXCEPT ![o] = @ \ {Current(o)}]

(* suspend_resume_config looks up machine_usage in both of its loops.      *)
Skipped(o, p) == call[o].kind \in {"suspend", "resume"} /\ p \notin usage

(* Mutant of Lock: the critical section does not wait for the mutex.       *)
LockFree(o) ==
    /\ phase[o] = "idle"
    /\ \A k \in Op : k < o => phase[k] # "idle"
    /\ \E kind \in Kinds : \E config \in Configs(kind) \ {{}} :
        LET c == [kind |-> kind, config |-> config] IN
        /\ call' = [call EXCEPT ![o] = c]
        /\ todo' = [todo EXCEPT ![o] = Loop(c)]
        /\ jobs' = IF kind = "start" THEN jobs \cup {config} ELSE jobs
    /\ mutex' = o
    /\ before' = <<jobs, state>>
    /\ phase' = [phase EXCEPT ![o] = "send"]
    /\ UNCHANGED <<state, tasks, net, results, sleeping, dead, aborted>>

(* A critical section begins (they are numbered in the order they begin);  *)
(* execute() fills machine_usage before it calls create_domain().          *)
Lock(o) ==
    /\ phase[o] = "idle" /\ mutex = NoOp
    /\ \A k \in Op : k < o => phase[k] # "idle"
    /\ \E kind \in Kinds : \E config \in Configs(kind) \ {{}} :
        LET c == [kind |-> kind, config |-> config] IN
        /\ call' = [call EXCEPT ![o] = c]
        /\ todo' = [todo EXCEPT ![o] = Loop(c)]
        /\ jobs' = IF kind = "start" THEN jobs \cup {config} ELSE jobs
    /\ mutex' = o
    /\ before' = <<jobs, state>>
    /\ phase' = [phase EXCEPT ![o] = "send"]
    /\ UNCHANGED <<state, tasks, net, results, sleeping, dead, aborted>>

(* A task says what is to be done with which domains.                      *)
Task(o, p) ==
    [op |-> o, place |-> p, kind |-> call[o].kind,
     domains |-> IF call[o].kind \in {"start", "stop"}
                 THEN {q \in call[o].config : q[1] = p[1]} ELSE {p}]

(* The first loop: a task for each element, unless its slot is empty.      *)
Send(o) ==
    /\ phase[o] = "send" /\ todo[o] # {}
    /\ Advance(o)
    /\ tasks' = IF Skipped(o, Current(o)) THEN tasks ELSE tasks \cup {Task(o, Current(o))}
    /\ UNCHANGED <<mutex, phase, call, jobs, before, state, net, results, sleeping, dead, aborted>>

(* Mutant of AllSent: the results are not waited for.                      *)
AllSentNoWait(o) ==
    /\ phase[o] = "send" /\ todo[o] = {}
    /\ phase' = [phase EXCEPT ![o] = "receive"]
    /\ UNCHANGED <<mutex, call, todo, jobs, before, state, tasks, net, results, sleeping, dead,
                   aborted>>

AllSent(o) ==
    /\ phase[o] = "send" /\ todo[o] = {}
    /\ phase' = [phase EXCEPT ![o] = "receive"]
    /\ todo' = [todo EXCEPT ![o] = Loop(call[o])]
    /\ UNCHANGED <<mutex, call, jobs, before, state, tasks, net, results, sleeping, dead, aborted>>

-------------------------------------------------------------------------------
(* The second loop waits for a result on the topic of each machine.        *)
AtResult(o) ==
    /\ phase[o] = "receive" /\ todo[o] # {}
    /\ ~Skipped(o, Current(o)) /\ ~sleeping[o]

SkipResult(o) ==
    /\ phase[o] = "receive" /\ todo[o] # {}
    /\ Skipped(o, Current(o))
    /\ Advance(o)
    /\ UNCHANGED <<mutex, phase, call, jobs, before, state, tasks, net, results, sleeping, dead,
                   aborted>>

(* get_message(): sleep on an empty queue, without a time limit.           *)
WaitForMessage(o) ==
    /\ AtResult(o)
    /\ results[Current(o)[1]] = <<>>
    /\ sleeping' = [sleeping EXCEPT ![o] = TRUE]
    /\ UNCHANGED <<ctl, state, tasks, net, results, dead, aborted>>

WakeUp(o) ==
    /\ sleeping[o]
    /\ sleeping' = [sleeping EXCEPT ![o] = FALSE]
    /\ UNCHANGED <<ctl, state, tasks, net, results, dead, aborted>>

(* Results that trip an assertion: any error for a cgroup, but only one    *)
(* kind of error for a domain that is suspended.                           *)
Fatal(kind, status) ==
    IF kind \in {"start", "stop"} THEN status # "success" ELSE status = "not running"

get_message(o) ==
    LET m == Current(o)[1] IN
    /\ AtResult(o)
    /\ results[m] # <<>>
    /\ results' = [results EXCEPT ![m] = Tail(@)]
    /\ Advance(o)
    /\ aborted' = (aborted \/ Fatal(call[o].kind, Head(results[m]).status))
    /\ UNCHANGED <<mutex, phase, call, jobs, before, state, tasks, net, sleeping, dead>>

(* The critical section ends; a worker first empties its slots.            *)
Return(o) ==
    /\ phase[o] = "receive" /\ todo[o] = {}
    /\ phase' = [phase EXCEPT ![o] = "ended"]
    /\ jobs' = IF call[o].kind = "stop" THEN jobs \ {call[o].config} ELSE jobs
    /\ mutex' = NoOp
    /\ call' = [call EXCEPT ![o] = NoCall]
    /\ before' = <<jobs', state>>
    /\ UNCHANGED <<todo, state, tasks, net, results, sleeping, dead, aborted>>

-------------------------------------------------------------------------------
(* An agent carries a task out or refuses it; libvirt refuses to suspend   *)
(* what is suspended.                                                      *)
Agent(t) ==
    /\ t \in tasks /\ t.place[1] \notin dead
    /\ tasks' = tasks \ {t}
    /\ \E status \in {"success", "error", "not running"} :
        /\ status = "not running" =>
                t.kind = "suspend" /\ \A p \in t.domains : state[p] = "suspended"
        /\ state' = [p \in Place |-> IF status = "success" /\ p \in t.domains
                                     THEN After[t.kind] ELSE state[p]]
        /\ net' = net \cup {[op |-> t.op, place |-> t.place, status |-> status]}
    /\ UNCHANGED <<ctl, results, sleeping, dead, aborted>>

Crash(m) ==
    /\ m \notin dead
    /\ dead' = dead \cup {m}
    /\ UNCHANGED <<ctl, state, tasks, net, results, sleeping, aborted>>

Sleepers(m) == {o \in Op : sleeping[o] /\ Current(o)[1] = m}

(* Mutant of add_message: the consumer is woken for a second message only. *)
add_message_second(r) ==
    LET m == r.place[1] IN
    /\ r \in net
    /\ net' = net \ {r}
    /\ results' = [results EXCEPT ![m] = Append(@, r)]
    /\ IF Len(results[m]) = 1 /\ Sleepers(m) # {}
       THEN \E o \in Sleepers(m) : sleeping' = [sleeping EXCEPT ![o] = FALSE]
       ELSE UNCHANGED sleeping
    /\ UNCHANGED <<ctl, state, tasks, dead, aborted>>

(* on_message() and add_message(): one consumer is notified if the queue   *)
(* was empty.                                                              *)
add_message(r) ==
    LET m == r.place[1] IN
    /\ r \in net
    /\ net' = net \ {r}
    /\ results' = [results EXCEPT ![m] = Append(@, r)]
    /\ IF results[m] = <<>> /\ Sleepers(m) # {}
       THEN \E o \in Sleepers(m) : sleeping' = [sleeping EXCEPT ![o] = FALSE]
       ELSE UNCHANGED sleeping
    /\ UNCHANGED <<ctl, state, tasks, dead, aborted>>

-------------------------------------------------------------------------------
Thread(o) == \/ Send(o) \/ AllSent(o) \/ SkipResult(o) \/ WaitForMessage(o)
             \/ get_message(o) \/ Return(o)

Work    == \E t \in tasks : Agent(t)
Deliver == \E r \in net : add_message(r)

Next ==
    /\ ~aborted
    /\ \/ \E o \in Op : Lock(o) \/ Thread(o) \/ WakeUp(o)
       \/ Work \/ Deliver
       \/ \E m \in Machine : Crash(m)

(* The threads and the agents that have not crashed keep going.            *)
Spec ==
    /\ Init /\ [][Next]_vars
    /\ \A o \in Op : WF_vars(~aborted /\ Thread(o))
    /\ WF_vars(~aborted /\ Work) /\ WF_vars(~aborted /\ Deliver)

-------------------------------------------------------------------------------
Reply == [op : Op, place : Place, status : {"success", "error", "not running"}]

(* Every variable has its type, and a queue holds at most one result: a    *)
(* critical section sends at most one task to a machine.                   *)
TypeOK ==
    /\ mutex \in Op \cup {NoOp}
    /\ phase \in [Op -> {"idle", "send", "receive", "ended"}]
    /\ call \in [Op -> [kind : Kinds, config : SUBSET Place]]
    /\ todo \in [Op -> SUBSET Place]
    /\ jobs \subseteq SUBSET Place
    /\ state \in [Place -> {"none", "running", "suspended"}]
    /\ tasks \subseteq [op : Op, place : Place, kind : Kinds, domains : SUBSET Place]
    /\ net \subseteq Reply
    /\ results \in [Machine -> Seq(Reply)] /\ \A m \in Machine : Len(results[m]) <= 1
    /\ sleeping \in [Op -> BOOLEAN]
    /\ dead \subseteq Machine /\ aborted \in BOOLEAN

(* A critical section takes only results of its own tasks, although they   *)
(* do not say what they answer: whatever is under way belongs to the one   *)
(* that holds the mutex, and nothing is left for the next one.             *)
ResultsAreMine ==
    /\ \A t \in tasks : t.op = mutex
    /\ \A r \in net : r.op = mutex
    /\ \A m \in Machine : \A i \in DOMAIN results[m] : results[m][i].op = mutex

(* add_message() notifies only when the queue was empty; still nobody      *)
(* sleeps on a queue that has a message.                                   *)
NoSleepOnMessage == \A o \in Op : sleeping[o] => results[Current(o)[1]] = <<>>

(* A critical section ends, unless an agent it needs has crashed: then it  *)
(* keeps the mutex for ever.                                               *)
OperationsReturn ==
    \A o \in Op : (mutex = o) ~>
        (mutex # o \/ aborted \/ \E p \in call[o].config : p[1] \in dead)

(* Domains and tables as the other threads see them: while the mutex is    *)
(* held, as they were when it was taken.                                   *)
Atomic == INSTANCE AtomicRequests WITH
    jobs  <- IF mutex = NoOp THEN jobs ELSE before[1],
    state <- IF mutex = NoOp THEN state ELSE before[2]

(* To the other threads every operation on the domains is one step, in     *)
(* which a job's domains are created and deleted together with its slots.  *)
ImplementsAtomicRequests == Atomic!Spec
===============================================================================
