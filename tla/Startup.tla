------------------------------- MODULE Startup --------------------------------
(***************************************************************************)
(* main() (src/poncos.cpp) around the scheduler: the command line, the     *)
(* machine file, the subscriptions, and the virtual machines that          *)
(* vm_controller takes from its pool, starts before and stops after the    *)
(* scheduler runs.  The scheduler itself is one step here; Consec, TwoApp  *)
(* and MultiApp say what it does.                                          *)
(***************************************************************************)
EXTENDS Integers, Sequences, FiniteSets

CONSTANTS
    MaxArgs,        \* bound on the number of arguments
    Tokens,         \* the arguments that are tried
    PoolSize,       \* length of glob_vm_pool (80 in the source)
    MachineFiles    \* contents of the machine file that are tried

ASSUME PoolSizeAssumption == PoolSize \in Nat
ASSUME MachineFilesAssumption ==
    \A f \in MachineFiles : /\ f.lines \in Seq({"host", "comment", "blank"})
                            /\ f.ends_with_newline \in BOOLEAN

(* What the arguments stand for; any other argument is ignored.            *)
Valued   == {"--server", "--port", "--queue", "--machine", "--system-config",
             "--slot-path", "--wait"}
Switches == {"--vm", "--multi-sched", "--multi-sched-consec"}
Numeric  == {"--port", "--wait"}
Number   == "20"        \* the one token std::stoul accepts

VARIABLES
    pc,             \* where main() is
    argi,           \* arguments consumed so far
    opts,           \* the option variables: "" or "given"
    file,           \* the machine file
    machines,       \* the machines read from it
    topics,         \* subscribed topics
    pool,           \* glob_vm_pool
    running,        \* VMs that run, with the machine they run on
    vm_locations    \* the VMs given to each machine, in the order of the slots

vars == <<pc, argi, opts, file, machines, topics, pool, running, vm_locations>>

glob_vm_pool == [i \in 1 .. PoolSize |-> i]
NoVM == 0               \* what front() of an empty list may look like

Index == 1 .. Len(machines)     \* the machines, in the order of the file

(* VMs of an earlier run may still be there.                               *)
Init ==
    /\ pc = "options"
    /\ argi = 0
    /\ opts = [o \in Valued \cup Switches |-> IF o \in Numeric THEN "given" ELSE ""]
    /\ file \in MachineFiles
    /\ machines = <<>>
    /\ topics = {}
    /\ pool = glob_vm_pool
    /\ running \in {{}, {<<1, 1>>}}
    /\ vm_locations = <<>>

-------------------------------------------------------------------------------
(* parse_options(): one turn of its loop.  The arguments are chosen as     *)
(* they are read.                                                          *)
ParseSwitch ==
    /\ pc = "options" /\ argi < MaxArgs
    /\ \E arg \in Tokens \ Valued :
        opts' = IF arg \in Switches THEN [opts EXCEPT ![arg] = "given"] ELSE opts
    /\ argi' = argi + 1
    /\ UNCHANGED <<pc, file, machines, topics, pool, running, vm_locations>>

(* An option with a value; std::stoul throws if it needs a number.         *)
ParseValue ==
    /\ pc = "options" /\ argi + 1 < MaxArgs
    /\ \E arg \in Tokens \cap Valued, val \in Tokens :
        IF arg \in Numeric /\ val # Number
        THEN pc' = "abort_stoul" /\ UNCHANGED opts
        ELSE opts' = [opts EXCEPT ![arg] = IF val = "" THEN "" ELSE "given"] /\ pc' = pc
    /\ argi' = argi + 2
    /\ UNCHANGED <<file, machines, topics, pool, running, vm_locations>>

(* An option that lacks its value is the last argument.                    *)
ParseLast ==
    /\ pc = "options" /\ argi < MaxArgs
    /\ Tokens \cap Valued # {}
    /\ argi' = argi + 1
    /\ pc' = "help"
    /\ UNCHANGED <<opts, file, machines, topics, pool, running, vm_locations>>

(* The checks after the loop.                                              *)
OptionsOK ==
    /\ ~(opts["--multi-sched-consec"] = "given" /\ opts["--multi-sched"] = "given")
    /\ \A o \in {"--queue", "--machine", "--system-config"} : opts[o] # ""
    /\ opts["--vm"] = "given" => opts["--slot-path"] # ""

EndOptions ==
    /\ pc = "options"
    /\ pc' = IF argi > 0 /\ OptionsOK THEN "load" ELSE "help"
    /\ UNCHANGED <<argi, opts, file, machines, topics, pool, running, vm_locations>>

use_vms == opts["--vm"] = "given"

ChooseScheduler ==
    IF opts["--multi-sched-consec"] = "given" THEN "multi_app_sched_consec"
    ELSE IF opts["--multi-sched"] = "given" THEN "multi_app_sched"
    ELSE "two_app_sched"

-------------------------------------------------------------------------------
(* Mutant of Hosts: comments are kept.                                     *)
HostsAndComments == file.lines

(* The lines read_file keeps: a blank line is a machine without a name.    *)
Hosts ==
    LET kept[i \in 0 .. Len(file.lines)] ==
            IF i = 0 THEN <<>>
            ELSE IF file.lines[i] = "comment" THEN kept[i - 1]
            ELSE Append(kept[i - 1], file.lines[i])
    IN kept[Len(file.lines)]

(* getline() on a last line without newline sets eofbit, and the assertion *)
(* on file.good() in the loop fails.                                       *)
ReadAsserts == file.ends_with_newline \/ file.lines = <<>>

(* The job queue, the connection to the broker and the slot configuration: *)
(* a missing or malformed file or an unreachable broker throws.            *)
load ==
    /\ pc = "load"
    /\ pc' \in {"controller", "abort_load"}
    /\ UNCHANGED <<argi, opts, file, machines, topics, pool, running, vm_locations>>

(* The controller reads the machine file and subscribes to the topics of   *)
(* the agents.                                                             *)
new_controller ==
    /\ pc = "controller"
    /\ IF ReadAsserts
       THEN /\ machines' = Hosts
            /\ topics' = {<<kind, i>> : kind \in {"task", "result"}, i \in 1 .. Len(Hosts)}
            /\ pc' = IF use_vms THEN "stop" ELSE "subscribe"
       ELSE pc' = "abort_file" /\ UNCHANGED <<machines, topics>>
    /\ UNCHANGED <<argi, opts, file, pool, running, vm_locations>>

(* get_message() waits without a time limit, and nobody answers for a line *)
(* that is not the name of a machine.                                      *)
AllAnswer == \A i \in Index : machines[i] = "host"

(* stop_all_VMs(): every agent stops all VMs of its machine, whatever      *)
(* their names, and answers; a failure trips the assertion.                *)
stop_all_VMs(from, to) ==
    /\ pc = from /\ AllAnswer
    /\ \E ok \in [Index -> BOOLEAN] :
        /\ running' = {r \in running : r[1] \in Index => ~ok[r[1]]}
        /\ pc' = IF \A i \in Index : ok[i] THEN to ELSE "abort_agent"
    /\ UNCHANGED <<argi, opts, file, machines, topics, pool, vm_locations>>

(* Mutant of TakeVM: the VM is not removed from the pool.                  *)
TakeVMKeep(p) == [vm |-> Head(p), rest |-> p]

(* front() and pop_front() of the pool.  On an empty list the process dies *)
(* or finds something that looks like an element.                          *)
TakeVM(p) == IF p = <<>> THEN [vm |-> NoVM, rest |-> p] ELSE [vm |-> Head(p), rest |-> Tail(p)]

(* start_all_VMs(): the tasks for the next machine, one VM per slot.       *)
start_on ==
    /\ pc = "start" /\ Len(vm_locations) < Len(machines)
    /\ LET first  == TakeVM(pool)
           second == TakeVM(first.rest)
           m      == Len(vm_locations) + 1
       IN \/ /\ pool' = second.rest
             /\ vm_locations' = Append(vm_locations, <<first.vm, second.vm>>)
             /\ running' = running \cup {<<m, first.vm>>, <<m, second.vm>>}
             /\ pc' = pc
          \/ /\ Len(pool) < 2
             /\ pc' = "abort_pool"
             /\ UNCHANGED <<pool, vm_locations, running>>
    /\ UNCHANGED <<argi, opts, file, machines, topics>>

(* The replies of all machines.                                            *)
started ==
    /\ pc = "start" /\ Len(vm_locations) = Len(machines)
    /\ pc' \in {"subscribe", "abort_agent"}
    /\ UNCHANGED <<argi, opts, file, machines, topics, pool, running, vm_locations>>

(* Mutant of subscribe: main() does not subscribe to mmbwmon.              *)
subscribe_nothing ==
    /\ pc = "subscribe"
    /\ pc' = ChooseScheduler
    /\ UNCHANGED <<argi, opts, file, machines, topics, pool, running, vm_locations>>

(* main() subscribes to the replies of mmbwmon.                            *)
subscribe ==
    /\ pc = "subscribe"
    /\ topics' = topics \cup {<<"response", i>> : i \in Index}
    /\ pc' = ChooseScheduler
    /\ UNCHANGED <<argi, opts, file, machines, pool, running, vm_locations>>

Schedulers == {"two_app_sched", "multi_app_sched", "multi_app_sched_consec"}

(* Mutant of schedule: main() returns without dismantle().                 *)
schedule_and_exit ==
    /\ pc \in Schedulers
    /\ pc' = "exit"
    /\ UNCHANGED <<argi, opts, file, machines, topics, pool, running, vm_locations>>

schedule ==
    /\ pc \in Schedulers
    /\ pc' = IF use_vms THEN "dismantle" ELSE "exit"
    /\ UNCHANGED <<argi, opts, file, machines, topics, pool, running, vm_locations>>

Ended == {"help", "exit", "abort_stoul", "abort_load", "abort_file",
          "abort_agent", "abort_pool"}

Next ==
    \/ ParseSwitch \/ ParseValue \/ ParseLast \/ EndOptions
    \/ load \/ new_controller
    \/ stop_all_VMs("stop", "start") \/ start_on \/ started
    \/ subscribe \/ schedule
    \/ stop_all_VMs("dismantle", "exit")
    \/ pc \in Ended /\ UNCHANGED vars

Spec == Init /\ [][Next]_vars /\ WF_vars(Next)

-------------------------------------------------------------------------------
(* When the scheduler starts, the VMs that run on the machines of the file *)
(* are exactly those in vm_locations, each in one slot only: nothing of an *)
(* earlier run is left and no VM is started twice.  This needs a pool of   *)
(* two VMs per machine, and such a pool is never found empty.              *)
VMsMatchSlots ==
    2 * Len(machines) <= PoolSize =>
        /\ pc # "abort_pool"
        /\ pc \in Schedulers /\ use_vms =>
            /\ {r \in running : r[1] \in Index} =
                    {<<e[1], vm_locations[e[1]][e[2]]>> : e \in Index \X (1 .. 2)}
            /\ Cardinality({vm_locations[e[1]][e[2]] : e \in Index \X (1 .. 2)}) = 2 * Len(machines)

(* get_message() throws for a topic without subscription: all topics the   *)
(* controller and run_distgen wait on are subscribed before they are used. *)
TopicsSubscribed ==
    /\ pc \notin {"options", "load", "controller", "help",
                  "abort_stoul", "abort_load", "abort_file"} =>
            {<<"result", i>> : i \in Index} \subseteq topics
    /\ pc \in Schedulers => {<<"response", i>> : i \in Index} \subseteq topics

(* A run that starts VMs and is not cut short leaves none of them behind.  *)
NoVMsLeft ==
    (pc \in Schedulers /\ use_vms) ~>
        (pc = "abort_agent" \/ {r \in running : r[1] \in Index} = {})

(* Whatever the arguments and the file, the program gets to its end; only  *)
(* a blank line in the machine file makes it wait for nobody.              *)
StartupEnds == <>(pc \in Ended \/ \E i \in DOMAIN file.lines : file.lines[i] = "blank")
===============================================================================
