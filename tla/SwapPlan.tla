------------------------------- MODULE SwapPlan -------------------------------
(***************************************************************************)
(* The algorithms of multi_app_sched (src/scheduler_multi_app.cpp) that    *)
(* find out which machines are overloaded and which slots a job exchanges  *)
(* with other machines, and the exchange itself as controllerT and         *)
(* vm_controller record it in their tables.                                *)
(*                                                                         *)
(* Bandwidth is counted in tenths of what a machine delivers.  The slots a *)
(* job is to move to are a function from its present slots to new ones: a  *)
(* scheduler only ever moves the newest job, whose configuration still has *)
(* one slot per machine in the order of the machines.                      *)
(***************************************************************************)
EXTENDS Controller, SequencesExt

VARIABLE membw_util     \* bandwidth used in each slot, as measured

PER_MACHINE_TH == 9

(* The slot table with two entries exchanged, and where an entry goes.     *)
Transpose(a, b, e) == IF e = a THEN b ELSE IF e = b THEN a ELSE e

SwapAt(f, a, b) == [e \in DOMAIN f |-> f[Transpose(a, b, e)]]

(* The loops over an old and a new configuration visit the pairs in the    *)
(* order of the vectors, that is, of the machines: round n is that of the  *)
(* element on machine n - 1, or idle if there is none.                     *)
Idle(move, n) == \A e \in DOMAIN move : e[1] # n - 1

ElementOf(move, n) == CHOOSE e \in DOMAIN move : e[1] = n - 1

(* A table after each round of std::swap on the slots of the pairs.        *)
SwapPairs(f, move) ==
    LET t[n \in 0 .. NMachines] ==
            IF n = 0 THEN f
            ELSE IF Idle(move, n) THEN t[n - 1]
            ELSE SwapAt(t[n - 1], ElementOf(move, n), move[ElementOf(move, n)])
    IN t

-------------------------------------------------------------------------------
membw_util_of_node(util, m) == util[<<m, 0>>] + util[<<m, 1>>]

(* Mutant of check_membw: the last machine of a configuration is skipped.  *)
check_membw_skips(config) ==
    {m \in {e[1] : e \in config} :
        /\ \E e \in config : e[1] > m
        /\ membw_util_of_node(membw_util, m) > PER_MACHINE_TH}

check_membw(config) ==
    {m \in {e[1] : e \in config} : membw_util_of_node(membw_util, m) > PER_MACHINE_TH}

(* std::sort leaves the order of equally loaded machines open.             *)
sort_machines_by_membw_util(machines, reverse) ==
    LET util(m) == membw_util_of_node(membw_util, m) IN
    {s \in SetToSeqs(machines) :
        \A i, j \in DOMAIN s :
            i < j => IF reverse THEN util(s[i]) >= util(s[j]) ELSE util(s[i]) <= util(s[j])}

(* As many machines as are marked, least loaded first, or none if all of   *)
(* them together use too much.                                             *)
find_swap_candidates(marked) ==
    LET n        == Cardinality(marked)
        util(m)  == membw_util_of_node(membw_util, m)
        total(s) == MapThenSumSet(util, marked) + MapThenSumSet(util, {s[i] : i \in 1 .. n})
    IN {IF total(s) < PER_MACHINE_TH * n * 2 THEN SubSeq(s, 1, n) ELSE <<>> :
            s \in sort_machines_by_membw_util(Machine, FALSE)}

(* std::max_element and std::min_element over the slots of a machine: the  *)
(* first one wins.                                                         *)
MaxSlot(m) == IF membw_util[<<m, 0>>] < membw_util[<<m, 1>>] THEN 1 ELSE 0
MinSlot(m) == IF membw_util[<<m, 1>>] < membw_util[<<m, 0>>] THEN 1 ELSE 0

SwapSlot(e, m) ==
    <<m, IF membw_util[e] < membw_util[Opposing(e)] THEN MaxSlot(m) ELSE MinSlot(m)>>

(* The most loaded marked machine is paired with the least loaded          *)
(* candidate, and so on; other elements stay where they are.               *)
generate_new_config(old_config, marked, candidates) ==
    {[e \in old_config |->
        IF e[1] \in marked
        THEN SwapSlot(e, candidates[CHOOSE i \in DOMAIN s : s[i] = e[1]])
        ELSE e] : s \in sort_machines_by_membw_util(marked, TRUE)}

(* Both machines of a pair stay below the threshold.                       *)
PairAsserts(e, n) ==
    /\ membw_util[Opposing(e)] + membw_util[n] < PER_MACHINE_TH
    /\ membw_util[Opposing(n)] + membw_util[e] < PER_MACHINE_TH

(* Mutant of update_membw_util: the values stay where they are.            *)
update_membw_util_keeps(move) == [util |-> membw_util, ok |-> TRUE]

(* The new table, and whether the assertions after every pair hold.        *)
update_membw_util(move) ==
    LET t == SwapPairs(membw_util, move) IN
    [util |-> t[NMachines],
     ok   |-> \A e \in DOMAIN move :
                /\ membw_util_of_node(t[e[1] + 1], e[1]) < PER_MACHINE_TH
                /\ membw_util_of_node(t[e[1] + 1], move[e][1]) < PER_MACHINE_TH]

-------------------------------------------------------------------------------
(* Mutant of UpdatePair: the configuration of the other job is forgotten.  *)
UpdatePairOnlyMine(t, id, move, e) ==
    LET oc == t.mine[e]
        nc == move[e]
    IN [usage   |-> SwapAt(t.usage, oc, nc),
        configs |-> [t.configs EXCEPT ![id] = {Transpose(oc, nc, c) : c \in @}],
        mine    |-> [k \in DOMAIN t.mine |-> Transpose(oc, nc, t.mine[k])],
        ok      |-> t.ok]

(* One iteration of the loop of controllerT::update_config: job id gives   *)
(* up the slot it holds in place of e and takes move[e]; a job in that     *)
(* slot moves the other way.  mine says what became of each element of the *)
(* job's configuration.                                                    *)
UpdatePair(t, id, move, e) ==
    LET oc        == t.mine[e]
        nc        == move[e]
        op_job_id == t.usage[nc]
    IN [usage   |-> SwapAt(t.usage, oc, nc),
        configs |-> [j \in JobId |-> IF j \in {id, op_job_id}
                                     THEN {Transpose(oc, nc, c) : c \in t.configs[j]}
                                     ELSE t.configs[j]],
        mine    |-> [k \in DOMAIN t.mine |-> Transpose(oc, nc, t.mine[k])],
        ok      |-> t.ok /\ (op_job_id # Empty => nc \in t.configs[op_job_id])]

update_config(id, move) ==
    LET t[n \in 0 .. NMachines] ==
            IF n = 0 THEN [usage |-> machine_usage, configs |-> id_to_config,
                           mine |-> [e \in DOMAIN move |-> e], ok |-> TRUE]
            ELSE IF Idle(move, n) THEN t[n - 1]
            ELSE UpdatePair(t[n - 1], id, move, ElementOf(move, n))
    IN t[NMachines]

(* assert(success) and assert(old_config == new_config)                    *)
UpdateAsserts(t, move) == t.ok /\ t.mine = move

(* The pairs vm_controller::update_config asks the agents to exchange.     *)
Migrations(move) == {e \in DOMAIN move : e[1] # move[e][1]}

(* assert(src_slot == dest_slot) for a pair on one host: such a pair is    *)
(* skipped, and exchanging it below is the identity.                       *)
MigrateAsserts(move) == \A e \in DOMAIN move \ Migrations(move) : e = move[e]

(* The job in the destination slot is looked up for every exchange, also   *)
(* if the slot is empty.                                                   *)
LooksUpNobody(move) == \E e \in Migrations(move) : machine_usage[move[e]] = Empty

(* Mutant of SwapVMs: the VMs are exchanged, but not recorded.             *)
SwapVMsUnrecorded(move) == vm_locations

SwapVMs(move) == SwapPairs(vm_locations, move)[NMachines]
===============================================================================
