---------------------------- MODULE SlotAllocation ----------------------------
(***************************************************************************)
(* What poncos promises the jobs of its queue, whatever the scheduler: a   *)
(* job waits in the queue, is given places nobody else holds in one step,  *)
(* enough of them for the CPUs it asked for, keeps exactly these places    *)
(* until it has ended, and gives them all back in one step.  Jobs are      *)
(* placed in queue order.                                                  *)
(***************************************************************************)
EXTENDS Integers, FiniteSets

CONSTANTS
    Places,     \* what is allocated: slots of machines
    NJobs,      \* number of jobs in the queue
    SlotSize,   \* CPUs of a place
    Requests    \* the numbers of CPUs a job can ask for

Job == 0 .. NJobs - 1

VARIABLES
    request,    \* CPUs every job asks for, fixed from the start
    phase,      \* "queued", "placed" or "ended", per job
    holds       \* the places a job holds

vars == <<request, phase, holds>>

Taken == UNION {holds[j] : j \in Job}

Init ==
    /\ request \in [Job -> Requests]
    /\ phase = [j \in Job |-> "queued"]
    /\ holds = [j \in Job |-> {}]

Place(j, S) ==
    /\ phase[j] = "queued"
    /\ \A k \in Job : k < j => phase[k] # "queued"
    /\ S \cap Taken = {}
    /\ Cardinality(S) * SlotSize >= request[j]
    /\ phase' = [phase EXCEPT ![j] = "placed"]
    /\ holds' = [holds EXCEPT ![j] = S]
    /\ UNCHANGED request

Release(j) ==
    /\ phase[j] = "placed"
    /\ phase' = [phase EXCEPT ![j] = "ended"]
    /\ holds' = [holds EXCEPT ![j] = {}]
    /\ UNCHANGED request

Next == \E j \in Job : Release(j) \/ \E S \in SUBSET Places : Place(j, S)

Spec == Init /\ [][Next]_vars
===============================================================================
