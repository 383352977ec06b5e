---------------------------- MODULE AtomicRequests ----------------------------
(***************************************************************************)
(* What an exchange of tasks and results with the agents promises to the   *)
(* controller: seen between two critical sections, every operation on      *)
(* domains happens at once.  Controller is written on this promise.        *)
(***************************************************************************)
EXTENDS FiniteSets

CONSTANT Place      \* the slots of all machines

VARIABLES
    jobs,   \* the configurations of the jobs that hold slots
    state   \* the domain in each slot: "none", "running" or "suspended"

vars == <<jobs, state>>

With(S, s) == [p \in Place |-> IF p \in S THEN s ELSE state[p]]

Init ==
    /\ jobs \subseteq SUBSET Place
    /\ \A c, d \in jobs : c # d => c \cap d = {}
    /\ state = [p \in Place |-> IF p \in UNION jobs THEN "running" ELSE "none"]

(* An agent may refuse: only a part of the domains follows.                *)
Suspend == \E S \in SUBSET UNION jobs : state' = With(S, "suspended") /\ UNCHANGED jobs

Resume == \E S \in SUBSET UNION jobs : state' = With(S, "running") /\ UNCHANGED jobs

(* A job gets all of its domains, and loses all of them.                   *)
Start ==
    \E c \in (SUBSET (Place \ UNION jobs)) \ {{}} :
        jobs' = jobs \cup {c} /\ state' = With(c, "running")

Stop == \E c \in jobs : jobs' = jobs \ {c} /\ state' = With(c, "none")

Spec == Init /\ [][Suspend \/ Resume \/ Start \/ Stop]_vars
===============================================================================
