------------------------------- MODULE MCTwoApp -------------------------------
(* Model values for TwoApp: two machines with slots of two CPUs, so jobs   *)
(* ask for 4 CPUs; one kind of job asks for 3, one has a process of four   *)
(* threads.  distgen answers that a job leaves 0.3 or 0.6 of the           *)
(* bandwidth: two light jobs may share the machines, any other pair may    *)
(* not.                                                                    *)
EXTENDS TwoApp

Serial(n) == [nprocs |-> n, threads_per_proc |-> 1]

MCFit     == {Serial(4)}
MCJobs    == {Serial(4), Serial(3), [nprocs |-> 1, threads_per_proc |-> 4]}
MCDistgen == {3, 6}
===============================================================================
