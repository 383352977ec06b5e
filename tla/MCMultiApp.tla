------------------------------ MODULE MCMultiApp ------------------------------
(* Model values for MultiApp.  A job uses what distgen leaves: replies of  *)
(* 0.4, 0.7 and 0.8 mean loads of 0.6, 0.3 and 0.2, so that two jobs are   *)
(* above the threshold of 0.9, below it, or exactly at it.  With MCHeavy   *)
(* (loads 1.0, 0.6 and 0.1) one job alone may be above it; with MCApart    *)
(* (0.6, 0.4 and 0.1) nothing is at it.                                    *)
EXTENDS MultiApp

Serial(n) == [nprocs |-> n, threads_per_proc |-> 1]

(* With slots of one CPU: jobs that fit, and one that asks for too much.   *)
MCFit    == {Serial(1), Serial(2)}
MCJobs   == MCFit \cup {Serial(4)}

(* With two machines and slots of two CPUs: a job on both machines, half a *)
(* slot too little, too much, and a process that does not fit into a slot. *)
MCShapes == {Serial(4), Serial(3), Serial(6), [nprocs |-> 1, threads_per_proc |-> 4]}

MCLoads  == {4, 7, 8}
MCHeavy  == {0, 4, 9}
MCApart  == {4, 6, 9}
MCCoarse == {2, 6}
===============================================================================
