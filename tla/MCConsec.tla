------------------------------- MODULE MCConsec -------------------------------
(* Model values for Consec: three nodes of two slots with two CPUs each.   *)
(* The jobs need one node (3 or 4 CPUs), two nodes (5) or the whole        *)
(* cluster (12); one is larger than the cluster (13), and one has          *)
(* processes of three threads, which do not fit into a slot of two CPUs.   *)
EXTENDS Consec

Serial(n) == [nprocs |-> n, threads_per_proc |-> 1]

MCJobs == {Serial(3), Serial(5), Serial(12), Serial(13),
           [nprocs |-> 2, threads_per_proc |-> 2],
           [nprocs |-> 1, threads_per_proc |-> 3]}
===============================================================================
