------------------------- MODULE MigratingAllocation --------------------------
(***************************************************************************)
(* What poncos promises when running jobs may be migrated: the allocation  *)
(* of SlotAllocation, except that the newest job that was placed may       *)
(* exchange places.  It gives up as many places as it takes; whoever held  *)
(* a place it takes gets one it gave up instead.                           *)
(***************************************************************************)
EXTENDS SlotAllocation

Newest(j) == /\ phase[j] # "queued"
             /\ \A k \in Job : k > j => phase[k] = "queued"

Exchange(j) ==
    /\ Newest(j) /\ phase[j] = "placed"
    /\ \A k \in Job : Cardinality(holds'[k]) = Cardinality(holds[k])
    /\ \A k, l \in Job : k # l => holds'[k] \cap holds'[l] = {}
    /\ \A k \in Job \ {j} : /\ holds[k] \ holds'[k] \subseteq holds'[j] \ holds[j]
                            /\ holds'[k] \ holds[k] \subseteq holds[j] \ holds'[j]
    /\ UNCHANGED <<request, phase>>

MoveNext == Next \/ \E j \in Job : Exchange(j)

MoveSpec == Init /\ [][MoveNext]_vars
===============================================================================
