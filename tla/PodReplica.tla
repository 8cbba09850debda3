----------------------------- MODULE PodReplica -----------------------------
(***************************************************************************)
(* What a watched pods table promises: for each pod it shows a version     *)
(* that the pod has had, and it never goes back to an older one.  A pod    *)
(* that is not shown yet is at version 0, a deleted one at Gone; the table *)
(* may skip versions and may lag behind for ever.  It begins empty, what-  *)
(* ever the cluster has by then.                                           *)
(***************************************************************************)
EXTENDS Naturals

CONSTANTS
  Pods,
  Gone       \* the last version, a natural number above 1

VARIABLES
  version,   \* version[p]: what the cluster has of pod p
  shown      \* shown[p]: what the table has of pod p

Versions == 0 .. Gone

TypeOK == version \in [Pods -> Versions] /\ shown \in [Pods -> Versions]

Init ==
  /\ version \in [Pods -> Versions]
  /\ shown = [p \in Pods |-> 0]

Change(p) ==
  /\ \E v \in Versions : v > version[p] /\ version' = [version EXCEPT ![p] = v]
  /\ UNCHANGED shown

Show(p) ==
  /\ \E v \in Versions :
       v > shown[p] /\ v <= version[p] /\ shown' = [shown EXCEPT ![p] = v]
  /\ UNCHANGED version

Next == \E p \in Pods : Change(p) \/ Show(p)

Spec == Init /\ [][Next]_<< version, shown >>
=============================================================================
