----------------------------- MODULE MCScheduler -----------------------------
(* Instances of Scheduler: two objects with digests of their own, or with   *)
(* one digest (a manifest may list a blob twice).                           *)
EXTENDS Scheduler, TLC

CONSTANTS o1, o2, o3, d1, d2

Distinct == (o1 :> d1) @@ (o2 :> d2)
Single == o1 :> d1
Repeated == [o \in Obj |-> d1]
==============================================================================
