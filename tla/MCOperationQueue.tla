-------------------------- MODULE MCOperationQueue --------------------------
(***************************************************************************)
(* For TLC: three operations on one physical target, requested through two *)
(* server rows (the duplicates an upgrade keeps); and, to check liveness,  *)
(* two of them with more failures.                                         *)
(***************************************************************************)
EXTENDS OperationQueue, TLC

CONSTANTS o1, o2, o3, caddy, main, legacy

MCOps == {o1, o2, o3}
MCOutcomes == {"succeeded", "failed"}
MCKeys == {caddy}
MCServers == {main, legacy}
MCLockKey == [o \in MCOps |-> caddy]
MCServerOf == o1 :> main @@ o2 :> legacy @@ o3 :> main

LiveOps == {o1, o2}
LiveLockKey == [o \in LiveOps |-> caddy]
LiveServerOf == o1 :> main @@ o2 :> legacy

\* o1 and o3 belong to the same row and target.
MCSymmetry == Permutations({o1, o3})
=============================================================================
