----------------------------- MODULE TargetLock -----------------------------
(***************************************************************************)
(* What the operation queue promises to the rest of the manager: a lock    *)
(* per physical Caddy target, granted to one operation at a time and in    *)
(* the order in which the operations asked for it.  OperationQueue, which  *)
(* models the chain of promises of OperationService, implements it.        *)
(***************************************************************************)
EXTENDS Naturals

CONSTANTS Ops,      \* the operations that may ever ask for a lock
          Keys,     \* the physical targets, one lock each
          LockKey   \* LockKey[o] is the target operation o works on

VARIABLES phase,    \* where each operation stands with the lock it wants
          arrival,  \* the turn an operation drew when it joined
          clock     \* the next turn to be drawn

lockVars == <<phase, arrival, clock>>

Rivals(o) == {p \in Ops \ {o} : LockKey[p] = LockKey[o]}

LockInit ==
    /\ phase = [o \in Ops |-> "idle"]
    /\ arrival = [o \in Ops |-> 0]
    /\ clock = 0

Join(o) ==
    /\ phase[o] = "idle"
    /\ phase' = [phase EXCEPT ![o] = "waiting"]
    /\ arrival' = [arrival EXCEPT ![o] = clock]
    /\ clock' = clock + 1

\* The lock is free, and nobody who came earlier still waits for it.
Grant(o) ==
    /\ phase[o] = "waiting"
    /\ \A p \in Rivals(o) :
          /\ phase[p] # "holding"
          /\ phase[p] = "waiting" => arrival[o] < arrival[p]
    /\ phase' = [phase EXCEPT ![o] = "holding"]
    /\ UNCHANGED <<arrival, clock>>

Leave(o) ==
    /\ phase[o] = "holding"
    /\ phase' = [phase EXCEPT ![o] = "left"]
    /\ UNCHANGED <<arrival, clock>>

\* A crash of the process takes every lock, and every wait, with it.  The
\* operations in gone were on their way to the queue and never reach it.
Reset ==
    /\ \E gone \in SUBSET Ops :
          phase' = [o \in Ops |-> IF phase[o] # "idle" \/ o \in gone
                                  THEN "left" ELSE "idle"]
    /\ UNCHANGED <<arrival, clock>>

LockNext == (\E o \in Ops : Join(o) \/ Grant(o) \/ Leave(o)) \/ Reset

LockSpec == LockInit /\ [][LockNext]_lockVars
=============================================================================
