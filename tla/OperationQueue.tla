--------------------------- MODULE OperationQueue ---------------------------
(***************************************************************************)
(* The per-target operation queue of the API: OperationService.enqueue and *)
(* run, the rows they keep in SQLite, the recovery at start-up             *)
(* (DatabaseBootstrapService) and the removal of a server, which deletes   *)
(* its operations' rows by cascade.                                        *)
(*                                                                         *)
(* The queue lives in memory as one promise chain per lock key: `tails`    *)
(* holds the newest promise of a key, and a new operation is chained after *)
(* it.  Every `await` of the code ends an action, so that a crash, another *)
(* request or another operation can come in between.                       *)
(***************************************************************************)
EXTENDS Naturals

CONSTANTS Ops,         \* the operations users may request, each at most once
          Keys,        \* lock keys: targetIdentity of the servers
          Servers,     \* rows of caddy_servers
          LockKey,     \* LockKey[o]: the key read with o's server
          ServerOf,    \* ServerOf[o]: the row that o belongs to
          NoOp,        \* no promise in tails, or no predecessor
          Outcomes,    \* the statuses a runner may end with
          MaxFaults,   \* bound: saves that fail (full disk, busy database)
          MaxCrashes   \* bound: crashes other than those the code causes

Active == {"queued", "running"}

ASSUME QueueConstants ==
    /\ LockKey \in [Ops -> Keys]
    /\ ServerOf \in [Ops -> Servers]
    /\ NoOp \notin Ops
    /\ Outcomes \cap (Active \cup {"interrupted", "absent", "deleted"}) = {}
    /\ MaxFaults \in Nat
    /\ MaxCrashes \in Nat

VARIABLES
    proc,      \* the API process: "up" or "down"
    doomed,    \* a promise was rejected unhandled: Node will end the process
    link,      \* how far each operation has come (see Links)
    prev,      \* the promise an operation was chained after
    tails,     \* newest promise of each key, or NoOp
    status,    \* the status field of the operation's entity, in memory
    row,       \* the status column of its row, in the database
    servers,   \* server rows that exist
    removing,  \* removals that have passed the check for active operations
    faults,    \* failed saves so far
    crashes,   \* crashes so far
    arrival,   \* history: the turn an operation drew when it was chained
    clock      \* history: the next turn

vars == <<proc, doomed, link, prev, tails, status, row, servers, removing,
          faults, crashes, arrival, clock>>

Terminal == Outcomes \cup {"interrupted"}
Statuses == Active \cup Terminal

(* "absent": no row yet.  "deleted": the row went with its server.         *)
RowStates == Statuses \cup {"absent", "deleted"}

(***************************************************************************)
(* none       not requested                                                *)
(* requested  the handler runs; the first save is not done                 *)
(* refused    the first save failed: the caller gets the error             *)
(* saved      the row exists; the promise is not chained yet               *)
(* waiting    chained, the predecessor has not settled                     *)
(* starting   run() has begun; its first save is not done                  *)
(* running    the runner works on the host                                 *)
(* finishing  the runner has ended; the last save is not done              *)
(* settled    the promise has settled; its finally callback has not run    *)
(* done       forgotten                                                    *)
(* lost       the process died                                             *)
(***************************************************************************)
Holding == {"starting", "running", "finishing"}
Links   == Holding \cup {"none", "requested", "refused", "saved", "waiting",
                         "settled", "done", "lost"}

Siblings(o) == {p \in Ops \ {o} : LockKey[p] = LockKey[o]}

Init ==
    /\ proc = "up"
    /\ doomed = FALSE
    /\ link = [o \in Ops |-> "none"]
    /\ prev = [o \in Ops |-> NoOp]
    /\ tails = [k \in Keys |-> NoOp]
    /\ status = [o \in Ops |-> "queued"]
    /\ row = [o \in Ops |-> "absent"]
    /\ servers = Servers
    /\ removing = {}
    /\ faults = 0
    /\ crashes = 0
    /\ arrival = [o \in Ops |-> 0]
    /\ clock = 0

\* An operation moves on in the process that is up.
Move(o, from, to) ==
    /\ proc = "up"
    /\ link[o] = from
    /\ link' = [link EXCEPT ![o] = to]

\* repository.save writes the entity as it is now: an update, or an insert
\* when the row is gone.  The foreign key to the server must hold.
Save(o) ==
    /\ ServerOf[o] \in servers
    /\ row' = [row EXCEPT ![o] = status[o]]
    /\ UNCHANGED faults

SaveFails(o) ==
    /\ \/ ServerOf[o] \notin servers /\ UNCHANGED faults
       \/ faults < MaxFaults /\ faults' = faults + 1
    /\ UNCHANGED row

memory  == <<prev, tails, arrival, clock>>
others  == <<proc, servers, removing, crashes>>

-----------------------------------------------------------------------------
(* enqueue *)

\* A handler has read the server (requireEntity) and is on its way to enqueue.
Request(o) ==
    /\ Move(o, "none", "requested")
    /\ ServerOf[o] \in servers
    /\ UNCHANGED <<memory, others, doomed, status, row, faults>>

EnqueueSaved(o) ==
    /\ Move(o, "requested", "saved")
    /\ Save(o)
    /\ UNCHANGED <<memory, others, doomed, status>>

EnqueueRefused(o) ==
    /\ Move(o, "requested", "refused")
    /\ SaveFails(o)
    /\ UNCHANGED <<memory, others, doomed, status>>

\* The synchronous part after the save: chain behind the tail of the key and
\* become the tail.
Chain(o) ==
    /\ Move(o, "saved", "waiting")
    /\ prev' = [prev EXCEPT ![o] = tails[LockKey[o]]]
    /\ tails' = [tails EXCEPT ![LockKey[o]] = o]
    /\ arrival' = [arrival EXCEPT ![o] = clock]
    /\ clock' = clock + 1
    /\ UNCHANGED <<others, doomed, status, row, faults>>

\* Wrong variant of Released: wait only while the predecessor is running.
BugReleased(o) == prev[o] # NoOp => link[prev[o]] \notin Holding

\* previous.catch(...).then(...): a predecessor that failed releases its
\* successor as well as one that succeeded.
Released(o) == prev[o] # NoOp => link[prev[o]] \in {"settled", "done"}

\* Wrong variant of KeepsTail: any promise of the key deletes its tail.
BugKeepsTail(o) == FALSE

\* next.finally(...): the tail is deleted only by the promise that is the tail.
KeepsTail(o) == tails[LockKey[o]] # o

Forget(o) ==
    /\ Move(o, "settled", "done")
    /\ tails' = IF KeepsTail(o) THEN tails
                ELSE [tails EXCEPT ![LockKey[o]] = NoOp]
    /\ UNCHANGED <<prev, arrival, clock, others, doomed, status, row, faults>>

-----------------------------------------------------------------------------
(* run *)

Start(o) ==
    /\ Move(o, "waiting", "starting")
    /\ Released(o)
    /\ status' = [status EXCEPT ![o] = "running"]
    /\ UNCHANGED <<memory, others, doomed, row, faults>>

StartSaved(o) ==
    /\ Move(o, "starting", "running")
    /\ Save(o)
    /\ UNCHANGED <<memory, others, doomed, status>>

\* The first save is outside run's try: its failure rejects the promise, and
\* the promise that finally() returned is rejected with nobody to handle it.
StartFails(o) ==
    /\ Move(o, "starting", "settled")
    /\ SaveFails(o)
    /\ doomed' = TRUE
    /\ UNCHANGED <<memory, others, status>>

\* context.stage and context.backup save the entity while the runner works.
StageSaved(o) ==
    /\ proc = "up"
    /\ link[o] = "running"
    /\ Save(o)
    /\ UNCHANGED <<memory, others, doomed, link, status>>

\* withSession saves the server entity it was given, which inserts the row
\* again if the server was removed meanwhile.
TouchServer(o) ==
    /\ proc = "up"
    /\ link[o] = "running"
    /\ servers' = servers \cup {ServerOf[o]}
    /\ UNCHANGED <<memory, proc, doomed, link, status, row, removing, faults,
                   crashes>>

\* Wrong variant of RunnerEnds: completion.status without its default.
BugRunnerEnds(o, outcome) ==
    /\ Move(o, "running", "finishing")
    /\ status' = [status EXCEPT ![o] = IF outcome = "succeeded"
                                       THEN "undefined" ELSE outcome]
    /\ UNCHANGED <<memory, others, doomed, row, faults>>

\* The runner returns a completion, or throws and the operation has failed.
RunnerEnds(o, outcome) ==
    /\ Move(o, "running", "finishing")
    /\ status' = [status EXCEPT ![o] = outcome]
    /\ UNCHANGED <<memory, others, doomed, row, faults>>

\* Wrong variant of FinishSaved: the promise does not wait for the last save.
BugFinishSaved(o) ==
    /\ Move(o, "finishing", "settled")
    /\ UNCHANGED <<memory, others, doomed, status, row, faults>>

FinishSaved(o) ==
    /\ Move(o, "finishing", "settled")
    /\ Save(o)
    /\ UNCHANGED <<memory, others, doomed, status>>

\* The save in run's finally: its failure rejects the promise too.
FinishFails(o) ==
    /\ Move(o, "finishing", "settled")
    /\ SaveFails(o)
    /\ doomed' = TRUE
    /\ UNCHANGED <<memory, others, status>>

-----------------------------------------------------------------------------
(* The process *)

\* Memory is lost: every promise, and every request on its way.
Crash ==
    /\ proc = "up"
    /\ \/ doomed /\ UNCHANGED crashes
       \/ crashes < MaxCrashes /\ crashes' = crashes + 1
    /\ proc' = "down"
    /\ doomed' = FALSE
    /\ link' = [o \in Ops |-> IF link[o] = "none" THEN "none" ELSE "lost"]
    /\ prev' = [o \in Ops |-> NoOp]
    /\ tails' = [k \in Keys |-> NoOp]
    /\ status' = [o \in Ops |-> "queued"]
    /\ removing' = {}
    /\ UNCHANGED <<row, servers, faults, arrival, clock>>

\* Wrong variants of Interrupted: only the rows that ran, and every row.
BugInterruptedRunning == {o \in Ops : row[o] = "running"}
BugInterruptedAll == {o \in Ops : row[o] # "absent"}

\* The rows that the start-up takes for those of the process that died.
Interrupted == {o \in Ops : row[o] \in {"queued", "running"}}

Boot ==
    /\ proc = "down"
    /\ proc' = "up"
    /\ row' = [o \in Ops |-> IF o \in Interrupted THEN "interrupted" ELSE row[o]]
    /\ UNCHANGED <<memory, doomed, link, status, servers, removing, faults,
                   crashes>>

-----------------------------------------------------------------------------
(* ServersService.remove *)

RowsOf(s) == {o \in Ops : ServerOf[o] = s /\ row[o] # "absent"}

RemoveChecked(s) ==
    /\ proc = "up"
    /\ s \in servers \ removing
    /\ \A o \in RowsOf(s) : row[o] \notin Active
    /\ removing' = removing \cup {s}
    /\ UNCHANGED <<memory, proc, doomed, link, status, row, servers, faults,
                   crashes>>

RemoveCommitted(s) ==
    /\ proc = "up"
    /\ s \in removing
    /\ removing' = removing \ {s}
    /\ servers' = servers \ {s}
    /\ row' = [o \in Ops |-> IF o \in RowsOf(s) THEN "deleted" ELSE row[o]]
    /\ UNCHANGED <<memory, proc, doomed, link, status, faults, crashes>>

-----------------------------------------------------------------------------
OpStep(o) ==
    \/ Request(o) \/ EnqueueSaved(o) \/ EnqueueRefused(o) \/ Chain(o)
    \/ Start(o) \/ StartSaved(o) \/ StartFails(o)
    \/ StageSaved(o) \/ TouchServer(o)
    \/ \E outcome \in Outcomes : RunnerEnds(o, outcome)
    \/ FinishSaved(o) \/ FinishFails(o) \/ Forget(o)

Next ==
    \/ \E o \in Ops : OpStep(o)
    \/ Crash \/ Boot
    \/ \E s \in Servers : RemoveChecked(s) \/ RemoveCommitted(s)

Spec == Init /\ [][Next]_vars

(***************************************************************************)
(* Fairness.  Promise reactions that are ready run (the event loop), a     *)
(* save returns one way or the other, a runner ends (every remote command  *)
(* has a timeout), Node ends a process with an unhandled rejection, and    *)
(* the container is restarted (restart: unless-stopped).                   *)
(***************************************************************************)
Progress(o) ==
    \/ EnqueueSaved(o) \/ EnqueueRefused(o) \/ Chain(o)
    \/ Start(o) \/ StartSaved(o) \/ StartFails(o)
    \/ \E outcome \in Outcomes : RunnerEnds(o, outcome)
    \/ FinishSaved(o) \/ FinishFails(o) \/ Forget(o)

Fairness ==
    /\ \A o \in Ops : WF_vars(Progress(o))
    /\ WF_vars(doomed /\ Crash)
    /\ WF_vars(Boot)

FairSpec == Spec /\ Fairness

-----------------------------------------------------------------------------
(* Correctness *)

TypeOK ==
    /\ proc \in {"up", "down"}
    /\ doomed \in BOOLEAN
    /\ link \in [Ops -> Links]
    /\ prev \in [Ops -> Ops \cup {NoOp}]
    /\ tails \in [Keys -> Ops \cup {NoOp}]
    /\ status \in [Ops -> Statuses]
    /\ row \in [Ops -> RowStates]
    /\ servers \in SUBSET Servers
    /\ removing \in SUBSET Servers
    /\ faults \in Nat
    /\ crashes \in Nat
    /\ arrival \in [Ops -> Nat]
    /\ clock \in Nat

\* Two operations whose servers are the same physical target never work at
\* the same time, whichever rows they belong to: the comment of the
\* TargetIdentity migration says that canonical locking serialises such rows.
OneRunnerPerTarget ==
    \A o \in Ops : \A p \in Siblings(o) :
        ~(link[o] \in Holding /\ link[p] \in Holding)

\* A row says queued or running only while something will still write its
\* outcome: an operation of this process, or the crash that a failed save has
\* made inevitable.  No row is left over from a process that died.
ActiveRowsAreOwned ==
    proc = "up" =>
        \A o \in Ops : row[o] \in Active =>
            \/ link[o] \in Holding \cup {"saved", "waiting"}
            \/ link[o] \in {"settled", "done"} /\ doomed

\* An operation gives up the target only once its outcome is in the database,
\* so whoever polls it after the next one has begun sees a final status.
OutcomeBeforeHandover ==
    \A o \in Ops : link[o] \in {"settled", "done"} =>
        row[o] \in Terminal \cup {"deleted"} \/ doomed

\* A final status is never replaced, neither by a late save of the operation
\* nor by the recovery at start-up; only the server's removal takes the row.
TerminalStays ==
    \A o \in Ops : row[o] \in Terminal => row'[o] \in {row[o], "deleted"}

TerminalIsFinal == [][TerminalStays]_vars

\* The chain of promises is a lock per target, granted in the order in which
\* the operations were chained.
Phase(l) ==
    CASE l = "waiting" -> "waiting"
      [] l \in Holding -> "holding"
      [] l \in {"settled", "done", "lost"} -> "left"
      [] OTHER -> "idle"

Lock == INSTANCE TargetLock WITH phase <- [o \in Ops |-> Phase(link[o])]

ImplementsTargetLock == Lock!LockSpec

\* Every operation that was accepted ends: with an outcome, as interrupted
\* after a restart, or removed together with its server.
AcceptedOperationsEnd ==
    \A o \in Ops :
        (row[o] = "queued") ~> (row[o] \in Terminal \cup {"deleted"})
=============================================================================
