------------------------ MODULE OperationQueueProofs ------------------------
(***************************************************************************)
(* Proofs, for every set of operations, servers and targets, that the      *)
(* promise chain of OperationQueue is an exclusive first-come-first-served *)
(* lock per target, and that the rows say what became of the operations.   *)
(***************************************************************************)
EXTENDS OperationQueue, TLAPS

\* Chained and not settled.
Live == Holding \cup {"waiting"}

\* Past its turn: it has the lock, or has had it.
Served == Holding \cup {"settled", "done"}

\* Turns are drawn in order, each at most once.
TurnsDiffer ==
    \A o \in Ops : link[o] \in Live \cup Served =>
        /\ arrival[o] < clock
        /\ \A p \in Siblings(o) :
              link[p] \in Live \cup Served => arrival[p] # arrival[o]

\* Nobody is served before those who came earlier have settled.
ServedInOrder ==
    \A o \in Ops : \A p \in Siblings(o) :
        link[o] \in Served /\ link[p] \in Live => arrival[o] < arrival[p]

\* The tail of a key is chained there, and nobody alive came after it.
TailIsLast ==
    /\ \A k \in Keys : tails[k] # NoOp =>
          /\ LockKey[tails[k]] = k
          /\ link[tails[k]] \in (Live \cup Served) \ {"done"}
    /\ \A o \in Ops : link[o] \in Live =>
          /\ tails[LockKey[o]] # NoOp
          /\ arrival[o] <= arrival[tails[LockKey[o]]]

\* The predecessor of a waiting operation came just before it: everybody
\* alive who came earlier came no later than the predecessor.
PredecessorIsNearest ==
    \A o \in Ops : link[o] = "waiting" =>
        /\ prev[o] # NoOp =>
              /\ prev[o] \in Siblings(o)
              /\ link[prev[o]] \in Live \cup Served
        /\ \A p \in Siblings(o) :
              link[p] \in Live /\ arrival[p] < arrival[o] =>
                  prev[o] # NoOp /\ arrival[p] <= arrival[prev[o]]

OrderInv == TurnsDiffer /\ ServedInOrder /\ TailIsLast /\ PredecessorIsNearest

\* What the entity and the row say at each stage of an operation.
RowInv ==
    /\ proc = "down" => \A o \in Ops : link[o] \in {"none", "lost"}
    /\ \A o \in Ops :
        /\ link[o] \in {"none", "requested", "refused"} => row[o] = "absent"
        /\ link[o] \in {"saved", "waiting", "starting"} =>
              row[o] \in {"queued", "deleted"}
        /\ link[o] \in {"running", "finishing"} =>
              row[o] \in {"running", "deleted"}
        /\ link[o] \in {"settled", "done"} =>
              row[o] \in Terminal \cup {"deleted"} \/ doomed
        /\ link[o] = "lost" /\ proc = "up" => row[o] \notin Active
        /\ link[o] \in {"none", "requested"} => status[o] = "queued"
        /\ link[o] \in {"starting", "running"} => status[o] = "running"
        /\ link[o] = "finishing" => status[o] \in Outcomes

IInv == TypeOK /\ OrderInv /\ RowInv

-----------------------------------------------------------------------------
USE QueueConstants DEF QueueConstants, Links, Holding, Active

LEMMA TypeInit == Init => TypeOK
<1> SUFFICES ASSUME Init
             PROVE  TypeOK
  OBVIOUS
<1>1. doomed \in BOOLEAN
  BY DEF Init
<1>2. link \in [Ops -> Links] /\ row \in [Ops -> RowStates]
  BY DEF Init, RowStates
<1>3. status \in [Ops -> Statuses]
  BY DEF Init, Statuses
<1> QED
  BY <1>1, <1>2, <1>3 DEF Init, TypeOK

\* Every step keeps the variables in their types.
LEMMA TypeStep == TypeOK /\ [Next]_vars => TypeOK'
<1> SUFFICES ASSUME TypeOK, [Next]_vars
             PROVE  TypeOK'
  OBVIOUS
<1> USE DEF TypeOK, Statuses, RowStates, Terminal
<1>1. ASSUME NEW o \in Ops, OpStep(o)
      PROVE  TypeOK'
  <2> USE DEF Move, Save, SaveFails, memory, others
  <2>1. CASE Request(o)
    BY <2>1 DEF Request
  <2>2. CASE EnqueueSaved(o)
    BY <2>2 DEF EnqueueSaved
  <2>3. CASE EnqueueRefused(o)
    BY <2>3 DEF EnqueueRefused
  <2>4. CASE Chain(o)
    BY <2>4 DEF Chain
  <2>5. CASE Start(o)
    BY <2>5 DEF Start
  <2>6. CASE StartSaved(o)
    BY <2>6 DEF StartSaved
  <2>7. CASE StartFails(o)
    BY <2>7 DEF StartFails
  <2>8. CASE StageSaved(o)
    BY <2>8 DEF StageSaved
  <2>9. CASE TouchServer(o)
    BY <2>9 DEF TouchServer
  <2>10. CASE \E outcome \in Outcomes : RunnerEnds(o, outcome)
    BY <2>10 DEF RunnerEnds
  <2>11. CASE FinishSaved(o)
    BY <2>11 DEF FinishSaved
  <2>12. CASE FinishFails(o)
    BY <2>12 DEF FinishFails
  <2>13. CASE Forget(o)
    BY <2>13 DEF Forget
  <2> QED
    BY <1>1, <2>1, <2>2, <2>3, <2>4, <2>5, <2>6, <2>7, <2>8, <2>9, <2>10,
       <2>11, <2>12, <2>13 DEF OpStep
<1>2. CASE Crash
  <2>1. doomed' \in BOOLEAN
    BY <1>2 DEF Crash
  <2>2. link' \in [Ops -> Links] /\ status' \in [Ops -> Statuses]
    BY <1>2 DEF Crash
  <2> QED
    BY <1>2, <2>1, <2>2 DEF Crash
<1>3. CASE Boot
  BY <1>3 DEF Boot, memory
<1>4. ASSUME NEW s \in Servers, RemoveChecked(s) \/ RemoveCommitted(s)
      PROVE  TypeOK'
  BY <1>4 DEF RemoveChecked, RemoveCommitted, memory
<1>5. CASE UNCHANGED vars
  BY <1>5 DEF vars
<1> QED
  BY <1>1, <1>2, <1>3, <1>4, <1>5 DEF Next

\* Every variable has its type in every reachable state.
THEOREM TypeCorrect == Spec => []TypeOK
BY TypeInit, TypeStep, PTL DEF Spec

-----------------------------------------------------------------------------
(* The order of the chain *)

LEMMA OrderInit == Init => OrderInv
BY DEF Init, OrderInv, TurnsDiffer, ServedInOrder, TailIsLast,
       PredecessorIsNearest, Live, Served

\* The heart of the argument: when the predecessor has settled, everybody
\* alive on the same target came later.
LEMMA ReleasedIsFirst ==
    ASSUME TypeOK, OrderInv,
           NEW o \in Ops, link[o] = "waiting", Released(o),
           NEW p \in Siblings(o), link[p] \in Live
    PROVE  arrival[o] < arrival[p]
<1> USE DEF TypeOK, Siblings, Live, Served
<1>1. arrival[o] \in Nat /\ arrival[p] \in Nat /\ arrival[p] # arrival[o]
  BY DEF OrderInv, TurnsDiffer
<1>2. SUFFICES ASSUME arrival[p] < arrival[o]
               PROVE  FALSE
  BY <1>1
<1>3. /\ prev[o] \in Siblings(o)
      /\ arrival[p] <= arrival[prev[o]]
      /\ link[prev[o]] \in {"settled", "done"}
  BY <1>2 DEF OrderInv, PredecessorIsNearest, Released
<1>4. p \in Siblings(prev[o])
  BY <1>3
<1>5. arrival[prev[o]] < arrival[p]
  BY <1>3, <1>4 DEF OrderInv, ServedInOrder
<1> QED
  BY <1>1, <1>3, <1>5

\* A settled tail is the last of its key: nobody alive is left there.
LEMMA SettledTailIsAlone ==
    ASSUME TypeOK, OrderInv,
           NEW o \in Ops, link[o] = "settled", tails[LockKey[o]] = o,
           NEW p \in Ops, LockKey[p] = LockKey[o]
    PROVE  link[p] \notin Live
<1> USE DEF TypeOK, Siblings, Live, Served
<1>1. SUFFICES ASSUME link[p] \in Live
               PROVE  FALSE
  OBVIOUS
<1>2. arrival[p] <= arrival[o]
  BY <1>1 DEF OrderInv, TailIsLast
<1>3. arrival[o] < arrival[p]
  BY <1>1 DEF OrderInv, ServedInOrder
<1> QED
  BY <1>2, <1>3

\* A step that only moves one operation on, without changing whether it is
\* alive or has been served, keeps the order; so does giving up the lock.
LEMMA MoveKeepsOrder ==
    ASSUME TypeOK, OrderInv, NEW o \in Ops, NEW to \in Links,
           link' = [link EXCEPT ![o] = to],
           UNCHANGED <<prev, tails, arrival, clock>>,
           \/ link[o] \notin Live \cup Served /\ to \notin Live \cup Served
           \/ link[o] \in Holding /\ to \in Holding \cup {"settled"}
    PROVE  OrderInv'
<1> USE DEF TypeOK, Siblings, Live, Served
<1>1. TurnsDiffer'
  BY DEF OrderInv, TurnsDiffer
<1>2. ServedInOrder'
  BY DEF OrderInv, ServedInOrder
<1>3. TailIsLast'
  BY DEF OrderInv, TailIsLast
<1>4. PredecessorIsNearest'
  BY DEF OrderInv, PredecessorIsNearest
<1> QED
  BY <1>1, <1>2, <1>3, <1>4 DEF OrderInv

LEMMA ChainKeepsOrder ==
    ASSUME TypeOK, OrderInv, NEW o \in Ops, Chain(o)
    PROVE  OrderInv'
<1> USE DEF TypeOK, Siblings, Live, Served, Chain, Move
<1>1. TurnsDiffer'
  BY DEF OrderInv, TurnsDiffer
<1>2. ServedInOrder'
  BY DEF OrderInv, ServedInOrder, TurnsDiffer
<1>3. TailIsLast'
  BY DEF OrderInv, TailIsLast, TurnsDiffer
<1>4. PredecessorIsNearest'
  BY DEF OrderInv, PredecessorIsNearest, TailIsLast, TurnsDiffer
<1> QED
  BY <1>1, <1>2, <1>3, <1>4 DEF OrderInv

LEMMA StartKeepsOrder ==
    ASSUME TypeOK, OrderInv, NEW o \in Ops, Start(o)
    PROVE  OrderInv'
<1> USE DEF TypeOK, Siblings, Live, Served, Start, Move, memory
<1>1. TurnsDiffer'
  BY DEF OrderInv, TurnsDiffer
<1>2. ServedInOrder'
  BY ReleasedIsFirst DEF OrderInv, ServedInOrder
<1>3. TailIsLast'
  BY DEF OrderInv, TailIsLast
<1>4. PredecessorIsNearest'
  BY DEF OrderInv, PredecessorIsNearest
<1> QED
  BY <1>1, <1>2, <1>3, <1>4 DEF OrderInv

LEMMA ForgetKeepsOrder ==
    ASSUME TypeOK, OrderInv, NEW o \in Ops, Forget(o)
    PROVE  OrderInv'
<1> USE DEF TypeOK, Siblings, Live, Served, Forget, Move, KeepsTail
<1>1. TurnsDiffer'
  BY DEF OrderInv, TurnsDiffer
<1>2. ServedInOrder'
  BY DEF OrderInv, ServedInOrder
<1>3. TailIsLast'
  BY SettledTailIsAlone DEF OrderInv, TailIsLast
<1>4. PredecessorIsNearest'
  BY DEF OrderInv, PredecessorIsNearest
<1> QED
  BY <1>1, <1>2, <1>3, <1>4 DEF OrderInv

LEMMA CrashKeepsOrder ==
    ASSUME TypeOK, Crash
    PROVE  OrderInv'
BY DEF TypeOK, Crash, OrderInv, TurnsDiffer, ServedInOrder, TailIsLast,
       PredecessorIsNearest, Live, Served

\* Where neither the links nor the chain change, the order stays.
LEMMA StutterKeepsOrder ==
    ASSUME OrderInv, UNCHANGED <<link, prev, tails, arrival, clock>>
    PROVE  OrderInv'
BY DEF OrderInv, TurnsDiffer, ServedInOrder, TailIsLast,
       PredecessorIsNearest, Siblings

LEMMA OrderStep == TypeOK /\ OrderInv /\ [Next]_vars => OrderInv'
<1> SUFFICES ASSUME TypeOK, OrderInv, [Next]_vars
             PROVE  OrderInv'
  OBVIOUS
<1>1. ASSUME NEW o \in Ops, OpStep(o)
      PROVE  OrderInv'
  <2>1. CASE Chain(o)
    BY <2>1, ChainKeepsOrder
  <2>2. CASE Start(o)
    BY <2>2, StartKeepsOrder
  <2>3. CASE Forget(o)
    BY <2>3, ForgetKeepsOrder
  <2>4. CASE StageSaved(o) \/ TouchServer(o)
    BY <2>4, StutterKeepsOrder DEF StageSaved, TouchServer, memory
  <2>5. CASE Request(o) \/ EnqueueSaved(o) \/ EnqueueRefused(o)
    <3>1. PICK to \in {"requested", "saved", "refused"} :
             link' = [link EXCEPT ![o] = to]
      BY <2>5 DEF Request, EnqueueSaved, EnqueueRefused, Move
    <3>2. link[o] \in {"none", "requested"}
      BY <2>5 DEF Request, EnqueueSaved, EnqueueRefused, Move
    <3>3. UNCHANGED <<prev, tails, arrival, clock>>
      BY <2>5 DEF Request, EnqueueSaved, EnqueueRefused, memory
    <3> QED
      BY <3>1, <3>2, <3>3, MoveKeepsOrder DEF Live, Served
  <2>6. CASE \/ StartSaved(o) \/ StartFails(o)
             \/ \E outcome \in Outcomes : RunnerEnds(o, outcome)
             \/ FinishSaved(o) \/ FinishFails(o)
    <3> USE DEF StartSaved, StartFails, RunnerEnds, FinishSaved, FinishFails
    <3>1. PICK to \in {"running", "finishing", "settled"} :
             link' = [link EXCEPT ![o] = to]
      BY <2>6 DEF Move
    <3>2. link[o] \in Holding
      BY <2>6 DEF Move
    <3>3. UNCHANGED <<prev, tails, arrival, clock>>
      BY <2>6 DEF memory
    <3> QED
      BY <3>1, <3>2, <3>3, MoveKeepsOrder DEF Live, Served
  <2> QED
    BY <1>1, <2>1, <2>2, <2>3, <2>4, <2>5, <2>6 DEF OpStep
<1>2. CASE Crash
  BY <1>2, CrashKeepsOrder
<1>3. CASE Boot
  BY <1>3, StutterKeepsOrder DEF Boot, memory
<1>4. ASSUME NEW s \in Servers, RemoveChecked(s) \/ RemoveCommitted(s)
      PROVE  OrderInv'
  BY <1>4, StutterKeepsOrder DEF RemoveChecked, RemoveCommitted, memory
<1>5. CASE UNCHANGED vars
  BY <1>5, StutterKeepsOrder DEF vars
<1> QED
  BY <1>1, <1>2, <1>3, <1>4, <1>5 DEF Next

-----------------------------------------------------------------------------
(* Rows and links *)

LEMMA RowInit == Init => RowInv
BY DEF Init, RowInv

LEMMA RowStep == TypeOK /\ RowInv /\ [Next]_vars => RowInv'
<1> SUFFICES ASSUME TypeOK, RowInv, [Next]_vars
             PROVE  RowInv'
  OBVIOUS
<1> USE DEF TypeOK, RowInv, Terminal, Statuses, RowStates
<1>1. ASSUME NEW o \in Ops, OpStep(o)
      PROVE  RowInv'
  <2> USE DEF Move, Save, SaveFails, memory, others
  <2>1. CASE Request(o)
    BY <2>1 DEF Request
  <2>2. CASE EnqueueSaved(o)
    BY <2>2 DEF EnqueueSaved
  <2>3. CASE EnqueueRefused(o)
    BY <2>3 DEF EnqueueRefused
  <2>4. CASE Chain(o)
    BY <2>4 DEF Chain
  <2>5. CASE Start(o)
    BY <2>5 DEF Start
  <2>6. CASE StartSaved(o)
    BY <2>6 DEF StartSaved
  <2>7. CASE StartFails(o)
    BY <2>7 DEF StartFails
  <2>8. CASE StageSaved(o)
    BY <2>8 DEF StageSaved
  <2>9. CASE TouchServer(o)
    BY <2>9 DEF TouchServer
  <2>10. CASE \E outcome \in Outcomes : RunnerEnds(o, outcome)
    BY <2>10 DEF RunnerEnds
  <2>11. CASE FinishSaved(o)
    BY <2>11 DEF FinishSaved
  <2>12. CASE FinishFails(o)
    BY <2>12 DEF FinishFails
  <2>13. CASE Forget(o)
    BY <2>13 DEF Forget
  <2> QED
    BY <1>1, <2>1, <2>2, <2>3, <2>4, <2>5, <2>6, <2>7, <2>8, <2>9, <2>10,
       <2>11, <2>12, <2>13 DEF OpStep
<1>2. CASE Crash
  BY <1>2 DEF Crash
<1>3. CASE Boot
  BY <1>3 DEF Boot, memory, Interrupted
<1>4. ASSUME NEW s \in Servers, RemoveChecked(s) \/ RemoveCommitted(s)
      PROVE  RowInv'
  BY <1>4 DEF RemoveChecked, RemoveCommitted, RowsOf, memory
<1>5. CASE UNCHANGED vars
  BY <1>5 DEF vars
<1> QED
  BY <1>1, <1>2, <1>3, <1>4, <1>5 DEF Next

-----------------------------------------------------------------------------
(* What follows *)

\* The inductive invariant: types, the order of the chain, rows and links.
THEOREM Inductive == Spec => []IInv
<1>1. Init => IInv
  BY TypeInit, OrderInit, RowInit DEF IInv
<1>2. IInv /\ [Next]_vars => IInv'
  BY TypeStep, OrderStep, RowStep DEF IInv
<1> QED
  BY <1>1, <1>2, PTL DEF Spec

\* Two operations on one physical target never work on it at the same time,
\* however many rows name it and however many operations are queued.
THEOREM Exclusion == Spec => []OneRunnerPerTarget
<1>1. IInv => OneRunnerPerTarget
  <2> SUFFICES ASSUME IInv, NEW o \in Ops, NEW p \in Siblings(o),
                      link[o] \in Holding, link[p] \in Holding
               PROVE  FALSE
    BY DEF OneRunnerPerTarget
  <2>1. o \in Siblings(p)
    BY DEF Siblings
  <2>2. arrival[o] < arrival[p] /\ arrival[p] < arrival[o]
    BY <2>1 DEF IInv, OrderInv, ServedInOrder, Live, Served, Siblings
  <2>3. arrival[o] \in Nat /\ arrival[p] \in Nat
    BY DEF IInv, TypeOK, Siblings
  <2> QED
    BY <2>2, <2>3
<1> QED
  BY <1>1, Inductive, PTL

\* No row stays queued or running without an operation, or a crash to come,
\* that will end it.
THEOREM Ownership == Spec => []ActiveRowsAreOwned
<1>1. IInv => ActiveRowsAreOwned
  BY DEF IInv, RowInv, TypeOK, ActiveRowsAreOwned, Terminal
<1> QED
  BY <1>1, Inductive, PTL

\* The outcome is in the database before the next operation gets the target.
THEOREM Handover == Spec => []OutcomeBeforeHandover
<1>1. IInv => OutcomeBeforeHandover
  BY DEF IInv, RowInv, OutcomeBeforeHandover
<1> QED
  BY <1>1, Inductive, PTL

\* No step replaces a final status.
THEOREM Finality == Spec => TerminalIsFinal
<1>1. IInv /\ [Next]_vars => [TerminalStays]_vars
  <2> SUFFICES ASSUME IInv, Next
               PROVE  TerminalStays
    BY DEF vars
  <2> USE DEF IInv, TypeOK, RowInv, TerminalStays, Terminal
  <2>1. ASSUME NEW o \in Ops, OpStep(o)
        PROVE  TerminalStays
    <3>1. CASE \/ EnqueueSaved(o) \/ StartSaved(o) \/ StageSaved(o)
               \/ FinishSaved(o)
      BY <3>1 DEF EnqueueSaved, StartSaved, StageSaved, FinishSaved, Move, Save
    <3>2. CASE row' = row
      BY <3>2
    <3> QED
      BY <2>1, <3>1, <3>2 DEF OpStep, Request, EnqueueRefused, Chain, Start,
         StartFails, TouchServer, RunnerEnds, FinishFails, Forget, SaveFails
  <2>2. CASE Crash
    BY <2>2 DEF Crash
  <2>3. CASE Boot
    BY <2>3 DEF Boot, Interrupted
  <2>4. ASSUME NEW s \in Servers, RemoveChecked(s) \/ RemoveCommitted(s)
        PROVE  TerminalStays
    BY <2>4 DEF RemoveChecked, RemoveCommitted, RowsOf
  <2> QED
    BY <2>1, <2>2, <2>3, <2>4 DEF Next
<1> QED
  BY <1>1, Inductive, PTL DEF Spec, TerminalIsFinal

-----------------------------------------------------------------------------
(* The promise chain implements the lock *)

LEMMA LockInitially == Init => Lock!LockInit
BY DEF Init, Lock!LockInit, Phase

\* A step that leaves the chain's order alone, and moves no operation to
\* another phase of the lock, is invisible to the lock.
LEMMA Invisible ==
    ASSUME UNCHANGED <<arrival, clock>>,
           \A o \in Ops : Phase(link'[o]) = Phase(link[o])
    PROVE  UNCHANGED Lock!lockVars
BY DEF Lock!lockVars

\* A step of one operation changes no other operation's phase.
LEMMA MovesOne ==
    ASSUME TypeOK, NEW o \in Ops, NEW to \in Links,
           link' = [link EXCEPT ![o] = to]
    PROVE  [p \in Ops |-> Phase(link[p])]'
             = [[p \in Ops |-> Phase(link[p])] EXCEPT ![o] = Phase(to)]
BY DEF TypeOK

LEMMA LockStep == IInv /\ [Next]_vars => [Lock!LockNext]_(Lock!lockVars)
<1> SUFFICES ASSUME IInv, [Next]_vars
             PROVE  Lock!LockNext \/ UNCHANGED Lock!lockVars
  OBVIOUS
<1> USE DEF IInv, TypeOK
<1>1. ASSUME NEW o \in Ops, OpStep(o)
      PROVE  Lock!LockNext \/ UNCHANGED Lock!lockVars
  <2>1. CASE Chain(o)
    <3>1. link' = [link EXCEPT ![o] = "waiting"] /\ link[o] = "saved"
      BY <2>1 DEF Chain, Move
    <3>2. Lock!Join(o)
      BY <2>1, <3>1, MovesOne DEF Chain, Lock!Join, Phase
    <3> QED
      BY <3>2 DEF Lock!LockNext
  <2>2. CASE Start(o)
    <3>1. link' = [link EXCEPT ![o] = "starting"] /\ link[o] = "waiting"
      BY <2>2 DEF Start, Move
    <3>2. ASSUME NEW p \in Lock!Rivals(o)
          PROVE  /\ Phase(link[p]) # "holding"
                 /\ Phase(link[p]) = "waiting" => arrival[o] < arrival[p]
      <4>1. p \in Siblings(o) /\ o \in Siblings(p)
        BY DEF Lock!Rivals, Siblings
      <4>2. link[p] \in Live => arrival[o] < arrival[p]
        BY <2>2, <3>1, <4>1, ReleasedIsFirst DEF Start
      <4>3. link[p] \in Holding => arrival[p] < arrival[o]
        BY <3>1, <4>1 DEF OrderInv, ServedInOrder, Live, Served, Siblings
      <4>4. arrival[o] \in Nat /\ arrival[p] \in Nat
        BY <4>1 DEF Siblings
      <4>5. link[p] \notin Holding
        BY <4>2, <4>3, <4>4 DEF Live
      <4> QED
        BY <4>2, <4>5 DEF Phase, Live
    <3>3. Lock!Grant(o)
      BY <2>2, <3>1, <3>2, MovesOne DEF Start, memory, Lock!Grant, Lock!Rivals, Phase
    <3> QED
      BY <3>3 DEF Lock!LockNext
  <2>3. CASE StartFails(o) \/ FinishSaved(o) \/ FinishFails(o)
    <3>1. link' = [link EXCEPT ![o] = "settled"] /\ link[o] \in Holding
      BY <2>3 DEF StartFails, FinishSaved, FinishFails, Move
    <3>2. Lock!Leave(o)
      BY <2>3, <3>1, MovesOne
         DEF StartFails, FinishSaved, FinishFails, memory, Lock!Leave, Phase
    <3> QED
      BY <3>2 DEF Lock!LockNext
  <2>4. CASE \/ Request(o) \/ EnqueueSaved(o) \/ EnqueueRefused(o)
    <3>1. PICK to \in {"requested", "saved", "refused"} :
             link' = [link EXCEPT ![o] = to]
      BY <2>4 DEF Request, EnqueueSaved, EnqueueRefused, Move
    <3>2. link[o] \in {"none", "requested"}
      BY <2>4 DEF Request, EnqueueSaved, EnqueueRefused, Move
    <3>3. UNCHANGED <<arrival, clock>>
      BY <2>4 DEF Request, EnqueueSaved, EnqueueRefused, memory
    <3> QED
      BY <3>1, <3>2, <3>3, Invisible DEF Phase
  <2>5. CASE StartSaved(o) \/ \E outcome \in Outcomes : RunnerEnds(o, outcome)
    <3>1. PICK to \in {"running", "finishing"} :
             link' = [link EXCEPT ![o] = to]
      BY <2>5 DEF StartSaved, RunnerEnds, Move
    <3>2. link[o] \in Holding
      BY <2>5 DEF StartSaved, RunnerEnds, Move
    <3>3. UNCHANGED <<arrival, clock>>
      BY <2>5 DEF StartSaved, RunnerEnds, memory
    <3> QED
      BY <3>1, <3>2, <3>3, Invisible DEF Phase
  <2>6. CASE StageSaved(o) \/ TouchServer(o)
    BY <2>6, Invisible DEF StageSaved, TouchServer, memory
  <2>7. CASE Forget(o)
    <3>1. link' = [link EXCEPT ![o] = "done"] /\ link[o] = "settled"
      BY <2>7 DEF Forget, Move
    <3> QED
      BY <2>7, <3>1, Invisible DEF Forget, Phase
  <2> QED
    BY <1>1, <2>1, <2>2, <2>3, <2>4, <2>5, <2>6, <2>7 DEF OpStep
<1>2. CASE Crash
  <2> DEFINE phase == [o \in Ops |-> Phase(link[o])]
             gone  == {o \in Ops : link[o] # "none"}
  <2>1. phase' = [o \in Ops |-> IF phase[o] # "idle" \/ o \in gone
                                THEN "left" ELSE "idle"]
    BY <1>2 DEF Crash, Phase
  <2>2. Lock!Reset
    <3> HIDE DEF gone
    <3>1. gone \in SUBSET Ops
      BY DEF gone
    <3>2. UNCHANGED <<arrival, clock>>
      BY <1>2 DEF Crash
    <3> QED
      BY <2>1, <3>1, <3>2 DEF Lock!Reset
  <2> QED
    BY <2>2 DEF Lock!LockNext
<1>3. CASE Boot
  BY <1>3, Invisible DEF Boot, memory
<1>4. ASSUME NEW s \in Servers, RemoveChecked(s) \/ RemoveCommitted(s)
      PROVE  UNCHANGED Lock!lockVars
  BY <1>4, Invisible DEF RemoveChecked, RemoveCommitted, memory
<1>5. CASE UNCHANGED vars
  BY <1>5, Invisible DEF vars
<1> QED
  BY <1>1, <1>2, <1>3, <1>4, <1>5 DEF Next

\* OperationQueue implements TargetLock: one holder per target, granted in
\* the order in which the operations were chained.
THEOREM Refinement == Spec => ImplementsTargetLock
BY LockInitially, LockStep, Inductive, PTL
   DEF Spec, ImplementsTargetLock, Lock!LockSpec
=============================================================================
