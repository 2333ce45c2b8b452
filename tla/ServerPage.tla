----------------------------- MODULE ServerPage -----------------------------
(***************************************************************************)
(* The page of one server, servers/[id]/index.vue, with OperationPolling:  *)
(* it reloads or restarts the service, has a failed operation recovered,   *)
(* and reports how each operation ended.  Both handlers use one poll.  A   *)
(* dialog covers the page.  What the page only shows is left out: the      *)
(* server, the list of operations, the logs and their own timer.           *)
(***************************************************************************)
EXTENDS OperationPolling

VARIABLES
    pendingAction,   \* whether the dialog asks about a service action
    actionPending,   \* runServiceAction waits
    recoveryPending, \* recoverOperation waits
    posted,          \* posted[n]: who sent the n-th request and what it waits for
    active,          \* operations that were accepted and have not ended
    told             \* operations whose end was reported (history)

actionVars == <<pendingAction, actionPending, recoveryPending, posted, active, told>>
pageVars == <<actionVars, pollVars>>

PageTypeOK ==
    /\ PollTypeOK
    /\ {pendingAction, actionPending, recoveryPending} \subseteq BOOLEAN
    /\ posted \in [Submissions -> [by : {"service", "recovery"},
                                   at : {"post", "tick", "done"}] \cup {None}]
    /\ active \cup told \subseteq Submissions

PageInit ==
    /\ pendingAction = FALSE /\ actionPending = FALSE /\ recoveryPending = FALSE
    /\ posted = [n \in Submissions |-> None] /\ active = {} /\ told = {}
    /\ PollInit

\* The buttons of the service, and of the dialog.
AskAction ==
    /\ ~pendingAction /\ pendingAction' = TRUE
    /\ UNCHANGED <<actionPending, recoveryPending, posted, active, told, pollVars>>

CancelAction ==
    /\ pendingAction /\ ~actionPending /\ pendingAction' = FALSE
    /\ UNCHANGED <<actionPending, recoveryPending, posted, active, told, pollVars>>

Post(by) ==
    \E n \in Submissions :
        /\ posted[n] = None /\ \A m \in Submissions : m < n => posted[m] # None
        /\ posted' = [posted EXCEPT ![n] = [by |-> by, at |-> "post"]]

\* runServiceAction, up to its request.
RunServiceAction ==
    /\ pendingAction /\ ~actionPending
    /\ Post("service") /\ actionPending' = TRUE
    /\ UNCHANGED <<pendingAction, recoveryPending, active, told, pollVars>>

\* recoverOperation, after window.confirm, up to its request.
RecoverOperation ==
    /\ ~pendingAction /\ ~recoveryPending
    /\ Post("recovery") /\ recoveryPending' = TRUE
    /\ UNCHANGED <<pendingAction, actionPending, active, told, pollVars>>

\* The end of a handler.
PostHandled(n) ==
    /\ posted' = [posted EXCEPT ![n].at = "done"]
    /\ IF posted[n].by = "service" THEN actionPending' = FALSE /\ UNCHANGED recoveryPending
                                 ELSE recoveryPending' = FALSE /\ UNCHANGED actionPending

\* The request is accepted: poll, and wait for its first tick.
PostAccepted(n) ==
    /\ posted[n] # None /\ posted[n].at = "post"
    /\ posted' = [posted EXCEPT ![n].at = "tick"]
    /\ active' = active \cup {n}
    /\ pendingAction' = (pendingAction /\ posted[n].by # "service")
    /\ Poll(n)
    /\ UNCHANGED <<actionPending, recoveryPending, told>>

\* It is refused, or its answer is lost.
PostRefused(n) ==
    /\ posted[n] # None /\ posted[n].at = "post"
    /\ PostHandled(n)
    /\ UNCHANGED <<pendingAction, active, told, pollVars>>

ActionEnds(n) ==
    /\ n \in active /\ active' = active \ {n}
    /\ UNCHANGED <<pendingAction, actionPending, recoveryPending, posted, told, pollVars>>

PostTicked(n) ==
    IF posted[n].at = "tick" THEN PostHandled(n)
    ELSE UNCHANGED <<posted, actionPending, recoveryPending>>

\* Its callback reports the end of an operation.
PageTick(n) ==
    /\ posted[n] # None
    /\ TickHears(n, n \notin active)
    /\ PostTicked(n)
    /\ told' = IF n \in active THEN told ELSE told \cup {n}
    /\ UNCHANGED <<pendingAction, active>>

PageTickLost(n) ==
    /\ posted[n] # None
    /\ TickFails(n)
    /\ PostTicked(n)
    /\ UNCHANGED <<pendingAction, active, told>>

PageNextTick(n) ==
    /\ TimerFires(n)
    /\ UNCHANGED <<pendingAction, actionPending, recoveryPending, posted, active, told>>

PageNext ==
    \/ AskAction \/ CancelAction \/ RunServiceAction \/ RecoverOperation
    \/ \E n \in Submissions : \/ PostAccepted(n) \/ PostRefused(n) \/ ActionEnds(n)
                              \/ PageTick(n) \/ PageTickLost(n) \/ PageNextTick(n)

\* The API ends what it accepts (AcceptedOperationsEnd of OperationQueue),
\* timers fire, and a request that is made again and again is answered once.
PageFairness ==
    \A n \in Submissions :
        /\ WF_pageVars(ActionEnds(n))
        /\ SF_pageVars(PageTick(n))
        /\ WF_pageVars(PageNextTick(n))

-----------------------------------------------------------------------------
\* The end of the operation that poll was called for last is reported, however
\* many requests fail and whatever the loops of earlier operations, which stop
\* does not always reach, do meanwhile.  Earlier operations have no such
\* promise: the next poll may forget them.
OutcomeIsReported ==
    \A n \in Submissions :
        (posted[n] # None /\ latest = n /\ loops[n] # "off")
            ~> (n \in told \/ latest # n)
=============================================================================
