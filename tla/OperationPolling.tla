-------------------------- MODULE OperationPolling --------------------------
(***************************************************************************)
(* useOperationPolling: what a page does to follow its operations.  poll   *)
(* starts a loop of requests and timers for one operation; the page keeps  *)
(* one timer handle for all of its loops, so stop reaches only the loop    *)
(* that set the handle last, and no loop whose request is under way.       *)
(* `polling' and the card of the operation are left out.                    *)
(***************************************************************************)
EXTENDS Integers, Absence

CONSTANT Submissions \* submissions of one page, which number its operations

VARIABLES
    loops,    \* loops[n]: what the loop of operation n waits for
    timer,    \* the operation whose loop set `timer' last, or None
    latest    \* the operation that poll was last called for (history), or None

pollVars == <<loops, timer, latest>>

PollTypeOK ==
    /\ loops \in [Submissions -> {"off", "request", "timer"}]
    /\ {timer, latest} \subseteq Submissions \cup {None}

PollInit ==
    /\ loops = [n \in Submissions |-> "off"]
    /\ timer = None /\ latest = None

\* stop: the loops after clearTimeout, which does nothing to a timer that has fired.
Cleared == [n \in Submissions |->
    IF n = timer /\ loops[n] = "timer" THEN "off" ELSE loops[n]]

\* poll, up to the first request.
Poll(n) ==
    /\ loops' = [Cleared EXCEPT ![n] = "request"]
    /\ timer' = None /\ latest' = n

\* tick: an answer, and whether it tells the end of the operation.
TickHears(n, ended) ==
    /\ loops[n] = "request"
    /\ loops' = [loops EXCEPT ![n] = IF ended THEN "off" ELSE "timer"]
    /\ timer' = IF ended THEN timer ELSE n
    /\ UNCHANGED latest

\* Wrong variant of TickFails: a failed request ends the loop.
BugTickFails(n) ==
    /\ loops[n] = "request"
    /\ loops' = [loops EXCEPT ![n] = "off"]
    /\ UNCHANGED <<timer, latest>>

\* tick: the request fails, and is made again later.
TickFails(n) ==
    /\ loops[n] = "request"
    /\ loops' = [loops EXCEPT ![n] = "timer"]
    /\ timer' = n
    /\ UNCHANGED latest

\* The timer of a loop fires.
TimerFires(n) ==
    /\ loops[n] = "timer"
    /\ loops' = [loops EXCEPT ![n] = "request"]
    /\ UNCHANGED <<timer, latest>>
=============================================================================
