------------------------------- MODULE SshPool -------------------------------
(***************************************************************************)
(* The pool of SSH connections in SshService, for one connection key (one  *)
(* server with one set of credentials): acquire, release, discard, the     *)
(* idle timer and the close event, and the callers in withSession.         *)
(*                                                                         *)
(* An entry of the pool and the connection made for it are one value of    *)
(* Conns; a value is used again when nothing refers to it any more.  A     *)
(* step runs from one event of the event loop to the next: everything that *)
(* waits for a promise goes on in the step that settles it.                *)
(***************************************************************************)
EXTENDS Integers, FiniteSets

CONSTANTS Users,   \* calls of withSession that may be under way together
          Conns,   \* bound: connections that exist at the same time
          None     \* no connection

ASSUME PoolConstants == None \notin Conns /\ IsFiniteSet(Users)

VARIABLES
    pool,    \* the entry under the key, or None
    conn,    \* state of each connection (see ConnStates)
    uses,    \* the counter of each entry
    timer,   \* entries whose idle timer is armed
    at,      \* where each caller is
    on,      \* the connection a caller waits for, makes or uses
    robbed   \* history: entries released by users of another connection

vars == <<pool, conn, uses, timer, at, on, robbed>>

(***************************************************************************)
(* none        no socket                                                   *)
(* connecting  the entry's promise is pending                              *)
(* open        ready                                                       *)
(* lost        broken by the network or the host; not noticed yet          *)
(* closing     close() was called; the close event will run the listener   *)
(* unwanted    close() was called before there was a listener              *)
(***************************************************************************)
ConnStates == {"none", "connecting", "open", "lost", "closing", "unwanted"}

Init ==
    /\ pool = None
    /\ conn = [c \in Conns |-> "none"]
    /\ uses = [c \in Conns |-> 0]
    /\ timer = {}
    /\ at = [u \in Users |-> "outside"]
    /\ on = [u \in Users |-> None]
    /\ robbed = {}

UsersOf(c) == {u \in Users : at[u] = "using" /\ on[u] = c}

Waiters(c) == {u \in Users : at[u] = "waiting" /\ on[u] = c}

Ready(c) == c # None /\ pool = c /\ conn[c] # "connecting"

\* The callers in `who` go to a place and refer to connection c.
Moves(who, place, c) ==
    /\ at' = [u \in Users |-> IF u \in who THEN place ELSE at[u]]
    /\ on' = [u \in Users |-> IF u \in who THEN c ELSE on[u]]

-----------------------------------------------------------------------------
(* drop *)

\* Wrong variant of Closed: the session is left to its close event.
BugClosed(states) == states

\* The states of the connections after close() of the entry's session, if it
\* has one.
Closed(states) ==
    IF Ready(pool) THEN [states EXCEPT ![pool] = "closing"] ELSE states

\* Wrong variant of Forgets: the entry stays in the map.
BugForgets == timer' = timer \ {pool} /\ UNCHANGED pool

\* The entry leaves the pool, and its timer is cleared.
Forgets ==
    /\ pool' = None
    /\ timer' = timer \ {pool}

Discards == Forgets /\ conn' = Closed(conn)

-----------------------------------------------------------------------------
(* acquire *)

\* Wrong variant of Reuses: an idle timer that is armed stays armed.
BugReuses(u) ==
    /\ Ready(pool)
    /\ uses' = [uses EXCEPT ![pool] = @ + 1]
    /\ Moves({u}, "using", pool)
    /\ UNCHANGED <<pool, conn, timer, robbed>>

Reuses(u) ==
    /\ Ready(pool)
    /\ uses' = [uses EXCEPT ![pool] = @ + 1]
    /\ timer' = timer \ {pool}
    /\ Moves({u}, "using", pool)
    /\ UNCHANGED <<pool, conn, robbed>>

Waits(u) ==
    /\ pool # None /\ ~Ready(pool)
    /\ Moves({u}, "waiting", pool)
    /\ UNCHANGED <<pool, conn, uses, timer, robbed>>

Connects(u) ==
    /\ pool = None
    /\ \E c \in Conns :
          /\ conn[c] = "none"
          /\ \A v \in Users : on[v] # c
          /\ pool' = c
          /\ conn' = [conn EXCEPT ![c] = "connecting"]
          /\ uses' = [uses EXCEPT ![c] = 0]
          /\ robbed' = robbed \ {c}
          /\ Moves({u}, "connecting", c)
    /\ UNCHANGED timer

\* A pass of acquire's loop, up to its await: the first, or a retry.
Acquire(u) ==
    /\ at[u] \in {"outside", "retrying"}
    /\ Reuses(u) \/ Waits(u) \/ Connects(u)

\* The connection is ready and its entry still pooled: all who waited find
\* the session and count themselves.
Connected(u) ==
    LET c == on[u]
    IN /\ at[u] = "connecting"
       /\ pool = c
       /\ conn' = [conn EXCEPT ![c] = "open"]
       /\ uses' = [uses EXCEPT ![c] = Cardinality(Waiters(c)) + 1]
       /\ Moves(Waiters(c) \cup {u}, "using", c)
       /\ UNCHANGED <<pool, timer, robbed>>

\* Wrong variant of Superseded: the pending promise is not rejected.
BugSuperseded(u) ==
    LET c == on[u]
    IN /\ at[u] = "connecting"
       /\ pool # c
       /\ conn' = [conn EXCEPT ![c] = "unwanted"]
       /\ Moves({u}, "retrying", None)
       /\ UNCHANGED <<pool, uses, timer, robbed>>

\* The entry was dropped while it was connecting: the session is closed, all
\* who waited get an error, and the caller that connected tries again.
Superseded(u) ==
    LET c == on[u]
    IN /\ at[u] = "connecting"
       /\ pool # c
       /\ conn' = [conn EXCEPT ![c] = "unwanted"]
       /\ at' = [v \in Users |-> IF v = u THEN "retrying"
                                 ELSE IF v \in Waiters(c) THEN "outside" ELSE at[v]]
       /\ on' = [v \in Users |-> IF v \in Waiters(c) \cup {u} THEN None ELSE on[v]]
       /\ UNCHANGED <<pool, uses, timer, robbed>>

\* Refused, timed out, wrong host key: the caller and all who waited get the
\* error.
ConnectFails(u) ==
    LET c == on[u]
    IN /\ at[u] = "connecting"
       /\ conn' = [conn EXCEPT ![c] = "none"]
       /\ pool' = IF pool = c THEN None ELSE pool
       /\ Moves(Waiters(c) \cup {u}, "outside", None)
       /\ UNCHANGED <<uses, timer, robbed>>

-----------------------------------------------------------------------------
(* release, discard and the events *)

\* Wrong variant of ArmsTimer: armed only when the last of several leaves.
BugArmsTimer(left) == left = 1

\* release: scheduleIdleClose when the count is zero.
ArmsTimer(left) == left = 0

\* Wrong variant of Left: the count may become negative.
BugLeft == uses[pool] - 1

Left == IF uses[pool] = 0 THEN 0 ELSE uses[pool] - 1

\* The caller ends.  release finds the entry by its key: it may be another
\* than the one that the caller has used.
Release(u) ==
    /\ at[u] = "using"
    /\ Moves({u}, "outside", None)
    /\ IF Ready(pool)
       THEN /\ uses' = [uses EXCEPT ![pool] = Left]
            /\ timer' = IF ArmsTimer(Left) THEN timer \cup {pool} ELSE timer
            /\ robbed' = IF on[u] = pool THEN robbed ELSE robbed \cup {pool}
       ELSE UNCHANGED <<uses, timer, robbed>>
    /\ UNCHANGED <<pool, conn>>

\* A transport error: withSession discards, by key, and then releases, which
\* finds no session.
Fail(u) ==
    /\ at[u] = "using"
    /\ Discards
    /\ Moves({u}, "outside", None)
    /\ UNCHANGED <<uses, robbed>>

\* The server is updated or removed (ServersService), or the API shuts down.
Discard ==
    /\ pool # None
    /\ Discards
    /\ UNCHANGED <<uses, at, on, robbed>>

TimerFires(c) ==
    /\ c \in timer
    /\ IF uses[c] > 0 \/ pool # c
       THEN timer' = timer \ {c} /\ UNCHANGED <<pool, conn>>
       ELSE Discards
    /\ UNCHANGED <<uses, at, on, robbed>>

\* The network or the host breaks the connection.
Lose(c) ==
    /\ conn[c] = "open"
    /\ conn' = [conn EXCEPT ![c] = "lost"]
    /\ UNCHANGED <<pool, uses, timer, at, on, robbed>>

\* The close event.  The listener drops the entry that is under the key now.
CloseEvent(c) ==
    /\ conn[c] \in {"lost", "closing", "unwanted"}
    /\ conn' = [conn EXCEPT ![c] = "none"]
    /\ IF conn[c] = "unwanted" THEN UNCHANGED <<pool, timer>> ELSE Forgets
    /\ UNCHANGED <<uses, at, on, robbed>>

-----------------------------------------------------------------------------
Next ==
    \/ \E u \in Users : \/ Acquire(u) \/ Connected(u) \/ Superseded(u)
                        \/ ConnectFails(u) \/ Release(u) \/ Fail(u)
    \/ Discard
    \/ \E c \in Conns : TimerFires(c) \/ Lose(c) \/ CloseEvent(c)

Spec == Init /\ [][Next]_vars

\* ssh2 says within readyTimeout whether a connection is ready or failed.
ConnectEnds(u) == Connected(u) \/ Superseded(u) \/ ConnectFails(u)

FairSpec == Spec /\ \A u \in Users : WF_vars(ConnectEnds(u))

-----------------------------------------------------------------------------
(* Correctness *)

TypeOK ==
    /\ pool \in Conns \cup {None}
    /\ conn \in [Conns -> ConnStates]
    /\ uses \in [Conns -> 0..Cardinality(Users)]
    /\ timer \subseteq Conns
    /\ at \in [Users -> {"outside", "retrying", "waiting", "connecting", "using"}]
    /\ on \in [Users -> Conns \cup {None}]
    /\ robbed \subseteq Conns

\* acquire never hands out a session that the pool has closed itself, or whose
\* close event has been seen: no such session stays in the pool.
PooledIsAlive ==
    pool # None => conn[pool] \in {"connecting", "open", "lost"}

\* A pooled connection that nobody uses is on its way to be closed: whatever
\* releases and drops have mixed up its count, its timer is armed.
IdleIsOnTimer ==
    Ready(pool) /\ UsersOf(pool) = {} => pool \in timer

\* The idle timer runs only for a connection that nobody uses, unless a caller
\* of an earlier connection has released the entry in the place of its own.
TimerMeansIdle ==
    \A c \in timer \ robbed : c = pool /\ UsersOf(c) = {}

\* Every pass of acquire's loop ends: no caller waits for ever for a connection
\* that another one makes, even when its entry is dropped meanwhile.
PassEnds ==
    \A u \in Users :
        at[u] \in {"waiting", "connecting"} ~> at[u] \notin {"waiting", "connecting"}

-----------------------------------------------------------------------------
(* What the repository says of the program, and the program does not do *)

\* A test of the pool says that it closes an idle connection after the
\* timeout.  Then an open connection that nobody uses must be in the pool: the
\* pool will never close one that it has lost sight of.
IdleIsPooled ==
    \A c \in Conns : conn[c] = "open" /\ UsersOf(c) = {} => pool = c
=============================================================================
