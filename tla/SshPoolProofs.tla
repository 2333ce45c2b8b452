---------------------------- MODULE SshPoolProofs ----------------------------
(***************************************************************************)
(* Proofs, for every set of callers and any number of connections, that    *)
(* the pool of SshPool hands out live connections and that the idle timer  *)
(* runs when and only when it should.                                      *)
(***************************************************************************)
EXTENDS SshPool, FiniteSetTheorems, TLAPS

\* The timer belongs to the entry that is in the pool and has its session.
TimerIsPooled == \A c \in timer : c = pool /\ Ready(c)

\* A connection is made for one caller, and nobody has it before it is ready.
OneMakesIt ==
    /\ \A u \in Users : at[u] = "connecting" =>
          /\ on[u] \in Conns
          /\ conn[on[u]] = "connecting"
          /\ \A v \in Users : at[v] = "connecting" /\ on[v] = on[u] => v = u
    /\ \A u \in Users : at[u] = "using" /\ on[u] \in Conns => conn[on[u]] # "connecting"

\* The counter of the pooled entry never exceeds its callers, and is their
\* number as long as no caller of another connection has released the entry.
CountsUsers ==
    pool # None =>
        /\ uses[pool] <= Cardinality(UsersOf(pool))
        /\ Ready(pool) /\ pool \notin robbed => uses[pool] = Cardinality(UsersOf(pool))

IInv == /\ TypeOK /\ PooledIsAlive /\ TimerIsPooled /\ OneMakesIt /\ CountsUsers
        /\ IdleIsOnTimer /\ TimerMeansIdle

-----------------------------------------------------------------------------
USE PoolConstants DEF PoolConstants, ConnStates

LEMMA SubsetCount ==
    ASSUME NEW S \in SUBSET Users
    PROVE  /\ IsFiniteSet(S)
           /\ Cardinality(S) \in Nat
           /\ Cardinality(S) <= Cardinality(Users)
           /\ Cardinality(S) = 0 <=> S = {}
           /\ Cardinality(Users) \in Nat
BY FS_Subset, FS_CardinalityType, FS_EmptySet

\* One more, and one less.
LEMMA CountChanges ==
    ASSUME NEW S \in SUBSET Users, NEW u \in Users
    PROVE  /\ u \notin S => Cardinality(S \cup {u}) = Cardinality(S) + 1
           /\ u \in S => Cardinality(S \ {u}) = Cardinality(S) - 1
BY SubsetCount, FS_AddElement, FS_RemoveElement

LEMMA InvInit == Init => IInv
<1> SUFFICES ASSUME Init
             PROVE  IInv
  OBVIOUS
<1>1. TypeOK
  BY SubsetCount DEF Init, TypeOK
<1>2. PooledIsAlive /\ TimerIsPooled /\ OneMakesIt
  BY DEF Init, PooledIsAlive, TimerIsPooled, OneMakesIt
<1>3. CountsUsers /\ IdleIsOnTimer /\ TimerMeansIdle
  BY DEF Init, CountsUsers, IdleIsOnTimer, TimerMeansIdle, Ready
<1> QED
  BY <1>1, <1>2, <1>3 DEF IInv

\* A session that is reused: its entry has one user more.
LEMMA ReusesKeeps ==
    ASSUME IInv, NEW u \in Users, at[u] \in {"outside", "retrying"}, Reuses(u)
    PROVE  IInv'
<1> USE DEF IInv, Reuses, Moves, Ready
<1>1. pool \in Conns /\ UsersOf(pool) \in SUBSET Users /\ u \notin UsersOf(pool)
  BY DEF TypeOK, UsersOf
<1>2. UsersOf(pool)' = UsersOf(pool) \cup {u}
  BY <1>1 DEF TypeOK, UsersOf
<1>3. /\ Cardinality(UsersOf(pool)') = Cardinality(UsersOf(pool)) + 1
      /\ Cardinality(UsersOf(pool)') <= Cardinality(Users)
  BY <1>1, <1>2, CountChanges, SubsetCount
<1>4. uses[pool] \in Nat /\ Cardinality(UsersOf(pool)) \in Nat /\ Cardinality(Users) \in Nat
  BY <1>1, SubsetCount DEF TypeOK
<1>5. uses'[pool] = uses[pool] + 1 /\ uses[pool] <= Cardinality(UsersOf(pool))
  BY <1>1 DEF TypeOK, CountsUsers
<1>6. TypeOK'
  <2>1. uses[pool] + 1 \in 0..Cardinality(Users)
    BY <1>3, <1>4, <1>5
  <2>2. uses' \in [Conns -> 0..Cardinality(Users)]
    BY <1>1, <2>1 DEF TypeOK
  <2> QED
    BY <1>1, <2>2 DEF TypeOK
<1>7. PooledIsAlive' /\ TimerIsPooled'
  BY DEF PooledIsAlive, TimerIsPooled
<1>8. OneMakesIt'
  BY <1>1 DEF TypeOK, OneMakesIt
<1>9. CountsUsers'
  BY <1>3, <1>4, <1>5 DEF CountsUsers
<1>10. IdleIsOnTimer' /\ TimerMeansIdle'
  BY <1>2 DEF IdleIsOnTimer, TimerMeansIdle, TimerIsPooled
<1> QED
  BY <1>6, <1>7, <1>8, <1>9, <1>10

\* A step that moves callers who do not use a connection leaves the users of
\* each as they are.
LEMMA OthersMove ==
    ASSUME NEW who \in SUBSET Users, NEW place, NEW c,
           Moves(who, place, c), place # "using",
           \A u \in who : at[u] # "using"
    PROVE  \A d : UsersOf(d)' = UsersOf(d)
BY DEF Moves, UsersOf

LEMMA WaitsKeeps ==
    ASSUME IInv, NEW u \in Users, at[u] \in {"outside", "retrying"}, Waits(u)
    PROVE  IInv'
<1> USE DEF IInv, Waits
<1>1. \A d : UsersOf(d)' = UsersOf(d)
  BY OthersMove
<1>2. TypeOK'
  BY DEF TypeOK, Moves
<1>3. PooledIsAlive' /\ TimerIsPooled' /\ TimerMeansIdle'
  BY <1>1 DEF PooledIsAlive, TimerIsPooled, TimerMeansIdle, Ready
<1>4. OneMakesIt'
  BY DEF TypeOK, OneMakesIt, Moves
<1>5. CountsUsers' /\ IdleIsOnTimer'
  BY <1>1 DEF CountsUsers, IdleIsOnTimer, Ready
<1> QED
  BY <1>2, <1>3, <1>4, <1>5

LEMMA ConnectsKeeps ==
    ASSUME IInv, NEW u \in Users, at[u] \in {"outside", "retrying"}, Connects(u)
    PROVE  IInv'
<1> USE DEF IInv
<1>1. PICK c \in Conns :
         /\ pool = None /\ conn[c] = "none"
         /\ \A v \in Users : on[v] # c
         /\ pool' = c
         /\ conn' = [conn EXCEPT ![c] = "connecting"]
         /\ uses' = [uses EXCEPT ![c] = 0]
         /\ robbed' = robbed \ {c}
         /\ Moves({u}, "connecting", c)
         /\ timer' = timer
  BY DEF Connects
<1>2. \A d : UsersOf(d)' = UsersOf(d)
  BY <1>1, OthersMove
<1>3. timer = {} /\ UsersOf(c) = {}
  BY <1>1 DEF TimerIsPooled, Ready, TypeOK, UsersOf
<1>4. conn' \in [Conns -> ConnStates] /\ conn'[c] = "connecting" /\ uses'[c] = 0
  BY <1>1 DEF TypeOK
<1>5. TypeOK'
  <2>1. uses' \in [Conns -> 0..Cardinality(Users)]
    BY <1>1, SubsetCount DEF TypeOK
  <2> QED
    BY <1>1, <1>4, <2>1 DEF TypeOK, Moves
<1>6. PooledIsAlive' /\ TimerIsPooled' /\ TimerMeansIdle'
  BY <1>1, <1>3, <1>4 DEF PooledIsAlive, TimerIsPooled, TimerMeansIdle
<1>7. OneMakesIt'
  BY <1>1 DEF TypeOK, OneMakesIt, Moves
<1>8. CountsUsers' /\ IdleIsOnTimer'
  BY <1>1, <1>2, <1>3, <1>4, SubsetCount DEF CountsUsers, IdleIsOnTimer, Ready
<1> QED
  BY <1>5, <1>6, <1>7, <1>8

\* All who waited for the connection count themselves.
LEMMA ConnectedKeeps ==
    ASSUME IInv, NEW u \in Users, Connected(u)
    PROVE  IInv'
<1> USE DEF IInv
<1>1. PICK c \in Conns :
         /\ c = on[u] /\ at[u] = "connecting" /\ pool = c
         /\ conn' = [conn EXCEPT ![c] = "open"]
         /\ uses' = [uses EXCEPT ![c] = Cardinality(Waiters(c)) + 1]
         /\ Moves(Waiters(c) \cup {u}, "using", c)
         /\ UNCHANGED <<pool, timer, robbed>>
  BY DEF Connected, OneMakesIt
<1> DEFINE all == Waiters(c) \cup {u}
<1>2. conn[c] = "connecting" /\ UsersOf(c) = {} /\ c \notin timer
  BY <1>1 DEF OneMakesIt, UsersOf, TimerIsPooled, Ready
<1>3. UsersOf(c)' = all /\ all \in SUBSET Users
  BY <1>1, <1>2 DEF Moves, UsersOf, Waiters
<1>4. Cardinality(all) = Cardinality(Waiters(c)) + 1
  BY <1>1, CountChanges DEF Waiters
<1>5. conn' \in [Conns -> ConnStates] /\ conn'[c] = "open"
  BY <1>1 DEF TypeOK
<1>6. uses' \in [Conns -> 0..Cardinality(Users)] /\ uses'[c] = Cardinality(UsersOf(c)')
  BY <1>1, <1>3, <1>4, SubsetCount DEF TypeOK
<1>7. TypeOK'
  BY <1>1, <1>5, <1>6 DEF TypeOK, Moves
<1>8. PooledIsAlive' /\ TimerIsPooled'
  BY <1>1, <1>2, <1>5 DEF PooledIsAlive, TimerIsPooled
<1>9. OneMakesIt'
  BY <1>1, <1>2 DEF TypeOK, OneMakesIt, Moves
<1>10. pool' = c
  BY <1>1
<1>11. CountsUsers'
  BY <1>6, <1>10, SubsetCount, <1>3 DEF CountsUsers
<1>12. IdleIsOnTimer' /\ TimerMeansIdle'
  BY <1>1, <1>2, <1>3, <1>10 DEF IdleIsOnTimer, TimerMeansIdle, TimerIsPooled
<1> QED
  BY <1>7, <1>8, <1>9, <1>11, <1>12

LEMMA SupersededKeeps ==
    ASSUME IInv, NEW u \in Users, Superseded(u)
    PROVE  IInv'
<1> DEFINE c == on[u]
<1> USE DEF IInv
<1>1. /\ at[u] = "connecting" /\ pool # c /\ c \in Conns
      /\ conn[c] = "connecting"
      /\ conn' = [conn EXCEPT ![c] = "unwanted"]
      /\ at' = [v \in Users |-> IF v = u THEN "retrying"
                                ELSE IF v \in Waiters(c) THEN "outside" ELSE at[v]]
      /\ on' = [v \in Users |-> IF v \in Waiters(c) \cup {u} THEN None ELSE on[v]]
      /\ UNCHANGED <<pool, uses, timer, robbed>>
  BY DEF Superseded, OneMakesIt
<1>2. \A d : UsersOf(d)' = UsersOf(d)
  BY <1>1 DEF UsersOf, Waiters
<1>3. \A d \in Conns : conn'[d] = IF d = c THEN "unwanted" ELSE conn[d]
  BY <1>1 DEF TypeOK
<1>4. Ready(pool)' = Ready(pool)
  BY <1>1, <1>3 DEF Ready, TypeOK
<1>5. TypeOK'
  BY <1>1 DEF TypeOK
<1>6. PooledIsAlive' /\ TimerIsPooled' /\ TimerMeansIdle'
  BY <1>1, <1>2, <1>3 DEF TypeOK, PooledIsAlive, TimerIsPooled, TimerMeansIdle, Ready
<1>7. OneMakesIt'
  BY <1>1, <1>3 DEF TypeOK, OneMakesIt
<1>8. CountsUsers' /\ IdleIsOnTimer'
  BY <1>1, <1>2, <1>4 DEF CountsUsers, IdleIsOnTimer
<1> QED
  BY <1>5, <1>6, <1>7, <1>8

LEMMA ConnectFailsKeeps ==
    ASSUME IInv, NEW u \in Users, ConnectFails(u)
    PROVE  IInv'
<1> DEFINE c == on[u]
           all == Waiters(c) \cup {u}
<1> USE DEF IInv
<1>1. /\ at[u] = "connecting" /\ c \in Conns /\ conn[c] = "connecting"
      /\ conn' = [conn EXCEPT ![c] = "none"]
      /\ pool' = IF pool = c THEN None ELSE pool
      /\ Moves(all, "outside", None)
      /\ UNCHANGED <<uses, timer, robbed>>
  BY DEF ConnectFails, OneMakesIt
<1>2. \A d : UsersOf(d)' = UsersOf(d)
  BY <1>1, OthersMove DEF Waiters
<1>3. \A d \in Conns : conn'[d] = IF d = c THEN "none" ELSE conn[d]
  BY <1>1 DEF TypeOK
<1>4. c \notin timer
  BY <1>1 DEF TimerIsPooled, Ready
<1>5. TypeOK'
  BY <1>1 DEF TypeOK, Moves
<1>6. PooledIsAlive' /\ TimerIsPooled' /\ TimerMeansIdle'
  BY <1>1, <1>2, <1>3, <1>4
     DEF TypeOK, PooledIsAlive, TimerIsPooled, TimerMeansIdle, Ready
<1>7. OneMakesIt'
  BY <1>1, <1>3 DEF TypeOK, OneMakesIt, Moves
<1>8. CountsUsers' /\ IdleIsOnTimer'
  BY <1>1, <1>2, <1>3 DEF TypeOK, CountsUsers, IdleIsOnTimer, Ready
<1> QED
  BY <1>5, <1>6, <1>7, <1>8

\* A caller leaves, and the entry under the key counts one user less, whose
\* ever it is.
LEMMA ReleaseKeeps ==
    ASSUME IInv, NEW u \in Users, Release(u)
    PROVE  IInv'
<1> USE DEF IInv
<1>1. /\ at[u] = "using" /\ Moves({u}, "outside", None)
      /\ UNCHANGED <<pool, conn>>
  BY DEF Release
<1>2. PooledIsAlive' /\ OneMakesIt'
  BY <1>1 DEF PooledIsAlive, OneMakesIt, Moves, TypeOK
<1>3. at' \in [Users -> {"outside", "retrying", "waiting", "connecting", "using"}]
      /\ on' \in [Users -> Conns \cup {None}]
  BY <1>1 DEF TypeOK, Moves
<1>4. CASE Ready(pool)
  <2>1. PICK p \in Conns : p = pool
    BY <1>4 DEF Ready, TypeOK
  <2> DEFINE now == UsersOf(p)
             then == UsersOf(p)'
  <2>2. /\ uses' = [uses EXCEPT ![p] = Left]
        /\ timer' = IF Left = 0 THEN timer \cup {p} ELSE timer
        /\ robbed' = IF on[u] = p THEN robbed ELSE robbed \cup {p}
        /\ pool' = p /\ Ready(pool)'
    BY <1>1, <1>4, <2>1 DEF Release, ArmsTimer, Ready
  <2>3. then = IF on[u] = p THEN now \ {u} ELSE now
    BY <1>1 DEF Moves, UsersOf, TypeOK
  <2>4. now \in SUBSET Users /\ (on[u] = p => u \in now)
    BY <1>1 DEF UsersOf
  <2>5. /\ Cardinality(then) = IF on[u] = p THEN Cardinality(now) - 1 ELSE Cardinality(now)
        /\ Cardinality(then) \in Nat /\ Cardinality(now) \in Nat
        /\ Cardinality(then) = 0 <=> then = {}
    BY <2>3, <2>4, CountChanges, SubsetCount
  <2>6. /\ uses[p] \in 0..Cardinality(Users)
        /\ uses[p] <= Cardinality(now)
        /\ p \notin robbed => uses[p] = Cardinality(now)
    BY <1>4, <2>1 DEF TypeOK, CountsUsers, Ready
  <2>7. Left = IF uses[p] = 0 THEN 0 ELSE uses[p] - 1
    BY <2>1 DEF Left
  <2>8. Left \in 0..Cardinality(Users) /\ Left \in Nat
    BY <2>6, <2>7, SubsetCount
  <2>9. uses' \in [Conns -> 0..Cardinality(Users)] /\ uses'[p] = Left
    BY <2>2, <2>8 DEF TypeOK
  <2>10. Left <= Cardinality(then)
    BY <2>5, <2>6, <2>7
  <2>11. p \notin robbed' => Left = Cardinality(then)
    BY <2>2, <2>5, <2>6, <2>7
  <2>12. TypeOK'
    BY <1>1, <1>3, <2>2, <2>9 DEF TypeOK
  <2>13. TimerIsPooled'
    BY <1>1, <2>2 DEF TimerIsPooled, Ready
  <2>14. CountsUsers'
    BY <2>2, <2>9, <2>10, <2>11 DEF CountsUsers
  <2>15. IdleIsOnTimer'
    <3>1. Cardinality(then) = 0 => Left = 0
      BY <2>5, <2>8, <2>10
    <3>2. then = {} => Left = 0
      BY <2>5, <3>1
    <3> QED
      BY <2>2, <3>2 DEF IdleIsOnTimer
  <2>16. TimerMeansIdle'
    <3>1. Left = 0 /\ p \notin robbed' => then = {}
      BY <2>5, <2>11
    <3>2. timer \subseteq {p}
      BY <2>1 DEF TimerIsPooled
    <3>3. p \in timer /\ p \notin robbed' => then = {}
      BY <2>2, <2>3 DEF TimerMeansIdle
    <3> QED
      BY <2>2, <3>1, <3>2, <3>3 DEF TimerMeansIdle
  <2> QED
    BY <1>2, <2>12, <2>13, <2>14, <2>15, <2>16
<1>5. CASE ~Ready(pool)
  <2>1. UNCHANGED <<uses, timer, robbed>> /\ ~Ready(pool)'
    BY <1>1, <1>5 DEF Release, Ready
  <2>2. timer = {}
    BY <1>5 DEF TimerIsPooled
  <2>3. TypeOK' /\ TimerIsPooled' /\ IdleIsOnTimer' /\ TimerMeansIdle'
    BY <1>1, <1>3, <2>1, <2>2 DEF TypeOK, TimerIsPooled, IdleIsOnTimer, TimerMeansIdle
  <2>4. CountsUsers'
    <3>1. SUFFICES ASSUME pool # None
                   PROVE  uses[pool] <= Cardinality(UsersOf(pool)')
      BY <1>1, <2>1 DEF CountsUsers
    <3>2. pool \in Conns /\ conn[pool] = "connecting"
      BY <1>5, <3>1 DEF Ready, TypeOK
    <3>3. UsersOf(pool)' = UsersOf(pool)
      BY <1>1, <3>2 DEF Moves, UsersOf, OneMakesIt
    <3> QED
      BY <3>1, <3>3 DEF CountsUsers
  <2> QED
    BY <1>2, <2>3, <2>4
<1> QED
  BY <1>4, <1>5

\* Without an entry there is nothing to count and to time.
LEMMA EmptyPoolKeeps ==
    ASSUME IInv, Forgets, TypeOK', OneMakesIt'
    PROVE  IInv'
<1>1. pool' = None /\ timer' = {}
  BY DEF Forgets, IInv, TimerIsPooled
<1> QED
  BY <1>1 DEF IInv, PooledIsAlive, TimerIsPooled, CountsUsers, IdleIsOnTimer,
              TimerMeansIdle, Ready

LEMMA DiscardsKeeps ==
    ASSUME IInv, Discards, UNCHANGED <<uses, robbed>>,
           \/ UNCHANGED <<at, on>>
           \/ \E u \in Users : at[u] = "using" /\ Moves({u}, "outside", None)
    PROVE  IInv'
<1> USE DEF IInv, Discards
<1>1. at' \in [Users -> {"outside", "retrying", "waiting", "connecting", "using"}]
      /\ on' \in [Users -> Conns \cup {None}]
  BY DEF TypeOK, Moves
<1>2. conn' \in [Conns -> ConnStates]
      /\ \A c \in Conns : conn[c] = "connecting" <=> conn'[c] = "connecting"
  BY DEF Closed, Ready, TypeOK
<1>3. TypeOK'
  BY <1>1, <1>2 DEF TypeOK, Forgets
<1>4. OneMakesIt'
  BY <1>2 DEF OneMakesIt, TypeOK, Moves
<1> QED
  BY <1>3, <1>4, EmptyPoolKeeps

\* The idle timer fires: it closes the entry or has come too late.
LEMMA TimerFiresKeeps ==
    ASSUME IInv, NEW c \in Conns, TimerFires(c)
    PROVE  IInv'
<1> USE DEF IInv
<1>1. CASE Discards
  BY <1>1, DiscardsKeeps DEF TimerFires
<1>2. CASE ~Discards
  <2>1. /\ uses[c] > 0 \/ pool # c
        /\ timer' = timer \ {c} /\ c \in timer
        /\ UNCHANGED <<pool, conn, uses, at, on, robbed>>
    BY <1>2 DEF TimerFires
  <2>2. pool = c /\ uses[c] > 0
    BY <2>1 DEF TimerIsPooled
  <2>3. UsersOf(c) # {}
    <3>1. uses[c] <= Cardinality(UsersOf(c)) /\ uses[c] \in Nat
      BY <2>2, SubsetCount DEF CountsUsers, TypeOK
    <3>2. UsersOf(c) \in SUBSET Users
      BY DEF UsersOf
    <3> QED
      BY <2>2, <3>1, <3>2, SubsetCount
  <2>4. \A d : UsersOf(d)' = UsersOf(d) /\ Ready(d)' = Ready(d)
    BY <2>1 DEF UsersOf, Ready
  <2>5. TypeOK' /\ PooledIsAlive' /\ TimerIsPooled' /\ OneMakesIt'
    BY <2>1 DEF TypeOK, PooledIsAlive, TimerIsPooled, OneMakesIt, Ready
  <2>6. CountsUsers' /\ IdleIsOnTimer' /\ TimerMeansIdle'
    BY <2>1, <2>2, <2>3, <2>4 DEF CountsUsers, IdleIsOnTimer, TimerMeansIdle
  <2> QED
    BY <2>5, <2>6
<1> QED
  BY <1>1, <1>2

LEMMA LoseKeeps ==
    ASSUME IInv, NEW c \in Conns, Lose(c)
    PROVE  IInv'
<1> USE DEF IInv, Lose
<1>1. \A d \in Conns : conn'[d] = IF d = c THEN "lost" ELSE conn[d]
  BY DEF TypeOK
<1>2. \A d \in Conns : UsersOf(d)' = UsersOf(d) /\ Ready(d)' = Ready(d)
  BY <1>1 DEF UsersOf, Ready
<1>3. TypeOK' /\ OneMakesIt'
  BY <1>1 DEF TypeOK, OneMakesIt
<1>4. PooledIsAlive' /\ TimerIsPooled' /\ TimerMeansIdle'
  BY <1>1, <1>2 DEF PooledIsAlive, TimerIsPooled, TimerMeansIdle, TypeOK
<1>5. CountsUsers' /\ IdleIsOnTimer'
  BY <1>2 DEF CountsUsers, IdleIsOnTimer, TypeOK, Ready
<1> QED
  BY <1>3, <1>4, <1>5

\* The close event of a connection that was never pooled changes no entry; any
\* other drops the entry that is under the key.
LEMMA CloseEventKeeps ==
    ASSUME IInv, NEW c \in Conns, CloseEvent(c)
    PROVE  IInv'
<1> USE DEF IInv, CloseEvent
<1>1. \A d \in Conns : conn'[d] = IF d = c THEN "none" ELSE conn[d]
  BY DEF TypeOK
<1>2. TypeOK' /\ OneMakesIt'
  BY <1>1 DEF TypeOK, OneMakesIt, Forgets
<1>3. CASE conn[c] = "unwanted"
  <2>1. pool # c /\ UNCHANGED <<pool, timer>>
    BY <1>3 DEF PooledIsAlive, TypeOK
  <2>2. Ready(pool)' = Ready(pool) /\ \A d : UsersOf(d)' = UsersOf(d)
    BY <1>1, <2>1 DEF Ready, UsersOf, TypeOK
  <2>3. PooledIsAlive' /\ TimerIsPooled' /\ TimerMeansIdle'
    BY <1>1, <2>1, <2>2 DEF PooledIsAlive, TimerIsPooled, TimerMeansIdle, TypeOK, Ready
  <2>4. CountsUsers' /\ IdleIsOnTimer'
    BY <2>1, <2>2 DEF CountsUsers, IdleIsOnTimer
  <2> QED
    BY <1>2, <2>3, <2>4
<1>4. CASE conn[c] # "unwanted"
  BY <1>2, <1>4, EmptyPoolKeeps
<1> QED
  BY <1>3, <1>4

LEMMA InvStep == IInv /\ [Next]_vars => IInv'
<1> SUFFICES ASSUME IInv, [Next]_vars
             PROVE  IInv'
  OBVIOUS
<1>1. ASSUME NEW u \in Users, Acquire(u)
      PROVE  IInv'
  BY <1>1, ReusesKeeps, WaitsKeeps, ConnectsKeeps DEF Acquire
<1>2. ASSUME NEW u \in Users, Connected(u) \/ Superseded(u) \/ ConnectFails(u)
      PROVE  IInv'
  BY <1>2, ConnectedKeeps, SupersededKeeps, ConnectFailsKeeps
<1>3. ASSUME NEW u \in Users, Release(u)
      PROVE  IInv'
  BY <1>3, ReleaseKeeps
<1>4. ASSUME NEW u \in Users, Fail(u)
      PROVE  IInv'
  BY <1>4, DiscardsKeeps DEF Fail
<1>5. CASE Discard
  BY <1>5, DiscardsKeeps DEF Discard
<1>6. ASSUME NEW c \in Conns, TimerFires(c) \/ Lose(c) \/ CloseEvent(c)
      PROVE  IInv'
  BY <1>6, TimerFiresKeeps, LoseKeeps, CloseEventKeeps
<1>7. CASE UNCHANGED vars
  BY <1>7 DEF vars, IInv, TypeOK, PooledIsAlive, TimerIsPooled, OneMakesIt,
              CountsUsers, IdleIsOnTimer, TimerMeansIdle, Ready, UsersOf
<1> QED
  BY <1>1, <1>2, <1>3, <1>4, <1>5, <1>6, <1>7 DEF Next

-----------------------------------------------------------------------------
(* The results, of FairSpec as well, which is a conjunct more.             *)

\* The inductive invariant.
THEOREM Inductive == Spec => []IInv
BY InvInit, InvStep, PTL DEF Spec

\* Every variable has its type: the counter of an entry is never more than the
\* callers there are, whatever releases by key have mixed up.
THEOREM TypeCorrect == Spec => []TypeOK
<1>1. IInv => TypeOK
  BY DEF IInv
<1> QED
  BY <1>1, Inductive, PTL

\* acquire hands out no session that the pool has closed or whose close event
\* has been seen.
THEOREM Alive == Spec => []PooledIsAlive
<1>1. IInv => PooledIsAlive
  BY DEF IInv
<1> QED
  BY <1>1, Inductive, PTL

\* A pooled connection that nobody uses has its idle timer armed.
THEOREM Timed == Spec => []IdleIsOnTimer
<1>1. IInv => IdleIsOnTimer
  BY DEF IInv
<1> QED
  BY <1>1, Inductive, PTL

\* An armed timer belongs to a pooled connection that nobody uses, unless a
\* caller of an earlier connection has released the entry.
THEOREM TimedIdle == Spec => []TimerMeansIdle
<1>1. IInv => TimerMeansIdle
  BY DEF IInv
<1> QED
  BY <1>1, Inductive, PTL
=============================================================================
