------------------------- MODULE AuthSessionsProofs -------------------------
(***************************************************************************)
(* Proofs, for any clients, calls and passwords, of what AuthSessions      *)
(* promises: which sessions outlive a change of the password, what the     *)
(* account holds, and how long a client stays locked out.                  *)
(***************************************************************************)
EXTENDS AuthSessions, FiniteSetTheorems, TLAPS

Wishes == [name : Names \cup {None}, password : Passwords \cup {None}]

\* What a call has at hand.
HasInputs ==
    /\ client \in [Calls -> Clients \cup {None}]
    /\ wanted \in [Calls -> Wishes \cup {None}]
    /\ readAt \in [Tokens -> Nat]
    /\ {crossed, renamed} \subseteq BOOLEAN
    /\ \A c \in Calls :
          /\ pc[c] \in {"verifying", "updating", "deleting"} => up
          /\ pc[c] = "verifying" => client[c] \in Clients
          /\ pc[c] = "updating" => wanted[c] \in Wishes

\* Every call changes the password once at most.
Spent == {c \in Calls : pc[c] \in {"deleting", "done"}}

EpochIsCounted == epoch <= Cardinality(Spent)

Deleting == \E c \in Calls : pc[c] = "deleting"

\* Tokens that are or may become sessions: their logins have read the account
\* after the last change of its password, or they have an excuse.
LoginsReadIt ==
    /\ \A c \in Calls : pc[c] = "verifying" => c \in excused \/ readAt[c] = epoch
    /\ ~Deleting => \A t \in (sessions \cup touching) \ excused : readAt[t] = epoch

\* The account and its copies tell whether the password is the default.
DefaultIsKnown ==
    /\ admin # None => (admin.default <=> admin.password = Default)
    /\ \A c \in Calls : copy[c] # None => (copy[c].default <=> copy[c].password = Default)

\* A copy that is about to be saved is the account, unless changes overlapped.
CopiesAreFresh ==
    /\ admin = None => renamed
    /\ ~crossed => /\ \A c \in Calls : pc[c] = "updating" => copy[c] = admin
                   /\ admin = latest
    /\ admin # None /\ admin.password = admin.name => renamed

IInv == /\ TypeOK /\ HasInputs /\ EpochIsCounted /\ LoginsReadIt /\ DefaultIsKnown
        /\ CopiesAreFresh

-----------------------------------------------------------------------------
USE AuthConstants, ProtectionConstants, NoBucket, NoAccount
    DEF AuthConstants, ProtectionConstants, Tokens, process, store, inputs, calls, past, Steps, Leaves, Verified

\* The buckets stay buckets.
LEMMA BucketsStay ==
    ASSUME NEW b \in Bucket \cup {None}
    PROVE  /\ RecordFailure(b) \in Bucket
           /\ Admit(b) \in Bucket \cup {None}
           /\ RecordFailure(Admit(b)) \in Bucket
           /\ BucketAges(b) \in Bucket \cup {None}
<1>1. ASSUME NEW a \in Bucket \cup {None}
      PROVE  RecordFailure(a) \in Bucket
  BY DEF Bucket, RecordFailure, Prune
<1>2. Admit(b) \in Bucket \cup {None}
  BY DEF Bucket, Admit, Prune
<1>3. BucketAges(b) \in Bucket \cup {None}
  <2>1. CASE b = None
    BY <2>1 DEF BucketAges
  <2>2. CASE b # None
    <3>1. b.age \in 0..(Window + 1) /\ b.left \in 0..Lockout
      BY <2>2 DEF Bucket
    <3>2. (IF b.age > Window THEN b.age ELSE b.age + 1) \in 0..(Window + 1)
      BY <3>1
    <3>3. (IF b.left = 0 THEN 0 ELSE b.left - 1) \in 0..Lockout
      BY <3>1
    <3> QED
      BY <2>2, <3>2, <3>3 DEF Bucket, BucketAges
  <2> QED
    BY <2>1, <2>2
<1> QED
  BY <1>1, <1>2, <1>3

\* What was asked for makes an account of an account.
LEMMA WishesGranted ==
    ASSUME NEW a \in Account, NEW w \in Wishes
    PROVE  With(a, w) \in Account
BY DEF Account, Wishes, With

\* Every call changes the password once at most.
LEMMA EpochKeeps ==
    ASSUME IInv, [Next]_vars
    PROVE  (EpochIsCounted /\ epoch \in 0..Cardinality(Calls))'
<1> USE DEF IInv, TypeOK, EpochIsCounted, Spent
<1>1. ASSUME NEW c \in Calls, UpdateSaved(c)
      PROVE  /\ epoch' \in {epoch, epoch + 1} /\ c \notin Spent /\ Spent' = Spent \cup {c}
  BY <1>1 DEF UpdateSaved
<1>2. CASE \E c \in Calls : UpdateSaved(c)
  <2>1. PICK c \in Calls : UpdateSaved(c)
    BY <1>2
  <2>2. IsFiniteSet(Spent) /\ Cardinality(Spent) \in Nat
    BY FS_Subset, FS_CardinalityType
  <2>3. Cardinality(Spent') = Cardinality(Spent) + 1
    <3>1. c \notin Spent /\ Spent' = Spent \cup {c}
      BY <1>1, <2>1
    <3> HIDE DEF Spent, IInv
    <3> QED
      BY <2>2, <3>1, FS_AddElement
  <2>4. Cardinality(Spent') <= Cardinality(Calls) /\ Cardinality(Calls) \in Nat
    BY FS_Subset, FS_CardinalityType
  <2>5. epoch \in Nat /\ epoch <= Cardinality(Spent)
    BY <2>4
  <2>6. epoch' \in {epoch, epoch + 1}
    BY <1>1, <2>1
  <2>7. /\ epoch' <= Cardinality(Spent')
        /\ epoch' \in 0..Cardinality(Calls)
    <3> HIDE DEF Spent, IInv
    <3> QED
      BY <2>2, <2>3, <2>4, <2>5, <2>6
  <2> QED
    BY <2>7
<1>3. CASE ~(\E c \in Calls : UpdateSaved(c))
  <2>1. UNCHANGED epoch
    BY <1>3 DEF Next, vars, Boot, Crash, Expire, Tick, Seen, Touched, Logout,
       CaptchaWrong,
                LoginAdmitted, LoginSucceeds, LoginFails, UpdateStarts, UpdateRefused,
                DeletesSessions, DeletionFails
  <2>2. Spent \subseteq Spent'
    BY <1>3 DEF Next, vars, Boot, Crash, Expire, Tick, Seen, Touched, Logout,
       CaptchaWrong,
                LoginAdmitted, LoginSucceeds, LoginFails, UpdateStarts, UpdateRefused,
                DeletesSessions, DeletionFails
  <2>3. Cardinality(Spent) <= Cardinality(Spent') /\ IsFiniteSet(Spent')
        /\ Cardinality(Spent') \in Nat /\ Cardinality(Spent) \in Nat
    BY <2>2, FS_Subset, FS_CardinalityType
  <2> QED
    BY <2>1, <2>3
<1> QED
  BY <1>2, <1>3

\* Every variable keeps its type.
LEMMA TypesKeep ==
    ASSUME IInv, [Next]_vars
    PROVE  (TypeOK /\ HasInputs)'
<1> USE DEF IInv, TypeOK, HasInputs, Wishes
<1>1. CASE Boot
  BY <1>1 DEF Boot
<1>2. CASE Crash
  BY <1>2 DEF Crash
<1>3. CASE Expire
  BY <1>3 DEF Expire
<1>4. CASE Tick
  BY <1>4, BucketsStay DEF Tick
<1>5. CASE Seen
  BY <1>5 DEF Seen
<1>6. CASE Touched
  BY <1>6 DEF Touched
<1>7. CASE Logout
  BY <1>7 DEF Logout
<1>8. ASSUME NEW ip \in Clients, CaptchaWrong(ip)
      PROVE  (TypeOK /\ HasInputs)'
  BY <1>8, BucketsStay DEF CaptchaWrong
<1>9. ASSUME NEW c \in Calls, LoginAdmitted(c)
      PROVE  (TypeOK /\ HasInputs)'
  <2>1. failures' \in [Clients -> Bucket \cup {None}]
    BY <1>9, BucketsStay DEF LoginAdmitted
  <2>2. copy' \in [Calls -> Account \cup {None}]
    BY <1>9 DEF LoginAdmitted
  <2> QED
    BY <1>9, <2>1, <2>2 DEF LoginAdmitted
<1>10. ASSUME NEW c \in Calls, LoginSucceeds(c)
      PROVE  (TypeOK /\ HasInputs)'
  BY <1>10 DEF LoginSucceeds
<1>11. ASSUME NEW c \in Calls, LoginFails(c)
      PROVE  (TypeOK /\ HasInputs)'
  BY <1>11, BucketsStay DEF LoginFails
<1>12. ASSUME NEW c \in Calls, UpdateStarts(c)
      PROVE  (TypeOK /\ HasInputs)'
  BY <1>12 DEF UpdateStarts
<1>13. ASSUME NEW c \in Calls, UpdateRefused(c)
      PROVE  (TypeOK /\ HasInputs)'
  BY <1>13 DEF UpdateRefused
<1>14. ASSUME NEW c \in Calls, UpdateSaved(c)
      PROVE  (TypeOK /\ HasInputs)'
  <2>1. /\ copy[c] \in Account /\ wanted[c] \in Wishes /\ admin # None
        /\ crossed \in BOOLEAN /\ (~crossed => admin = latest)
    BY <1>14 DEF UpdateSaved, CopiesAreFresh
  <2>2. admin' \in Account
    BY <1>14, <2>1, WishesGranted DEF UpdateSaved
  <2>3. latest' \in Account
    BY <1>14, <2>1, <2>2, WishesGranted DEF UpdateSaved
  <2>4. (epoch \in 0..Cardinality(Calls))'
    BY EpochKeeps
  <2> QED
    BY <1>14, <2>2, <2>3, <2>4 DEF UpdateSaved
<1>15. ASSUME NEW c \in Calls, DeletesSessions(c)
      PROVE  (TypeOK /\ HasInputs)'
  BY <1>15 DEF DeletesSessions
<1>16. ASSUME NEW c \in Calls, DeletionFails(c)
      PROVE  (TypeOK /\ HasInputs)'
  BY <1>16 DEF DeletionFails
<1>17. CASE UNCHANGED vars
  BY <1>17 DEF vars
<1> QED
  BY <1>1, <1>2, <1>3, <1>4, <1>5, <1>6, <1>7, <1>8, <1>9, <1>10, <1>11, <1>12,
     <1>13, <1>14, <1>15, <1>16, <1>17 DEF Next

\* Which sessions there are.
LEMMA LoginsKeep ==
    ASSUME IInv, [Next]_vars
    PROVE  LoginsReadIt'
<1> USE DEF IInv, TypeOK, HasInputs, LoginsReadIt, Deleting
<1>1. CASE Boot
  BY <1>1 DEF Boot
<1>2. CASE Crash
  BY <1>2 DEF Crash
<1>3. CASE Expire
  BY <1>3 DEF Expire
<1>4. CASE Tick
  BY <1>4 DEF Tick
<1>5. CASE Seen
  BY <1>5 DEF Seen
<1>6. CASE Touched
  BY <1>6 DEF Touched
<1>7. CASE Logout
  BY <1>7 DEF Logout
<1>8. ASSUME NEW ip \in Clients, CaptchaWrong(ip)
      PROVE  LoginsReadIt'
  BY <1>8 DEF CaptchaWrong
<1>9. ASSUME NEW c \in Calls, LoginAdmitted(c)
      PROVE  LoginsReadIt'
  BY <1>9 DEF LoginAdmitted
<1>10. ASSUME NEW c \in Calls, LoginSucceeds(c)
      PROVE  LoginsReadIt'
  BY <1>10 DEF LoginSucceeds
<1>11. ASSUME NEW c \in Calls, LoginFails(c)
      PROVE  LoginsReadIt'
  BY <1>11 DEF LoginFails
<1>12. ASSUME NEW c \in Calls, UpdateStarts(c)
      PROVE  LoginsReadIt'
  BY <1>12 DEF UpdateStarts
<1>13. ASSUME NEW c \in Calls, UpdateRefused(c)
      PROVE  LoginsReadIt'
  BY <1>13 DEF UpdateRefused
<1>14. ASSUME NEW c \in Calls, UpdateSaved(c)
      PROVE  LoginsReadIt'
  BY <1>14 DEF UpdateSaved
<1>15. ASSUME NEW c \in Calls, DeletesSessions(c)
      PROVE  LoginsReadIt'
  BY <1>15 DEF DeletesSessions
<1>16. ASSUME NEW c \in Calls, DeletionFails(c)
      PROVE  LoginsReadIt'
  BY <1>16 DEF DeletionFails
<1>17. CASE UNCHANGED vars
  BY <1>17 DEF vars
<1> QED
  BY <1>1, <1>2, <1>3, <1>4, <1>5, <1>6, <1>7, <1>8, <1>9, <1>10, <1>11, <1>12,
     <1>13, <1>14, <1>15, <1>16, <1>17 DEF Next

\* What the account is.
LEMMA AccountKeeps ==
    ASSUME IInv, [Next]_vars
    PROVE  (DefaultIsKnown /\ CopiesAreFresh)'
<1> USE DEF IInv, TypeOK, HasInputs, DefaultIsKnown, CopiesAreFresh, With,
            Updating, PolicyAllows
<1>1. CASE Boot
  BY <1>1 DEF Boot
<1>2. CASE Crash
  BY <1>2 DEF Crash
<1>3. CASE Expire
  BY <1>3 DEF Expire
<1>4. CASE Tick
  BY <1>4 DEF Tick
<1>5. CASE Seen
  BY <1>5 DEF Seen
<1>6. CASE Touched
  BY <1>6 DEF Touched
<1>7. CASE Logout
  BY <1>7 DEF Logout
<1>8. ASSUME NEW ip \in Clients, CaptchaWrong(ip)
      PROVE  (DefaultIsKnown /\ CopiesAreFresh)'
  BY <1>8 DEF CaptchaWrong
<1>9. ASSUME NEW c \in Calls, LoginAdmitted(c)
      PROVE  (DefaultIsKnown /\ CopiesAreFresh)'
  BY <1>9 DEF LoginAdmitted
<1>10. ASSUME NEW c \in Calls, LoginSucceeds(c)
      PROVE  (DefaultIsKnown /\ CopiesAreFresh)'
  BY <1>10 DEF LoginSucceeds
<1>11. ASSUME NEW c \in Calls, LoginFails(c)
      PROVE  (DefaultIsKnown /\ CopiesAreFresh)'
  BY <1>11 DEF LoginFails
<1>12. ASSUME NEW c \in Calls, UpdateStarts(c)
      PROVE  (DefaultIsKnown /\ CopiesAreFresh)'
  BY <1>12 DEF UpdateStarts
<1>13. ASSUME NEW c \in Calls, UpdateRefused(c)
      PROVE  (DefaultIsKnown /\ CopiesAreFresh)'
  BY <1>13 DEF UpdateRefused
<1>14. ASSUME NEW c \in Calls, UpdateSaved(c)
      PROVE  (DefaultIsKnown /\ CopiesAreFresh)'
  <2>1. /\ copy[c] \in Account /\ wanted[c] \in Wishes /\ admin # None
        /\ copy[c].default <=> copy[c].password = Default
        /\ admin.password = admin.name => renamed
        /\ crossed \in BOOLEAN
        /\ ~crossed => copy[c] = admin /\ admin = latest
    BY <1>14 DEF UpdateSaved
  <2>2. admin' = With(copy[c], wanted[c])
    BY <1>14 DEF UpdateSaved
  <2>3. admin' \in Account
    BY <2>1, <2>2, WishesGranted
  <2> DEFINE w == wanted[c]
             n == With(copy[c], w)
  <2>4. w.password # None => w.password # Default /\ w.password # n.name
    BY <1>14, <2>1 DEF UpdateSaved
  <2>5. n.password = IF w.password = None THEN copy[c].password ELSE w.password
    OBVIOUS
  <2>6. n.default <=> copy[c].default /\ w.password = None
    OBVIOUS
  <2>7. renamed' <=> w.password = None
    BY <1>14 DEF UpdateSaved
  <2>8. admin'.default <=> admin'.password = Default
    BY <2>1, <2>2, <2>4, <2>5, <2>6
  <2>9. admin'.password = admin'.name => renamed'
    BY <2>2, <2>4, <2>5, <2>7
  <2>10. \A d \in Calls : copy'[d] # None => copy[d] = copy'[d]
    BY <1>14 DEF UpdateSaved
  <2>11. ASSUME ~crossed' PROVE admin' = latest'
    BY <1>14, <2>1, <2>2, <2>11 DEF UpdateSaved
  <2>12. ASSUME ~crossed', NEW d \in Calls PROVE pc'[d] # "updating"
    BY <1>14, <2>12 DEF UpdateSaved
  <2> QED
    BY <2>3, <2>8, <2>9, <2>10, <2>11, <2>12
<1>15. ASSUME NEW c \in Calls, DeletesSessions(c)
      PROVE  (DefaultIsKnown /\ CopiesAreFresh)'
  BY <1>15 DEF DeletesSessions
<1>16. ASSUME NEW c \in Calls, DeletionFails(c)
      PROVE  (DefaultIsKnown /\ CopiesAreFresh)'
  BY <1>16 DEF DeletionFails
<1>17. CASE UNCHANGED vars
  BY <1>17 DEF vars
<1> QED
  BY <1>1, <1>2, <1>3, <1>4, <1>5, <1>6, <1>7, <1>8, <1>9, <1>10, <1>11, <1>12,
     <1>13, <1>14, <1>15, <1>16, <1>17 DEF Next

LEMMA InvInit == Init => IInv
<1> SUFFICES ASSUME Init PROVE IInv
  OBVIOUS
<1>1. Cardinality(Calls) \in Nat /\ Cardinality(Spent) \in Nat
  BY FS_Subset, FS_CardinalityType DEF Spent
<1>2. TypeOK /\ HasInputs
  <2>1. admin \in Account \cup {None} /\ sessions \subseteq Tokens
    BY DEF Init
  <2>2. /\ failures \in [Clients -> Bucket \cup {None}]
        /\ pc \in [Calls -> {"idle", "verifying", "updating", "deleting", "done"}]
        /\ copy \in [Calls -> Account \cup {None}]
    BY DEF Init
  <2>3. epoch \in 0..Cardinality(Calls) /\ restarts \in 0..MaxRestarts
    BY <1>1 DEF Init
  <2>4. TypeOK
    BY <2>1, <2>2, <2>3 DEF Init, TypeOK
  <2>5. HasInputs
    BY DEF Init, HasInputs
  <2> QED
    BY <2>4, <2>5
<1>3. EpochIsCounted /\ LoginsReadIt
  BY <1>1 DEF Init, EpochIsCounted, LoginsReadIt
<1>4. DefaultIsKnown /\ CopiesAreFresh
  BY DEF Init, DefaultIsKnown, CopiesAreFresh
<1> QED
  BY <1>2, <1>3, <1>4 DEF IInv

\* The invariant that the theorems below rest on.
THEOREM Inductive == Spec => []IInv
<1>1. IInv /\ [Next]_vars => IInv'
  BY TypesKeep, EpochKeeps, LoginsKeep, AccountKeeps DEF IInv
<1> QED
  BY InvInit, <1>1, PTL DEF Spec

\* Every variable has its type, and each call changes the password once.
THEOREM TypeCorrect == Spec => []TypeOK
<1>1. IInv => TypeOK
  BY DEF IInv
<1> QED
  BY <1>1, Inductive, PTL

\* A change of the password ends what was begun with the old one, but for the
\* exceptions that OldPasswordIsOut names.
THEOREM ChangeEndsSessions == Spec => []OldPasswordIsOut
<1>1. IInv => OldPasswordIsOut
  BY DEF IInv, OldPasswordIsOut, LoginsReadIt, Deleting
<1> QED
  BY <1>1, Inductive, PTL

\* However changes of the account overlap, its flag and its password fit.
THEOREM AccountKept == Spec => []AccountIsSound
<1>1. IInv => AccountIsSound
  BY DEF IInv, AccountIsSound, DefaultIsKnown, CopiesAreFresh
<1> QED
  BY <1>1, Inductive, PTL

-----------------------------------------------------------------------------
(* How long a lockout lasts: what a step may do to a locked bucket. *)

Lasts(b, after) == after # None /\ after.left >= b.left

\* No request gets past assertNotLocked.
LEMMA LockedRefuses ==
    ASSUME NEW b, Locked(b)
    PROVE  Refuses(b)
BY DEF Locked, Refuses, Prune

\* A failure keeps the lock, or forgets a bucket that has had its window.
LEMMA FailureKeepsLock ==
    ASSUME NEW b \in Bucket, Locked(b), b.age < Window
    PROVE  Lasts(b, RecordFailure(b))
<1>1. RecordFailure(b) \in Bucket
  BY BucketsStay
<1>2. b.left \in 0..Lockout /\ b.age \in 0..(Window + 1)
  BY DEF Bucket
<1>3. RecordFailure(b).left \in {Lockout, b.left}
  BY <1>2 DEF RecordFailure, Prune, Locked
<1> QED
  BY <1>1, <1>2, <1>3 DEF Lasts

\* Neither more attempts nor other clients shorten a lock.
THEOREM LockIsKept == Spec => LockoutLasts
<1> DEFINE Excuse(ip) == \E c \in Calls :
        /\ client[c] = ip /\ pc[c] = "verifying" /\ pc'[c] = "done"
        /\ c \in sessions' \/ failures[ip].age >= Window
    Kept == \A ip \in Clients : Locked(failures[ip]) =>
        \/ failures'[ip] # None /\ failures'[ip].left >= failures[ip].left
        \/ failures' = [i \in Clients |-> BucketAges(failures[i])]
        \/ Excuse(ip)
        \/ ~up'
<1>1. ASSUME IInv, [Next]_vars PROVE Kept
  <2> SUFFICES ASSUME NEW ip \in Clients, Locked(failures[ip])
               PROVE  \/ Lasts(failures[ip], failures'[ip])
                      \/ failures' = [i \in Clients |-> BucketAges(failures[i])]
                      \/ Excuse(ip)
                      \/ ~up'
    BY DEF Lasts
  <2>1. failures \in [Clients -> Bucket \cup {None}]
    BY <1>1 DEF IInv, TypeOK
  <2>2. failures[ip] \in Bucket /\ Lasts(failures[ip], failures[ip])
    BY <2>1 DEF Locked, Lasts, Bucket
  <2>3. Refuses(failures[ip])
    BY LockedRefuses
  <2>4. CASE UNCHANGED failures
    BY <2>2, <2>4
  <2>5. CASE Crash
    BY <2>5 DEF Crash
  <2>6. CASE Tick
    BY <2>6 DEF Tick
  <2>7. ASSUME NEW other \in Clients, CaptchaWrong(other)
        PROVE  Lasts(failures[ip], failures'[ip])
    BY <2>1, <2>2, <2>3, <2>7 DEF CaptchaWrong
  <2>8. ASSUME NEW c \in Calls, LoginAdmitted(c)
        PROVE  Lasts(failures[ip], failures'[ip])
    BY <2>1, <2>2, <2>3, <2>8 DEF LoginAdmitted
  <2>9. ASSUME NEW c \in Calls, LoginSucceeds(c)
        PROVE  Lasts(failures[ip], failures'[ip]) \/ Excuse(ip)
    <3>1. /\ pc[c] = "verifying" /\ pc'[c] = "done" /\ c \in sessions'
          /\ failures' = [failures EXCEPT ![client[c]] = None]
      BY <1>1, <2>9 DEF LoginSucceeds, IInv, TypeOK
    <3>2. CASE client[c] = ip
      BY <3>1, <3>2
    <3>3. CASE client[c] # ip
      BY <2>1, <2>2, <3>1, <3>3
    <3> QED
      BY <3>2, <3>3
  <2>10. ASSUME NEW c \in Calls, LoginFails(c)
         PROVE  Lasts(failures[ip], failures'[ip]) \/ Excuse(ip)
    <3>1. /\ pc[c] = "verifying" /\ pc'[c] = "done"
          /\ failures' = [failures EXCEPT ![client[c]] = RecordFailure(@)]
      BY <1>1, <2>10 DEF LoginFails, IInv, TypeOK
    <3>2. CASE client[c] = ip /\ failures[ip].age >= Window
      BY <3>1, <3>2
    <3>3. CASE client[c] = ip /\ ~(failures[ip].age >= Window)
      <4>1. failures[ip].age < Window
        BY <2>2, <3>3 DEF Bucket
      <4>2. failures'[ip] = RecordFailure(failures[ip])
        BY <2>1, <3>1, <3>3
      <4> QED
        BY <2>2, <4>1, <4>2, FailureKeepsLock
    <3>4. CASE client[c] # ip
      BY <2>1, <2>2, <3>1, <3>4
    <3> QED
      BY <3>2, <3>3, <3>4
  <2> QED
    <3>1. \/ UNCHANGED failures \/ Crash \/ Tick
          \/ \E other \in Clients : CaptchaWrong(other)
          \/ \E c \in Calls : LoginAdmitted(c) \/ LoginSucceeds(c) \/ LoginFails(c)
      BY <1>1 DEF Next, vars, Boot, Expire, Seen, Touched, Logout, UpdateStarts,
                  UpdateRefused, UpdateSaved, DeletesSessions, DeletionFails
    <3> QED
      BY <3>1, <2>4, <2>5, <2>6, <2>7, <2>8, <2>9, <2>10
<1> QED
  BY <1>1, Inductive, PTL DEF Spec, LockoutLasts
=============================================================================
