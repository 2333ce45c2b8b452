--------------------------- MODULE LoginProtection ---------------------------
(***************************************************************************)
(* LoginProtectionService as operators on what it remembers of one client  *)
(* address: the bucket of failed logins and the captchas issued to it.     *)
(* Instants are ages and time left, in ticks, and stop growing where no    *)
(* comparison of the code tells them apart, so time needs no bound.        *)
(* prune works on every call; as it removes what later calls would remove  *)
(* as well, it is applied to the entry that a call looks at.               *)
(***************************************************************************)
EXTENDS Integers, FiniteSets, Absence

CONSTANTS MaxFailures,  \* loginMaxFailures
          Window,       \* loginFailureWindowSeconds
          Lockout,      \* loginLockoutSeconds
          CaptchaTtl,   \* captchaTtlSeconds
          Minute,       \* 60 seconds
          MaxPerMinute  \* captchaMaxPerMinute

\* positiveInteger in runtime-config.
ASSUME ProtectionConstants ==
    /\ {MaxFailures, Window, Lockout, CaptchaTtl, Minute, MaxPerMinute} \subseteq Nat \ {0}
    /\ None \notin Nat

-----------------------------------------------------------------------------
(* Failures.  windowStartedAt is an age; lockedUntil is the time left, with *)
(* wasLocked for lockedUntil > 0, which stays when no time is left.         *)

Bucket == [failures : 1..MaxFailures, age : 0..(Window + 1),
           wasLocked : BOOLEAN, left : 0..Lockout]

ASSUME NoBucket == None \notin Bucket

\* Wrong variant of Prune: the window decides alone.
BugPrune(b) == IF b # None /\ b.age > Window THEN None ELSE b

Prune(b) == IF b # None /\ b.age > Window /\ b.left = 0 THEN None ELSE b

Locked(b) == b # None /\ b.left > 0

\* assertNotLocked, which throws ...
Refuses(b) == Locked(Prune(b))

\* ... or forgets a lock that has ended.
Admit(b) == IF Prune(b) # None /\ b.wasLocked THEN None ELSE Prune(b)

\* More failures than the maximum act like the maximum.
RecordFailure(b) ==
    LET p == Prune(b)
        e == IF p # None /\ p.age < Window THEN p
             ELSE [failures |-> 0, age |-> 0, wasLocked |-> FALSE, left |-> 0]
        full == e.failures + 1 >= MaxFailures
    IN  [failures |-> IF full THEN MaxFailures ELSE e.failures + 1,
         age |-> e.age,
         wasLocked |-> e.wasLocked \/ full,
         left |-> IF full THEN Lockout ELSE e.left]

BucketAges(b) == IF b = None THEN None
    ELSE [b EXCEPT !.age = IF @ > Window THEN @ ELSE @ + 1,
                   !.left = IF @ = 0 THEN 0 ELSE @ - 1]

-----------------------------------------------------------------------------
(* Captchas: live[id] is the time an entry has left, or None; issued[n] is *)
(* the age of the n-th newest issue of the client, None when there was     *)
(* none within a minute.                                                   *)

Issues == [1..MaxPerMinute -> (0..(Minute - 1)) \cup {None}]

\* assertCaptchaIssueAllowed
MayIssue(issued) == issued[MaxPerMinute] = None

\* createCaptcha
Issue(live, id) == [live EXCEPT ![id] = CaptchaTtl]

IssueNoted(issued) ==
    [n \in 1..MaxPerMinute |-> IF n = 1 THEN 0 ELSE issued[n - 1]]

\* consumeCaptcha: whatever the code, the entry is gone.
Usable(live, id) == live[id] # None /\ live[id] > 0

Consume(live, id) == [live EXCEPT ![id] = None]

CaptchasAge(live) ==
    [id \in DOMAIN live |-> IF live[id] \in {None, 0} THEN live[id] ELSE live[id] - 1]

IssuesAge(issued) ==
    [n \in 1..MaxPerMinute |->
        IF issued[n] = None \/ issued[n] = Minute - 1 THEN None ELSE issued[n] + 1]
=============================================================================
