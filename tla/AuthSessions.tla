---------------------------- MODULE AuthSessions ----------------------------
(***************************************************************************)
(* AuthController and AuthService: logins behind the failure buckets of    *)
(* LoginProtection, the session rows, and changes of the account, which    *)
(* verify and hash passwords, slowly, between what they read and what they *)
(* save; with the part of DatabaseBootstrapService that makes the account. *)
(* A captcha may be right or wrong here (WebSession has the captchas).     *)
(* There is one administrator: nothing creates a second.                   *)
(***************************************************************************)
EXTENDS LoginProtection

CONSTANTS Clients,     \* client addresses
          Calls,       \* logins and account changes, each made once
          OldToken,    \* a session from before
          Names,       \* names of the account
          Passwords,   \* passwords, some of which are also names
          Default,     \* DEFAULT_ADMIN_PASSWORD, which is also the first name
          MaxRestarts  \* bound: restarts of the API

ASSUME AuthConstants ==
    /\ Default \in Names \cap Passwords
    /\ None \notin Names \cup Passwords \cup Calls \cup {OldToken}
    /\ MaxRestarts \in Nat
    /\ IsFiniteSet(Calls)

VARIABLES
    up,        \* the API takes requests
    restarts,
    admin,     \* the admins row, or None
    sessions,  \* tokens of the session rows that have not expired
    touching,  \* tokens whose lastSeenAt is being saved
    failures,  \* failure bucket of each client
    pc,        \* where each call stands
    client,    \* where a login comes from
    offered,   \* the password that a call is to verify
    wanted,    \* the fields that a change asks for
    copy,      \* the account as a call has read it, or None
    epoch,     \* history: how often the password was changed
    readAt,    \* history: the epoch in which the login of a token read it
    excused,   \* history: tokens that an overlap or a failure lets survive
    latest,    \* history: the account after its last change
    crossed,   \* history: another change was under way at the last one
    renamed    \* history: the last change was of the name alone

process == <<up, restarts>>
store == <<admin, sessions>>
inputs == <<client, offered, wanted, copy>>
calls == <<pc, inputs>>
past == <<epoch, readAt, excused, latest, crossed, renamed>>
vars == <<process, store, touching, failures, calls, past>>

Tokens == Calls \cup {OldToken}

Account == [name : Names, password : Passwords, default : BOOLEAN]

ASSUME NoAccount == None \notin Account

Init ==
    /\ up = FALSE
    /\ restarts = 0
    /\ \/ admin = None /\ sessions = {}
       \/ /\ admin \in {a \in Account : a.default <=> a.password = Default}
          /\ sessions = {OldToken}
    /\ touching = {}
    /\ failures = [ip \in Clients |-> None]
    /\ pc = [c \in Calls |-> "idle"]
    /\ client = [c \in Calls |-> None]
    /\ offered = [c \in Calls |-> None]
    /\ wanted = [c \in Calls |-> None]
    /\ copy = [c \in Calls |-> None]
    /\ epoch = 0
    /\ readAt = [t \in Tokens |-> 0]
    /\ excused = {}
    /\ latest = admin
    /\ crossed = FALSE
    /\ renamed = TRUE

Steps(c, from, to) == up /\ pc[c] = from /\ pc' = [pc EXCEPT ![c] = to]

\* The call needs nothing any more of what it was given or has read.
Leaves(c, from, to) ==
    /\ Steps(c, from, to)
    /\ client' = [client EXCEPT ![c] = None]
    /\ offered' = [offered EXCEPT ![c] = None]
    /\ wanted' = [wanted EXCEPT ![c] = None]
    /\ copy' = [copy EXCEPT ![c] = None]

Verified(c) == copy[c] # None /\ copy[c].password = offered[c]

-----------------------------------------------------------------------------
(* Start and end of the process *)

\* onApplicationBootstrap: the first account.  A chosen password that breaks
\* the policy ends the process instead.
Boot ==
    /\ ~up
    /\ up' = TRUE
    /\ admin' \in IF admin # None THEN {admin}
                  ELSE {a \in Account : /\ a.name = Default
                                        /\ a.default <=> a.password = Default}
    /\ latest' = IF admin = None THEN admin' ELSE latest
    /\ UNCHANGED <<restarts, sessions, touching, failures, calls, epoch, readAt, excused,
                   crossed, renamed>>

\* The buckets and the calls under way are lost; a new password may have been
\* saved without the deletion of the sessions.
Crash ==
    /\ up
    /\ restarts < MaxRestarts
    /\ up' = FALSE
    /\ restarts' = restarts + 1
    /\ touching' = {}
    /\ failures' = [ip \in Clients |-> None]
    /\ pc' = [c \in Calls |-> IF pc[c] = "idle" THEN "idle" ELSE "done"]
    /\ client' = [c \in Calls |-> None]
    /\ offered' = client' /\ wanted' = client' /\ copy' = client'
    /\ excused' = IF \E c \in Calls : pc[c] = "deleting"
                  THEN excused \cup sessions ELSE excused
    /\ UNCHANGED <<store, epoch, readAt, latest,
                   crossed, renamed>>

\* No query finds an expired row, and the next boot deletes it.
Expire == \E t \in sessions :
    /\ sessions' = sessions \ {t}
    /\ touching' = touching \ {t}
    /\ UNCHANGED <<process, admin, failures, calls, past>>

Tick ==
    /\ failures' = [ip \in Clients |-> BucketAges(failures[ip])]
    /\ UNCHANGED <<process, store, touching, calls, past>>

-----------------------------------------------------------------------------
(* login *)

\* assertNotLocked and consumeCaptcha run at once, and the account is read.
LoginAdmitted(c) == \E ip \in Clients, name \in Names, password \in Passwords :
    /\ Steps(c, "idle", "verifying")
    /\ ~Refuses(failures[ip])
    /\ failures' = [failures EXCEPT ![ip] = Admit(@)]
    /\ client' = [client EXCEPT ![c] = ip]
    /\ offered' = [offered EXCEPT ![c] = password]
    /\ copy' = [copy EXCEPT ![c] = IF name = admin.name THEN admin ELSE None]
    /\ readAt' = [readAt EXCEPT ![c] = epoch]
    /\ UNCHANGED <<process, store, touching, wanted, epoch, excused, latest,
                   crossed, renamed>>

CaptchaWrong(ip) ==
    /\ up
    /\ ~Refuses(failures[ip])
    /\ failures' = [failures EXCEPT ![ip] = RecordFailure(Admit(@))]
    /\ UNCHANGED <<process, store, touching, calls, past>>

LoginSucceeds(c) ==
    /\ Leaves(c, "verifying", "done")
    /\ Verified(c)
    /\ sessions' = sessions \cup {c}
    /\ failures' = [failures EXCEPT ![client[c]] = None]
    /\ UNCHANGED <<process, admin, touching, past>>

LoginFails(c) ==
    /\ Leaves(c, "verifying", "done")
    /\ ~Verified(c)
    /\ failures' = [failures EXCEPT ![client[c]] = RecordFailure(@)]
    /\ UNCHANGED <<process, store, touching, past>>

-----------------------------------------------------------------------------
(* authenticate, logout *)

\* A request whose session was last seen some time ago has lastSeenAt saved,
\* with nobody waiting for it.
Seen == \E t \in sessions :
    /\ up
    /\ touching' = touching \cup {t}
    /\ UNCHANGED <<process, store, failures, calls, past>>

\* The save inserts a row that has been deleted since.
Touched == \E t \in touching :
    /\ up
    /\ touching' = touching \ {t}
    /\ sessions' = sessions \cup {t}
    /\ UNCHANGED <<process, admin, failures, calls, past>>

Logout == \E t \in sessions :
    /\ up
    /\ sessions' = sessions \ {t}
    /\ UNCHANGED <<process, admin, touching, failures, calls, past>>

-----------------------------------------------------------------------------
(* updateAccount *)

UpdateStarts(c) ==
    /\ sessions # {}
    /\ Steps(c, "idle", "updating")
    /\ \E name \in Names \cup {None}, new \in Passwords \cup {None} :
          wanted' = [wanted EXCEPT ![c] = [name |-> name, password |-> new]]
    /\ offered' \in {[offered EXCEPT ![c] = p] : p \in Passwords}
    /\ copy' = [copy EXCEPT ![c] = admin]
    /\ UNCHANGED <<process, store, touching, failures, client, past>>

\* Wrong variant of With: a field that was not sent empties the column.
BugWith(a, w) ==
    [name |-> w.name,
     password |-> IF w.password = None THEN a.password ELSE w.password,
     default |-> a.default /\ w.password = None]

\* The account with what w asks for.
With(a, w) ==
    [name |-> IF w.name = None THEN a.name ELSE w.name,
     password |-> IF w.password = None THEN a.password ELSE w.password,
     default |-> a.default /\ w.password = None]

\* Wrong variant of PolicyAllows: the old name is looked at.
BugPolicyAllows(a, w) == w.password # None => w.password \notin {Default, a.name}

\* assertPasswordPolicy; a change of the name alone is not looked at.
PolicyAllows(a, w) == w.password # None => w.password \notin {Default, With(a, w).name}

\* The current password is wrong, nothing is asked for, or the policy forbids it.
UpdateRefused(c) ==
    /\ Leaves(c, "updating", "done")
    /\ \/ ~Verified(c)
       \/ wanted[c] = [name |-> None, password |-> None]
       \/ ~PolicyAllows(copy[c], wanted[c])
    /\ UNCHANGED <<process, store, touching, failures, past>>

Updating == {c \in Calls : pc[c] = "updating"}

\* Verified, and hashed: the whole account is saved as it was read, with the
\* changes.
UpdateSaved(c) ==
    LET new == wanted[c].password # None
    IN  /\ Leaves(c, "updating", IF new THEN "deleting" ELSE "done")
        /\ Verified(c)
        /\ wanted[c] # [name |-> None, password |-> None]
        /\ PolicyAllows(copy[c], wanted[c])
        /\ admin' = With(copy[c], wanted[c])
        /\ latest' = IF crossed \/ Updating # {c} THEN admin' ELSE With(latest, wanted[c])
        /\ crossed' = (Updating # {c})
        /\ renamed' = ~new
        /\ epoch' = epoch + IF new THEN 1 ELSE 0
        /\ excused' = IF new THEN excused \cup {d \in Calls : pc[d] = "verifying"}
                      ELSE excused
        /\ UNCHANGED <<process, sessions, touching, failures, readAt>>

\* Wrong variant of DeletesSessions: the one that asked is kept.
BugDeletesSessions(c) ==
    /\ Steps(c, "deleting", "done")
    /\ sessions' \in {sessions \cap {t} : t \in Tokens}
    /\ excused' = excused \cup touching
    /\ UNCHANGED <<process, admin, touching, failures, inputs, epoch, readAt, latest, crossed, renamed>>

DeletesSessions(c) ==
    /\ Steps(c, "deleting", "done")
    /\ sessions' = {}
    /\ excused' = excused \cup touching
    /\ UNCHANGED <<process, admin, touching, failures, inputs, epoch, readAt, latest, crossed, renamed>>

\* The password is saved, the deletion is refused: the sessions stay.
DeletionFails(c) ==
    /\ Steps(c, "deleting", "done")
    /\ excused' = excused \cup sessions \cup touching
    /\ UNCHANGED <<process, store, touching, failures, inputs, epoch, readAt, latest, crossed, renamed>>

Next ==
    \/ Boot \/ Crash \/ Expire \/ Tick \/ Seen \/ Touched \/ Logout
    \/ \E ip \in Clients : CaptchaWrong(ip)
    \/ \E c \in Calls :
          \/ LoginAdmitted(c) \/ LoginSucceeds(c) \/ LoginFails(c)
          \/ UpdateStarts(c) \/ UpdateRefused(c) \/ UpdateSaved(c)
          \/ DeletesSessions(c) \/ DeletionFails(c)

Spec == Init /\ [][Next]_vars

-----------------------------------------------------------------------------
(* Properties *)

\* Every variable has its type.
TypeOK ==
    /\ admin \in Account \cup {None} /\ latest \in Account \cup {None}
    /\ up => admin # None
    /\ sessions \subseteq Tokens
    /\ touching \subseteq Tokens /\ excused \subseteq Tokens
    /\ failures \in [Clients -> Bucket \cup {None}]
    /\ pc \in [Calls -> {"idle", "verifying", "updating", "deleting", "done"}]
    /\ copy \in [Calls -> Account \cup {None}]
    /\ epoch \in 0..Cardinality(Calls) /\ restarts \in 0..MaxRestarts

\* Once a change of the password is complete, every session comes from a
\* login that read the account after it, except for those of logins that were
\* being verified while it was saved, sessions whose lastSeenAt was being saved
\* meanwhile, and sessions that a failed deletion or a crash left.
OldPasswordIsOut ==
    (\A c \in Calls : pc[c] # "deleting") =>
        \A t \in sessions \ excused : readAt[t] = epoch

\* usingDefaultPassword tells whether the password is the default; a password
\* is the name only by a change of the name alone; and what a change saved
\* stays until the next, unless another was under way when it was saved.
AccountIsSound ==
    admin # None =>
        /\ admin.default <=> admin.password = Default
        /\ admin.password = admin.name => renamed
        /\ ~crossed => admin = latest

\* A lock loses no time but by the clock, except by a login that succeeds, a
\* restart, or the failure of a login that began before the lock and ends
\* after the window of the bucket.
LockoutLasts ==
    [][\A ip \in Clients : Locked(failures[ip]) =>
        \/ failures'[ip] # None /\ failures'[ip].left >= failures[ip].left
        \/ failures' = [i \in Clients |-> BucketAges(failures[i])]
        \/ \E c \in Calls : /\ client[c] = ip /\ pc[c] = "verifying" /\ pc'[c] = "done"
                            /\ c \in sessions' \/ failures[ip].age >= Window
        \/ ~up']_vars
=============================================================================
