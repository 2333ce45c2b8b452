--------------------------- MODULE ServerRegistry ---------------------------
(***************************************************************************)
(* The caddy_servers rows and the calls of ServersService that work on     *)
(* them.  A call reads the whole entity, awaits remote commands and        *)
(* queries, and saves the whole entity, so what it saves may be older than *)
(* the row.  An action ends where the code awaits.                         *)
(*                                                                         *)
(* A row is a record: target stands for host key, unit and file; key is    *)
(* the target that targetKey names, and legacy says that it has the suffix *)
(* of the TargetIdentity migration; method and secrets are how to log in;  *)
(* status and recent are lastConnectionStatus and whether lastConnectedAt  *)
(* is within 5 minutes.  Other columns move with these and are left out.   *)
(***************************************************************************)
EXTENDS Naturals, FiniteSets

CONSTANTS Ids,      \* ids of rows
          Targets,  \* physical targets
          Secrets,  \* a login method is named for the secret that it needs
          Calls,    \* calls that await something, each made once
          None      \* no row, or a field that the request does not have

ASSUME RegistryConstants == None \notin Targets \cup Secrets

VARIABLES
    rows,     \* rows[id], or None
    unborn,   \* ids that no row has had
    pc,       \* where each call stands
    kind,     \* what it is
    on,       \* the id it works on
    copy,     \* its entity
    latest,   \* history: what the last change left of each row
    crossed,  \* history: rows last changed while a call held a copy to save
    heard,    \* history: whether the last call on a row's host went well
    mixed,    \* history: rows on which calls overlapped since one that had
              \* the host for itself
    raced     \* history: rows written without a check, or checked when another
              \* call took their target

vars == <<rows, unborn, pc, kind, on, copy, latest, crossed, heard, mixed, raced>>

call == <<kind, on>>
past == <<latest, crossed, heard, mixed, raced>>

Row == [target : Targets, key : Targets, legacy : BOOLEAN,
        method : Secrets, secrets : SUBSET Secrets,
        status : {"none", "ok", "failed"}, recent : BOOLEAN]

ASSUME NoRow == None \notin Row

Kinds == {"use", "rediscover", "create", "update"}

\* What the migration and earlier runs leave: legacy rows may share a target.
Init ==
    /\ rows \in [Ids -> {None} \cup
          {r \in Row : /\ r.key = r.target /\ r.secrets = {r.method}
                       /\ r.status = "none" /\ ~r.recent}]
    /\ \A a, b \in Ids : /\ a # b /\ None \notin {rows[a], rows[b]}
                         /\ rows[a].target = rows[b].target
                         => rows[a].legacy /\ rows[b].legacy
    /\ unborn = {id \in Ids : rows[id] = None}
    /\ pc = [c \in Calls |-> "idle"]
    /\ kind = [c \in Calls |-> "use"]
    /\ on = [c \in Calls |-> None]
    /\ copy = [c \in Calls |-> None]
    /\ latest = rows
    /\ crossed = {}
    /\ heard = [id \in Ids |-> "none"]
    /\ mixed = {}
    /\ raced = {}

-----------------------------------------------------------------------------
(* The table *)

InFlight(id) == {c \in Calls : on[c] = id /\ pc[c] \notin {"idle", "done"}}

\* Another row under the same unique key, which IDX_caddy_server_target refuses.
KeyTaken(id, r) == \E other \in Ids \ {id} :
    /\ rows[other] # None
    /\ rows[other].key = r.key
    /\ ~rows[other].legacy /\ ~r.legacy

\* Wrong variant of Unavailable: the query takes one match, and finds the row.
BugUnavailable(id, target) ==
    /\ rows[id] = None \/ rows[id].target # target
    /\ \E other \in Ids \ {id} : rows[other] # None /\ rows[other].target = target

\* assertTargetAvailable: another row has the target, whatever its key.
Unavailable(id, target) ==
    \E other \in Ids \ {id} : rows[other] # None /\ rows[other].target = target

\* What a change makes of a row; connection diagnostics are no change.
Change(r) == IF r = None THEN None
             ELSE [target |-> r.target, method |-> r.method, secrets |-> r.secrets]

\* The calls whose check is void when c takes the target t: its own, if it made
\* none, and those that found the target free.
Overtaken(c, t) == {d \in Calls : IF d = c THEN pc[d] # "checked"
                                  ELSE pc[d] = "checked" /\ copy[d].target = t}

\* The save of an entity writes all that differs, or inserts the row again.
Writes(c, r) ==
    /\ ~KeyTaken(on[c], r)
    /\ rows' = [rows EXCEPT ![on[c]] = r]
    /\ raced' = IF rows[on[c]] = None \/ rows[on[c]].target # r.target
                THEN raced \cup {on[d] : d \in Overtaken(c, r.target)}
                ELSE raced

\* Calls that save the entity that they have read, whatever becomes of them.
Diagnosing(id) == {c \in InFlight(id) : pc[c] = "connecting"}

\* Calls that may still save an entity read before now.
Savers(id) == Diagnosing(id) \cup
    {c \in InFlight(id) : \/ pc[c] \in {"read", "checked", "kept"}
                          \/ pc[c] = "working" /\ kind[c] = "rediscover"}

Changes(id, r, savers) ==
    /\ latest' = [latest EXCEPT ![id] = r]
    /\ crossed' = IF savers # {} THEN crossed \cup {id} ELSE crossed \ {id}

Steps(c, from, to) == pc[c] = from /\ pc' = [pc EXCEPT ![c] = to]

-----------------------------------------------------------------------------
(* Requests *)

\* A call that talks to the host reads the row and asks for a connection.
Starts(c, id, k) ==
    /\ rows[id] # None
    /\ Steps(c, "idle", IF k = "update" THEN "read" ELSE "connecting")
    /\ kind' = [kind EXCEPT ![c] = k]
    /\ on' = [on EXCEPT ![c] = id]
    /\ mixed' = IF InFlight(id) # {} THEN mixed \cup {id}
                ELSE IF k = "update" THEN mixed ELSE mixed \ {id}
    /\ UNCHANGED <<rows, unborn, latest, crossed, heard, raced>>

\* status, logs, and the calls of CaddyService that go through withSession.
Use(c) == \E id \in Ids :
    /\ Starts(c, id, "use")
    /\ copy' = [copy EXCEPT ![c] = rows[id]]

Rediscover(c) == \E id \in Ids :
    /\ Starts(c, id, "rediscover")
    /\ copy' = [copy EXCEPT ![c] = rows[id]]

\* validateCredentials
Complete(method, secrets) == method \in secrets

\* The entity with what the request has: stored secrets stay beside new ones.
Merged(r, target, method, given) ==
    [r EXCEPT !.target = IF target = None THEN r.target ELSE target,
              !.method = IF method = None THEN r.method ELSE method,
              !.secrets = r.secrets \cup given]

\* update: a method without its secret is refused.
Update(c) == \E id \in Ids, target \in Targets \cup {None},
             method \in Secrets \cup {None}, given \in SUBSET Secrets :
    LET r == Merged(rows[id], target, method, given)
    IN  /\ Starts(c, id, "update")
        /\ Complete(r.method, r.secrets)
        /\ copy' = [copy EXCEPT ![c] = r]

\* create: a fresh id; the request must have the secret that its method needs.
Create(c) == \E id \in unborn, target \in Targets, method \in Secrets,
             given \in SUBSET Secrets :
    /\ Complete(method, given)
    /\ Steps(c, "idle", "read")
    /\ unborn' = unborn \ {id}
    /\ kind' = [kind EXCEPT ![c] = "create"]
    /\ on' = [on EXCEPT ![c] = id]
    /\ copy' = [copy EXCEPT ![c] =
          [target |-> target, key |-> target, legacy |-> FALSE,
           method |-> method, secrets |-> given, status |-> "none", recent |-> FALSE]]
    /\ UNCHANGED <<rows, past>>

\* remove, of a server without active operations (OperationQueue has those).
Remove(id) ==
    /\ rows[id] # None
    /\ rows' = [rows EXCEPT ![id] = None]
    /\ Changes(id, None, Savers(id))
    /\ UNCHANGED <<unborn, pc, call, copy, heard, mixed, raced>>

-----------------------------------------------------------------------------
(* withSession *)

\* Wrong variant of RecentlySeen: only the time counts.
BugRecentlySeen(r) == r.recent

RecentlySeen(r) == r.status = "ok" /\ r.recent

\* The connection is there; an entity that was not recently seen is saved.
Connected(c) ==
    /\ Steps(c, "connecting", "working")
    /\ IF RecentlySeen(copy[c])
       THEN UNCHANGED <<rows, copy, raced>>
       ELSE LET seen == [copy[c] EXCEPT !.status = "ok", !.recent = TRUE]
            IN  /\ copy' = [copy EXCEPT ![c] = seen]
                /\ Writes(c, seen)
    /\ UNCHANGED <<unborn, call, latest, crossed, heard, mixed>>

\* No connection; the save of the entity is refused; or the call itself fails.
Fails(c) ==
    /\ \/ Steps(c, "connecting", "failing")
       \/ Steps(c, "working", "failing")
    /\ UNCHANGED <<rows, unborn, call, copy, past>>

Succeeds(c) ==
    /\ kind[c] = "use"
    /\ Steps(c, "working", "done")
    /\ heard' = [heard EXCEPT ![on[c]] = "ok"]
    /\ UNCHANGED <<rows, unborn, call, copy, latest, crossed, mixed, raced>>

\* Wrong variant of SavesDiagnostics: the entity is saved as it is.
BugSavesDiagnostics(c) ==
    /\ Steps(c, "failing", "done")
    /\ rows[on[c]] # None
    /\ Writes(c, [copy[c] EXCEPT !.status = "failed"])
    /\ heard' = [heard EXCEPT ![on[c]] = "failed"]
    /\ UNCHANGED <<unborn, call, copy, latest, crossed, mixed>>

\* Only the status is persisted: the entity may have been changed since.
SavesDiagnostics(c) ==
    /\ Steps(c, "failing", "done")
    /\ rows' = IF rows[on[c]] = None THEN rows
               ELSE [rows EXCEPT ![on[c]].status = "failed"]
    /\ heard' = [heard EXCEPT ![on[c]] = "failed"]
    /\ UNCHANGED <<unborn, call, copy, latest, crossed, mixed, raced>>

-----------------------------------------------------------------------------
(* create, update, rediscover: check that the target is free, then save *)

\* Discovery has found a supported service with a valid selection, or none
\* that is supported, which leaves the target as it is and is not checked.
Discovers(c) ==
    /\ kind[c] = "rediscover" /\ pc[c] = "working"
    /\ pc' = [pc EXCEPT ![c] = "read"]
    /\ \E target \in Targets : copy' = [copy EXCEPT ![c].target = target]
    /\ UNCHANGED <<rows, unborn, call, past>>

FindsNothing(c) ==
    /\ kind[c] = "rediscover"
    /\ Steps(c, "working", "kept")
    /\ UNCHANGED <<rows, unborn, call, copy, past>>

\* Wrong variant of Refused: the call is left in no known state.
BugRefused(c) == IF kind[c] = "rediscover" THEN "failed" ELSE "done"

\* An error of rediscover goes through withSession, others to the user only.
Refused(c) == IF kind[c] = "rediscover" THEN "failing" ELSE "done"

\* assertTargetAvailable, and the new key.
Checks(c) ==
    /\ pc[c] = "read"
    /\ IF Unavailable(on[c], copy[c].target)
       THEN /\ pc' = [pc EXCEPT ![c] = Refused(c)]
            /\ UNCHANGED copy
       ELSE /\ pc' = [pc EXCEPT ![c] = "checked"]
            /\ copy' = [copy EXCEPT ![c].key = copy[c].target, ![c].legacy = FALSE]
    /\ UNCHANGED <<rows, unborn, call, past>>

\* The entity of a row that has been removed since is inserted: no change that
\* anybody asked for.
Revives(c) == rows[on[c]] = None /\ kind[c] # "create"

Saves(c) ==
    /\ Steps(c, "checked", "done") \/ Steps(c, "kept", "done")
    /\ Writes(c, copy[c])
    /\ IF Revives(c) THEN UNCHANGED <<latest, crossed>>
       ELSE Changes(on[c], copy[c], Diagnosing(on[c]))
    /\ heard' = IF kind[c] = "rediscover" THEN [heard EXCEPT ![on[c]] = "ok"] ELSE heard
    /\ UNCHANGED <<unborn, call, copy, mixed>>

\* saveServer: the unique index refuses the key.
SaveRefused(c) ==
    /\ Steps(c, "checked", Refused(c)) \/ Steps(c, "kept", Refused(c))
    /\ KeyTaken(on[c], copy[c])
    /\ UNCHANGED <<rows, unborn, call, copy, past>>

\* Five minutes pass for every lastConnectedAt, in rows and in entities.
Ages(r) == IF r = None THEN None ELSE [r EXCEPT !.recent = FALSE]

TimePasses ==
    /\ rows' = [id \in Ids |-> Ages(rows[id])]
    /\ copy' = [c \in Calls |-> Ages(copy[c])]
    /\ UNCHANGED <<unborn, pc, call, past>>

Next ==
    \/ \E c \in Calls :
          \/ Use(c) \/ Rediscover(c) \/ Update(c) \/ Create(c)
          \/ Connected(c) \/ Fails(c) \/ Succeeds(c) \/ SavesDiagnostics(c)
          \/ Discovers(c) \/ FindsNothing(c) \/ Checks(c) \/ Saves(c) \/ SaveRefused(c)
    \/ \E id \in Ids : Remove(id)
    \/ TimePasses

Spec == Init /\ [][Next]_vars

-----------------------------------------------------------------------------
(* Properties *)

\* Every variable has its type.
TypeOK ==
    /\ rows \in [Ids -> Row \cup {None}]
    /\ unborn \subseteq Ids
    /\ pc \in [Calls -> {"idle", "connecting", "working", "read", "checked",
                         "kept", "failing", "done"}]
    /\ kind \in [Calls -> Kinds]
    /\ on \in [Calls -> Ids \cup {None}]
    /\ copy \in [Calls -> Row \cup {None}]
    /\ heard \in [Ids -> {"none", "ok", "failed"}]
    /\ crossed \in SUBSET Ids /\ mixed \in SUBSET Ids /\ raced \in SUBSET Ids

\* The key of a row names its target, its login is complete, and two rows share
\* a target only if the migration left them so or a check was void (a stale
\* entity, or check and save of two calls interleaved), and then one of them at
\* most has the plain key (assertTargetAvailable, saveServer, the unique index).
TargetsAreUnique ==
    \A a \in Ids : rows[a] # None =>
        /\ rows[a].key = rows[a].target
        /\ Complete(rows[a].method, rows[a].secrets)
        /\ \A b \in Ids \ {a} :
              rows[b] # None /\ rows[a].target = rows[b].target =>
                  /\ rows[a].legacy \/ rows[b].legacy
                  /\ (rows[a].legacy /\ rows[b].legacy) \/ {a, b} \cap raced # {}

\* A row is what its last change (create, update, rediscover, remove) made of
\* it, unless a call that waited for its connection then had read it before; and
\* a removed row stays away, unless a call that may still save it had.  In
\* particular a call that fails changes nothing but the status
\* (servers.service.ts:230).
RowTellsLastChange ==
    \A id \in Ids \ crossed : Change(rows[id]) = Change(latest[id])

\* Where calls did not overlap, lastConnectionStatus is the outcome of the
\* last call to the host, although a call to a host seen recently saves nothing.
StatusTellsLastCall ==
    \A id \in Ids \ mixed :
        rows[id] # None /\ InFlight(id) = {} => rows[id].status = heard[id]
=============================================================================
