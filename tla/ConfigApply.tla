----------------------------- MODULE ConfigApply -----------------------------
(***************************************************************************)
(* How CaddyService changes the configuration of one physical target:      *)
(* queueConfigChange and applyUnderLock (apply, restore, recovery),        *)
(* queueServiceAction, and the snapshots that read() takes without the     *)
(* lock.  The target is a file on a remote host that other programs edit,  *)
(* and a Caddy service that loads it.                                      *)
(*                                                                         *)
(* A remote command is an action on the host with an answer.  The answer   *)
(* can be lost (timeout, broken connection), whether or not the command    *)
(* had its effect; a command given up after a timeout may still be at      *)
(* work on the host and have its effect later (stray).  A file stands for  *)
(* its content, and a content for its SHA-256.                             *)
(***************************************************************************)
EXTENDS Naturals, FiniteSets

CONSTANTS Ops,          \* operations on this target, each requested once
          Contents,     \* contents of the configuration file
          Initial,      \* what the file holds, and Caddy runs, at first
          Drafts,       \* what users apply
          Edits,        \* what other programs write, each at most once
          Unloadable,   \* contents that pass validation and fail to load
          None,         \* no such file
          KeepBackups,  \* backups that pruning leaves (5 in the code)
          MaxFaults,    \* bound: failed or unanswered commands and saves
          MaxCrashes    \* bound: crashes of the API process

ASSUME ApplyConstants ==
    /\ Initial \in Contents \ (Edits \cup Unloadable)
    /\ Drafts \subseteq Contents
    /\ Edits \subseteq Contents
    /\ Unloadable \subseteq Contents
    /\ None \notin Contents
    /\ KeepBackups \in Nat \ {0}
    /\ MaxFaults \in Nat
    /\ MaxCrashes \in Nat

VARIABLES
    disk,       \* the configuration file
    live,       \* what Caddy loaded last
    active,     \* the service is active
    candidates, \* operations whose candidate file is beside the file
    backups,    \* the backup file of each operation, or None
    strays,     \* commands given up that are still at work on the host
    status,     \* status of each operation's row
    recorded,   \* operations whose row has a backupPath
    history,    \* contents of the revisions in the database
    pc,         \* where each operation is
    kind,       \* "config", "reload" or "restart"
    content,    \* what an operation is to install
    base,       \* what its author started from (baseHash)
    outcome,    \* what run() will save, in memory
    reason,     \* why it failed
    reader,     \* what a read() in progress has read, or None
    written,    \* contents other programs have written
    faults, crashes,
    replaced,   \* history: operations that replaced the file
    overwritten, \* history: what the file held when their candidate was moved
    disturbed,  \* history: whether another writer has written the file between
                \* an operation's "check" under the lock, its "compare", and
                \* the move of its candidate
    intruded    \* history: whether another writer has written the file since
                \* the last "check" under the lock, the last "compare"

host    == <<disk, live, active, candidates, backups, strays>>
db      == <<status, recorded, history>>
request == <<kind, content, base>>
result  == <<outcome, reason>>
env     == <<reader, written, crashes>>
moves   == <<replaced, overwritten, disturbed>>
vars    == <<host, db, pc, request, result, env, faults, moves, intruded>>

Held == {"service", "checking", "uploading", "validating", "baselining",
         "backing_up", "recording", "replacing", "moving", "reloading",
         "rolling_back", "reloading_old", "pruning", "persisting", "cleanup",
         "ending"}

Recoverable == {"failed", "interrupted", "needs_attention", "rolled_back"}

Statuses == Recoverable \cup {"none", "queued", "running", "succeeded"}

Reasons == {"none", "conflict", "inactive", "invalid", "remote"}

\* "replace" has yet to compare the hash, "move" has compared it.
Strays == [command : {"replace", "move", "restore", "reload", "restart"},
           op : Ops]

Init ==
    /\ disk = Initial
    /\ live = Initial
    /\ active = TRUE
    /\ candidates = {}
    /\ backups = [o \in Ops |-> None]
    /\ strays = {}
    /\ status = [o \in Ops |-> "none"]
    /\ recorded = {}
    /\ history = {}
    /\ pc = [o \in Ops |-> "idle"]
    /\ kind = [o \in Ops |-> "config"]
    /\ content = [o \in Ops |-> None]
    /\ base = [o \in Ops |-> None]
    /\ outcome = [o \in Ops |-> "none"]
    /\ reason = [o \in Ops |-> "none"]
    /\ reader = None
    /\ written = {}
    /\ faults = 0
    /\ crashes = 0
    /\ replaced = {}
    /\ overwritten = [o \in Ops |-> None]
    /\ disturbed = [o \in Ops |-> {"check", "compare"}]
    /\ intruded = {}

-----------------------------------------------------------------------------
(* Steps, failures and the host *)

Goto(o, from, to) ==
    /\ pc[o] = from
    /\ pc' = [pc EXCEPT ![o] = to]
    /\ UNCHANGED <<request, env>>

\* A step that works as it should leads on; nothing is decided yet.
Works(o, from, to) ==
    /\ Goto(o, from, to)
    /\ UNCHANGED <<result, faults>>

\* The runner has ended, and run() will save this outcome.
Ends(o, from, end, why) ==
    /\ Goto(o, from, "ending")
    /\ outcome' = [outcome EXCEPT ![o] = end]
    /\ reason' = [reason EXCEPT ![o] = why]

\* An exception.  While the candidate exists, finally removes it first.
Throws(o, from, why) ==
    /\ Goto(o, from, IF o \in candidates THEN "cleanup" ELSE "ending")
    /\ outcome' = [outcome EXCEPT ![o] = "failed"]
    /\ reason' = [reason EXCEPT ![o] = why]

\* A command that fails or is not answered, or a save that fails.
Fault == faults < MaxFaults /\ faults' = faults + 1

Loadable == active /\ disk \notin Unloadable

\* assertServiceActive and readInSession, when they are answered.
serviceIsActive == active
readInSession == disk

\* The file is written; whoever has not moved a candidate by then is disturbed.
WritesFile(c, moved) ==
    /\ disk' = c
    /\ replaced' = moved
    /\ disturbed' = [o \in Ops |-> IF o \in moved THEN disturbed[o]
                                   ELSE {"check", "compare"}]

\* Effects of commands on the host.
MovesCandidate(o) ==
    /\ o \in candidates
    /\ WritesFile(content[o], replaced \cup {o})
    /\ overwritten' = [overwritten EXCEPT ![o] = disk]
    /\ candidates' = candidates \ {o}
    /\ UNCHANGED <<live, active, backups>>

LoadsDisk ==
    /\ Loadable
    /\ live' = disk
    /\ UNCHANGED <<disk, active, candidates, backups, moves>>

PutsBackupBack(o) ==
    /\ backups[o] # None
    /\ WritesFile(backups[o], replaced)
    /\ UNCHANGED <<live, active, candidates, backups, overwritten>>

NoEffect == UNCHANGED <<disk, live, active, candidates, backups, moves>>

\* A command is given up: it had its effect, never will, or is still at work.
GivenUp(effect, command, o) ==
    \/ (NoEffect \/ effect) /\ UNCHANGED strays
    \/ NoEffect /\ strays' = strays \cup {[command |-> command, op |-> o]}

-----------------------------------------------------------------------------
(* Requests: queueConfigChange, queueRecovery, queueServiceAction *)

Enqueues(o, k) ==
    /\ pc[o] = "idle"
    /\ pc' = [pc EXCEPT ![o] = "queued"]
    /\ kind' = [kind EXCEPT ![o] = k]
    /\ status' = [status EXCEPT ![o] = "queued"]
    /\ UNCHANGED <<host, recorded, history, result, env, faults, moves, intruded>>

\* The preflight has found the service active, the file as the author saw it
\* and the new content valid.
RequestChange(o, c) ==
    /\ serviceIsActive
    /\ Enqueues(o, "config")
    /\ content' = [content EXCEPT ![o] = c]
    /\ base' = [base EXCEPT ![o] = readInSession]

RequestApply(o) == \E c \in Drafts : RequestChange(o, c)

RequestRestore(o) == \E c \in history : RequestChange(o, c)

\* restoreBackup reads the backup file of an operation that did not succeed.
RequestRecovery(o) ==
    \E failed \in recorded :
        /\ status[failed] \in Recoverable
        /\ backups[failed] # None
        /\ RequestChange(o, backups[failed])

\* Also what retryReload does.
RequestService(o) ==
    /\ \E k \in {"reload", "restart"} : Enqueues(o, k)
    /\ UNCHANGED <<content, base>>

\* One operation at a time works on a target: the lock of OperationQueue.
Begin(o) ==
    /\ status[o] = "queued"
    /\ \A p \in Ops : pc[p] \notin Held
    /\ Works(o, "queued", IF kind[o] = "config" THEN "checking" ELSE "service")
    /\ status' = [status EXCEPT ![o] = "running"]
    /\ UNCHANGED <<host, recorded, history, moves, intruded>>

\* Wrong variant of End: the stage is saved as the status.
BugEnd(o) ==
    /\ Works(o, "ending", "ended")
    /\ status' = [status EXCEPT ![o] = IF outcome[o] = "succeeded"
                                       THEN "completed" ELSE outcome[o]]
    /\ UNCHANGED <<host, recorded, history, moves, intruded>>

\* The save in run's finally.
End(o) ==
    /\ Works(o, "ending", "ended")
    /\ status' = [status EXCEPT ![o] = outcome[o]]
    /\ UNCHANGED <<host, recorded, history, moves, intruded>>

-----------------------------------------------------------------------------
(* applyUnderLock, step by step *)

CheckPasses(o) ==
    /\ serviceIsActive /\ readInSession = base[o]
    /\ Works(o, "checking", "uploading")
    /\ intruded' = {} /\ disturbed' = [disturbed EXCEPT ![o] = {}]
    /\ UNCHANGED <<host, db, replaced, overwritten>>

CheckRejects(o) ==
    /\ \/ ~serviceIsActive /\ Throws(o, "checking", "inactive")
       \/ serviceIsActive /\ readInSession # base[o] /\ Throws(o, "checking", "conflict")
    /\ UNCHANGED <<host, db, faults, moves, intruded>>

Upload(o) ==
    /\ Works(o, "uploading", "validating")
    /\ candidates' = candidates \cup {o}
    /\ UNCHANGED <<disk, live, active, backups, strays, db, moves, intruded>>

\* A lost answer of `install` leaves a candidate that nobody removes: the try
\* that would do so has not begun.
UploadFails(o) ==
    /\ Fault
    /\ Throws(o, "uploading", "remote")
    /\ candidates' \in {candidates, candidates \cup {o}}
    /\ UNCHANGED <<disk, live, active, backups, strays, db, moves, intruded>>

Validate(o) ==
    /\ Works(o, "validating", "baselining")
    /\ UNCHANGED <<host, db, moves, intruded>>

\* caddy validate says no (the environment has changed since the preflight).
ValidateRejects(o) ==
    /\ Fault
    /\ Throws(o, "validating", "invalid")
    /\ UNCHANGED <<host, db, moves, intruded>>

EnsureRevision(o) ==
    /\ Works(o, "baselining", "backing_up")
    /\ history' = history \cup {base[o]}
    /\ UNCHANGED <<host, status, recorded, moves, intruded>>

\* cp copies what the file holds now.
Backup(o) ==
    /\ Works(o, "backing_up", "recording")
    /\ backups' = [backups EXCEPT ![o] = disk]
    /\ UNCHANGED <<disk, live, active, candidates, strays, db, moves, intruded>>

BackupFails(o) ==
    /\ Fault
    /\ Throws(o, "backing_up", "remote")
    /\ backups' \in {backups, [backups EXCEPT ![o] = disk]}
    /\ UNCHANGED <<disk, live, active, candidates, strays, db, moves, intruded>>

\* context.backup: from here on the row says where the backup is.
RecordBackup(o) ==
    /\ Works(o, "recording", "replacing")
    /\ recorded' = recorded \cup {o}
    /\ UNCHANGED <<host, status, history, moves, intruded>>

Compared(o) ==
    /\ disturbed' = [disturbed EXCEPT ![o] = @ \ {"compare"}]
    /\ UNCHANGED <<replaced, overwritten>>

\* Wrong variant of CompareHash: the check under the lock is thought enough.
BugCompareHash(o) ==
    /\ Works(o, "replacing", "moving")
    /\ intruded' = intruded \ {"compare"} /\ Compared(o)
    /\ UNCHANGED <<host, db>>

\* The remote script compares the hash ...
CompareHash(o) ==
    /\ disk = base[o]
    /\ Works(o, "replacing", "moving")
    /\ intruded' = intruded \ {"compare"} /\ Compared(o)
    /\ UNCHANGED <<host, db>>

\* Wrong variant of HashDiffers: the exit code is set after the move.
BugHashDiffers(o) ==
    /\ disk # base[o]
    /\ Throws(o, "replacing", "conflict")
    /\ MovesCandidate(o)
    /\ UNCHANGED <<strays, db, faults, intruded>>

HashDiffers(o) ==
    /\ disk # base[o]
    /\ Throws(o, "replacing", "conflict")
    /\ UNCHANGED <<host, db, faults, moves, intruded>>

\* ... and then moves the candidate over the file.
Replace(o) ==
    /\ Works(o, "moving", "reloading")
    /\ MovesCandidate(o)
    /\ UNCHANGED <<strays, db, intruded>>

\* Any answer but success, or none, is an exception, even after the move.
ReplaceFails(o) ==
    /\ Fault
    /\ \/ /\ Throws(o, "replacing", "remote")
          /\ GivenUp(NoEffect, "replace", o)
       \/ /\ Throws(o, "moving", "remote")
          /\ GivenUp(MovesCandidate(o), "move", o)
    /\ UNCHANGED <<db, intruded>>

\* Steps that fail before the replacement without a trace on the host.
StepFails(o) ==
    /\ Fault
    /\ \E step \in {"checking", "validating", "baselining", "recording"} :
          Throws(o, step, "remote")
    /\ UNCHANGED <<host, db, moves, intruded>>

\* finally: a failed removal is ignored.
Cleanup(o) ==
    /\ Goto(o, "cleanup", "ending")
    /\ \/ candidates' = candidates \ {o} /\ UNCHANGED faults
       \/ Fault /\ UNCHANGED candidates
    /\ UNCHANGED <<disk, live, active, backups, strays, db, result, moves, intruded>>

\* Wrong variant of Reload: its exit code is ignored.
BugReload(o) ==
    /\ Works(o, "reloading", "pruning")
    /\ live' = IF Loadable THEN disk ELSE live
    /\ UNCHANGED <<disk, active, candidates, backups, strays, db, moves, intruded>>

Reload(o) ==
    /\ Works(o, "reloading", "pruning")
    /\ LoadsDisk
    /\ UNCHANGED <<strays, db, intruded>>

\* The answer says that the reload failed, or that Caddy is not active.
Refused == \/ ~Loadable /\ NoEffect /\ UNCHANGED <<strays, faults>>
           \/ Fault /\ (NoEffect \/ LoadsDisk) /\ UNCHANGED strays

ReloadRefused(o) ==
    /\ Goto(o, "reloading", "rolling_back")
    /\ Refused
    /\ UNCHANGED <<result, db, intruded>>

Restore(o) ==
    /\ Works(o, "rolling_back", "reloading_old")
    /\ PutsBackupBack(o)
    /\ UNCHANGED <<strays, db, intruded>>

\* Wrong variant of RestoreRefused: the roll-back is not looked at.
BugRestoreRefused(o) ==
    /\ Ends(o, "rolling_back", "rolled_back", "none")
    /\ Fault
    /\ NoEffect \/ PutsBackupBack(o)
    /\ UNCHANGED <<strays, db, intruded>>

RestoreRefused(o) ==
    /\ Ends(o, "rolling_back", "needs_attention", "none")
    /\ Fault
    /\ NoEffect \/ PutsBackupBack(o)
    /\ UNCHANGED <<strays, db, intruded>>

\* Wrong variant of ReloadOld: the old file is back, but Caddy is not told.
BugReloadOld(o) ==
    /\ Ends(o, "reloading_old", "rolled_back", "none")
    /\ UNCHANGED <<host, db, faults, moves, intruded>>

ReloadOld(o) ==
    /\ Ends(o, "reloading_old", "rolled_back", "none")
    /\ LoadsDisk
    /\ UNCHANGED <<strays, db, faults, intruded>>

ReloadOldRefused(o) ==
    /\ Ends(o, "reloading_old", "needs_attention", "none")
    /\ Refused
    /\ UNCHANGED <<db, intruded>>

\* A command of the roll-forward or the roll-back that is not answered is an
\* exception: nothing is rolled back.
ReloadLost(o) ==
    /\ Fault
    /\ \/ /\ \E step \in {"reloading", "reloading_old"} : Throws(o, step, "remote")
          /\ GivenUp(LoadsDisk, "reload", o)
       \/ /\ Throws(o, "rolling_back", "remote")
          /\ GivenUp(PutsBackupBack(o), "restore", o)
    /\ UNCHANGED <<db, intruded>>

\* The newest by modification time stay.  cp and mv preserve that time, and
\* other programs may set it, so any of the backups may be the newest.
Kept == {o \in Ops : backups[o] # None}

Prune(o) ==
    /\ Works(o, "pruning", "persisting")
    /\ \E keep \in SUBSET Kept :
          /\ keep = Kept \/ Cardinality(keep) = KeepBackups
          /\ backups' = [p \in Ops |-> IF p \in keep THEN backups[p] ELSE None]
    /\ UNCHANGED <<disk, live, active, candidates, strays, db, moves, intruded>>

PruneStageFails(o) ==
    /\ Fault
    /\ Throws(o, "pruning", "remote")
    /\ UNCHANGED <<host, db, moves, intruded>>

SaveRevision(o) ==
    /\ Ends(o, "persisting", "succeeded", "none")
    /\ history' = history \cup {content[o]}
    /\ UNCHANGED <<host, status, recorded, faults, moves, intruded>>

SaveRevisionFails(o) ==
    /\ Ends(o, "persisting", "needs_attention", "none")
    /\ Fault
    /\ UNCHANGED <<host, db, moves, intruded>>

-----------------------------------------------------------------------------
(* queueServiceAction: reload or restart under the lock *)

\* A configuration that does not load leaves a restarted service inactive.
RestartsService ==
    /\ active' = (disk \notin Unloadable)
    /\ live' = IF disk \in Unloadable THEN live ELSE disk
    /\ UNCHANGED <<disk, candidates, backups, moves>>

ServiceActs(o) == IF kind[o] = "reload" THEN LoadsDisk ELSE RestartsService

ServiceWorks(o) ==
    /\ Ends(o, "service", "succeeded", "none")
    /\ ServiceActs(o) /\ active'
    /\ UNCHANGED <<strays, db, faults, intruded>>

ServiceFails(o) ==
    /\ Ends(o, "service", "failed", "remote")
    /\ \/ kind[o] = "reload" /\ Refused
       \/ /\ kind[o] = "restart" /\ RestartsService /\ ~active'
          /\ UNCHANGED <<strays, faults>>
       \/ Fault /\ GivenUp(ServiceActs(o), kind[o], o)
    /\ UNCHANGED <<db, intruded>>

-----------------------------------------------------------------------------
(* The surroundings *)

Unchanging == <<db, pc, request, result, faults>>

\* Another program, or an administrator, rewrites the file.
Edit(c) ==
    /\ c \notin written
    /\ WritesFile(c, replaced)
    /\ written' = written \cup {c}
    /\ intruded' = {"check", "compare"}
    /\ UNCHANGED <<live, active, candidates, backups, strays, Unchanging,
                   reader, crashes, overwritten>>

\* CaddyService.read takes no lock: what it read may be old when it is saved.
Read ==
    /\ reader = None
    /\ reader' = readInSession
    /\ UNCHANGED <<host, Unchanging, written, crashes, moves, intruded>>

SnapshotRemoteConfig ==
    /\ reader # None
    /\ history' = history \cup {reader}
    /\ reader' = None
    /\ UNCHANGED <<host, status, recorded, pc, request, result, faults,
                   written, crashes, moves, intruded>>

\* A command that was given up has its effect after all, or fails.
StrayActs(s) ==
    LET o == s.op
        rest == strays \ {s}
    IN /\ UNCHANGED <<Unchanging, env>>
       /\ \/ /\ s.command = "replace" /\ disk = base[o]
             /\ strays' = rest \cup {[command |-> "move", op |-> o]}
             /\ Compared(o)
             /\ UNCHANGED <<disk, live, active, candidates, backups, intruded>>
          \/ /\ s.command = "move" /\ MovesCandidate(o)
             /\ strays' = rest /\ intruded' = {"check", "compare"}
          \/ /\ s.command = "restore" /\ PutsBackupBack(o)
             /\ strays' = rest /\ intruded' = {"check", "compare"}
          \/ /\ s.command = "reload" /\ LoadsDisk
             /\ strays' = rest /\ UNCHANGED intruded
          \/ /\ s.command = "restart" /\ RestartsService
             /\ strays' = rest /\ UNCHANGED intruded
          \/ NoEffect /\ strays' = rest /\ UNCHANGED intruded

\* The command an operation is waiting for.
Pending(o) ==
    LET commands ==
          CASE pc[o] = "replacing" -> {"replace"}
            [] pc[o] = "moving" -> {"move"}
            [] pc[o] = "rolling_back" -> {"restore"}
            [] pc[o] \in {"reloading", "reloading_old"} -> {"reload"}
            [] pc[o] = "service" -> {kind[o]}
            [] OTHER -> {}
    IN [command : commands, op : {o}]

\* The process dies; when it is back, DatabaseBootstrapService marks what was
\* queued or running.  The command in flight may go on.
Crash ==
    /\ crashes < MaxCrashes
    /\ crashes' = crashes + 1
    /\ \E inFlight \in SUBSET UNION {Pending(o) : o \in Ops} :
          strays' = strays \cup inFlight
    /\ pc' = [o \in Ops |-> IF pc[o] \in Held \cup {"queued"}
                            THEN "ended" ELSE pc[o]]
    /\ status' = [o \in Ops |-> IF status[o] \in {"queued", "running"}
                                THEN "interrupted" ELSE status[o]]
    /\ reader' = None
    /\ UNCHANGED <<disk, live, active, candidates, backups, recorded, history,
                   request, result, written, faults, moves, intruded>>

-----------------------------------------------------------------------------
Requests(o) == \/ RequestApply(o) \/ RequestRestore(o) \/ RequestRecovery(o)
               \/ RequestService(o)

Change(o) ==
    \/ CheckPasses(o) \/ CheckRejects(o) \/ Upload(o) \/ UploadFails(o)
    \/ Validate(o) \/ ValidateRejects(o) \/ EnsureRevision(o)
    \/ Backup(o) \/ BackupFails(o) \/ RecordBackup(o)
    \/ CompareHash(o) \/ HashDiffers(o) \/ Replace(o) \/ ReplaceFails(o)
    \/ StepFails(o) \/ Cleanup(o)

Activate(o) ==
    \/ Reload(o) \/ ReloadRefused(o) \/ ReloadLost(o)
    \/ Restore(o) \/ RestoreRefused(o) \/ ReloadOld(o) \/ ReloadOldRefused(o)
    \/ Prune(o) \/ PruneStageFails(o)
    \/ SaveRevision(o) \/ SaveRevisionFails(o)

Next ==
    \/ \E o \in Ops : \/ Requests(o) \/ Begin(o) \/ Change(o) \/ Activate(o)
                      \/ ServiceWorks(o) \/ ServiceFails(o) \/ End(o)
    \/ \E c \in Edits : Edit(c)
    \/ Read \/ SnapshotRemoteConfig
    \/ \E s \in strays : StrayActs(s)
    \/ Crash

Spec == Init /\ [][Next]_vars

-----------------------------------------------------------------------------
(* Correctness *)

TypeOK ==
    /\ {disk, live} \subseteq Contents
    /\ active \in BOOLEAN
    /\ candidates \subseteq Ops /\ recorded \subseteq Ops /\ replaced \subseteq Ops
    /\ overwritten \in [Ops -> Contents \cup {None}]
    /\ disturbed \in [Ops -> SUBSET {"check", "compare"}]
    /\ backups \in [Ops -> Contents \cup {None}]
    /\ strays \subseteq Strays
    /\ status \in [Ops -> Statuses]
    /\ history \subseteq Contents
    /\ pc \in [Ops -> Held \cup {"idle", "queued", "ended"}]
    /\ kind \in [Ops -> {"config", "reload", "restart"}]
    /\ content \in [Ops -> Contents \cup {None}]
    /\ base \in [Ops -> Contents \cup {None}]
    /\ outcome \in [Ops -> Recoverable \cup {"none", "succeeded"}]
    /\ reason \in [Ops -> Reasons]
    /\ reader \in Contents \cup {None}
    /\ written \subseteq Edits
    /\ faults \in 0..MaxFaults /\ crashes \in 0..MaxCrashes
    /\ intruded \subseteq {"check", "compare"}

\* Whoever is told that a change succeeded has it on the disk and in Caddy,
\* provided nobody else wrote the file in the meantime.
SucceededIsLive ==
    \A o \in Ops :
        (/\ pc[o] = "ending" /\ kind[o] = "config" /\ outcome[o] = "succeeded"
         /\ "compare" \notin intruded)
            => disk = content[o] /\ live = content[o]

\* Whoever is told that a change was rolled back has the previous content on
\* the disk and in Caddy again, provided nobody else wrote the file.
RolledBackIsRestored ==
    \A o \in Ops :
        pc[o] = "ending" /\ outcome[o] = "rolled_back" /\ "check" \notin intruded
            => disk = base[o] /\ live = base[o]

\* What an operation overwrites can be brought back, whatever happens next, also
\* when the process dies or the command has its effect late.  What the author saw
\* is a revision, so is the content that the file held at the move, and the backup
\* that the row names holds it as well, unless pruning has removed it.
\* Two exceptions: what another writer (a program, or a command that was given up)
\* puts there between the comparison of the script and its move may be in neither;
\* and the backup may be a copy of something else when another writer came between
\* the check under the lock and the move.  The roll-back is not covered: it
\* compares what it overwrites with nothing.
ReplacedIsRecoverable ==
    \A o \in replaced :
        /\ overwritten[o] \in history \/ "compare" \in disturbed[o]
        /\ base[o] \in history /\ o \in recorded
        /\ backups[o] \in {None, overwritten[o]} \/ "check" \in disturbed[o]

\* A change that is refused (conflict, stopped service, invalid) has not
\* touched the file, and will not.
RefusedIsHarmless ==
    \A o \in Ops :
        status[o] = "failed" /\ reason[o] \in {"conflict", "inactive", "invalid"}
            => o \notin replaced

\* If nobody else ever wrote the file, then whenever no operation is at work
\* Caddy runs what is on the disk, or some operation that replaced it says that
\* it needs recovery, whatever commands that were given up do late.
DivergenceIsReported ==
    written = {} /\ disk # live /\ (\A o \in Ops : pc[o] \notin Held)
        => \E o \in replaced : status[o] \in Recoverable \ {"rolled_back"}

\* The candidate of an operation replaces only the content that its author saw,
\* unless another writer comes between the comparison and the move, also when its
\* command was given up and has its effect late.
ReplacesItsBase ==
    [][\A o \in replaced' \ replaced :
          disk = base[o] \/ "compare" \in disturbed[o]]_vars

-----------------------------------------------------------------------------
(* What the repository says of the program, and the program does not do *)

\* The dialog that confirms a change promises that the backup is restored
\* when the change fails (config.vue: "restored automatically on failure").
FailureRestoresBackup ==
    \A o \in replaced :
        pc[o] = "ending" /\ outcome[o] = "failed" /\ "check" \notin intruded
            => disk = base[o]

\* The stage before the replacement calls it atomic, and a test says that the
\* replacement command detects a change made at the last moment.
ReplacementIsAtomic ==
    [][\A o \in Ops : o \in replaced' \ replaced => disk = base[o]]_vars
=============================================================================
