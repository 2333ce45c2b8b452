-------------------------- MODULE ConfigApplyProofs --------------------------
(***************************************************************************)
(* Proofs, for any operations, contents, faults and crashes, of what       *)
(* ConfigApply promises whoever changes a configuration.                   *)
(***************************************************************************)
EXTENDS ConfigApply, TLAPS

\* Where an operation has not replaced the file yet, on its own at least, ...
Early == {"idle", "queued", "service", "checking", "uploading", "validating",
          "baselining", "backing_up", "recording", "replacing", "moving"}

\* ... where it has, ...
Late == {"reloading", "rolling_back", "reloading_old", "pruning", "persisting"}

\* ... and where its outcome is known.
Over == {"cleanup", "ending", "ended"}

Configures == (Held \ {"service", "ending"})

Failed == {"failed", "interrupted", "needs_attention"}

\* The row follows what the process does.
StatusFollows ==
    \A o \in Ops :
        /\ pc[o] = "idle" <=> status[o] = "none"
        /\ pc[o] = "queued" <=> status[o] = "queued"
        /\ pc[o] \in Held <=> status[o] = "running"
        /\ pc[o] = "ending" => outcome[o] \in {"failed", "needs_attention", "rolled_back",
                                               "succeeded"}
        /\ pc[o] = "cleanup" => outcome[o] = "failed"

OneAtATime == \A o, p \in Ops : pc[o] \in Held /\ pc[p] \in Held => o = p

\* What installs a configuration knows which one.
KnowsItsContent ==
    \A o \in Ops :
        /\ pc[o] \in Configures => kind[o] = "config"
        /\ pc[o] = "service" => kind[o] # "config"
        /\ pc[o] # "idle" /\ kind[o] = "config" => {content[o], base[o]} \subseteq Contents
        /\ o \in candidates \cup replaced => pc[o] \notin {"idle", "queued"} /\ kind[o] = "config"

\* A command that was given up belongs to an operation that fails or was
\* interrupted, and is a step that this operation had come to.
StraysAreReported ==
    \A s \in strays :
        /\ pc[s.op] \in Over
        /\ pc[s.op] # "ended" => outcome[s.op] = "failed"
        /\ pc[s.op] = "ended" => status[s.op] \in {"failed", "interrupted"}
        /\ reason[s.op] \in {"none", "remote"}
        /\ s.command \in {"replace", "move"} => base[s.op] \in history /\ s.op \in recorded
        /\ s.command = "restore" => s.op \in replaced

\* Who has replaced the file has got far enough, and no reason to refuse.
ReplacedLate ==
    \A o \in Ops :
        /\ o \in replaced => pc[o] \in Late \cup Over /\ reason[o] \in {"none", "remote"}
        /\ pc[o] \in Late => o \in replaced
        /\ pc[o] \notin Over => reason[o] = "none"

\* The revision and the backup come first.
SavedBefore ==
    \A o \in Ops :
        /\ pc[o] \in {"backing_up", "recording", "replacing", "moving"} => base[o] \in history
        /\ pc[o] \in {"replacing", "moving"} => o \in recorded

\* So are those of what was replaced.
ReplacedIsSaved == \A o \in replaced : base[o] \in history /\ o \in recorded

\* Who has a candidate has not moved it.
CandidatesAreNew == candidates \cap replaced = {}

\* A command given up that may move a candidate is the only one that may, and
\* nothing has moved it before.
OneMove ==
    \A s \in strays : s.command \in {"replace", "move"} =>
        /\ s.op \notin replaced
        /\ \A t \in strays : t.op = s.op /\ t.command \in {"replace", "move"} => t = s

\* Another writer before the comparison came before the move as well.
DisturbedInOrder == \A o \in Ops : "compare" \in disturbed[o] => "check" \in disturbed[o]

\* A command given up that may move the candidate, or will.
Moving(o, commands) == \E s \in strays : s.op = o /\ s.command \in commands

\* Unless another writer came after the check, the file is what was checked, up
\* to the move, and so is the backup.
BackupIsOfBase ==
    \A o \in Ops : "check" \notin disturbed[o] =>
        /\ pc[o] \in {"uploading", "validating", "baselining", "backing_up", "recording",
                       "replacing", "moving"} => disk = base[o]
        /\ \/ pc[o] \in {"recording", "replacing", "moving"}
           \/ Moving(o, {"replace", "move"}) \/ o \in replaced
           => backups[o] \in {None, base[o]}

\* Unless another writer came after the comparison, the move overwrites what was
\* compared, and has.
MovesItsBase ==
    \A o \in Ops : "compare" \notin disturbed[o] =>
        /\ o \notin replaced /\ (pc[o] = "moving" \/ Moving(o, {"move"})) => disk = base[o]
        /\ o \in replaced => overwritten[o] = base[o]

\* What a step moves is the base, unless another writer came after the comparison.
MovesAreSeen ==
    \A o \in replaced' \ replaced : disk = base[o] \/ "compare" \in disturbed[o]

MoveInv == CandidatesAreNew /\ OneMove /\ DisturbedInOrder /\ BackupIsOfBase /\ MovesItsBase

\* From the comparison on, the file holds what it should, or somebody has
\* written it.
ComparedIsThere ==
    "compare" \notin intruded =>
        \A o \in Ops :
            /\ pc[o] = "moving" => disk = base[o]
            /\ pc[o] = "reloading" => disk = content[o]
            /\ \/ pc[o] \in {"pruning", "persisting"}
               \/ pc[o] = "ending" /\ kind[o] = "config" /\ outcome[o] = "succeeded"
               => disk = content[o] /\ live = content[o]

\* From the check on, the file or its backup holds the base, or somebody has
\* written the file.
CheckedIsThere ==
    "check" \notin intruded =>
        \A o \in Ops :
            /\ pc[o] \in {"uploading", "validating", "baselining", "backing_up", "recording",
                          "replacing", "moving", "reloading_old"} => disk = base[o]
            /\ pc[o] \in {"recording", "replacing", "moving", "reloading", "rolling_back"}
               => backups[o] = base[o]
            /\ pc[o] = "ending" /\ outcome[o] = "rolled_back" => disk = base[o] /\ live = base[o]

\* What made the disk and Caddy differ is on its way to report it.
DivergenceHasAnAuthor ==
    written = {} /\ disk # live =>
        \E o \in replaced :
            \/ pc[o] \in {"reloading", "rolling_back", "reloading_old"}
            \/ pc[o] \in {"cleanup", "ending"} /\ outcome[o] \in Failed
            \/ pc[o] = "ended" /\ status[o] \in Failed

IInv == /\ TypeOK /\ StatusFollows /\ OneAtATime /\ KnowsItsContent
        /\ StraysAreReported /\ ReplacedLate /\ SavedBefore /\ ReplacedIsSaved
        /\ MoveInv /\ ComparedIsThere /\ CheckedIsThere /\ DivergenceHasAnAuthor

-----------------------------------------------------------------------------
USE ApplyConstants DEF ApplyConstants, Held, Early, Late, Over, Configures,
        Recoverable, Statuses, Reasons, host, db, request, result, env, moves, Unchanging,
        WritesFile, Compared,
        serviceIsActive, readInSession, RequestChange, Enqueues, Goto, Works, Ends,
        Throws, Fault, Refused, GivenUp, NoEffect, MovesCandidate, LoadsDisk,
        PutsBackupBack, RestartsService, ServiceActs, Kept

\* A reload or a restart lets Caddy load the file, at most.
LEMMA ServiceEffect ==
    ASSUME NEW o \in Ops, ServiceWorks(o)
    PROVE  /\ pc[o] = "service" /\ pc' = [pc EXCEPT ![o] = "ending"]
           /\ outcome' = [outcome EXCEPT ![o] = "succeeded"]
           /\ reason' = [reason EXCEPT ![o] = "none"]
           /\ live' \in {live, disk} /\ active' \in BOOLEAN
           /\ UNCHANGED <<disk, candidates, backups, moves, strays, db, request, env,
                          faults, intruded>>
<1>1. CASE kind[o] = "reload"
  BY <1>1 DEF ServiceWorks
<1>2. CASE kind[o] # "reload"
  BY <1>2 DEF ServiceWorks
<1> QED
  BY <1>1, <1>2

\* Every variable keeps its type.
LEMMA TypesKeep ==
    ASSUME IInv, [Next]_vars
    PROVE  TypeOK'
<1> USE DEF IInv, TypeOK, KnowsItsContent, Strays
<1>1. ASSUME NEW o \in Ops, Requests(o)
      PROVE  TypeOK'
  <2>1. CASE RequestApply(o)
    BY <2>1 DEF RequestApply
  <2>2. CASE RequestRestore(o)
    BY <2>2 DEF RequestRestore
  <2>3. CASE RequestRecovery(o)
    BY <2>3 DEF RequestRecovery
  <2>4. CASE RequestService(o)
    BY <2>4 DEF RequestService
  <2> QED
    BY <1>1, <2>1, <2>2, <2>3, <2>4 DEF Requests
<1>2. ASSUME NEW o \in Ops, Begin(o) \/ End(o) \/ ServiceWorks(o) \/ ServiceFails(o)
      PROVE  TypeOK'
  <2>1. CASE Begin(o)
    BY <2>1 DEF Begin
  <2>2. CASE End(o)
    BY <2>2 DEF End
  <2>3. CASE ServiceWorks(o)
    BY <2>3, ZenonT(30) DEF ServiceWorks
  <2>4. CASE ServiceFails(o)
    <3>1. CASE kind[o] = "reload"
      BY <2>4, <3>1 DEF ServiceFails
    <3>2. CASE kind[o] = "restart"
      <4>1. strays' \subseteq strays \cup {[command |-> "restart", op |-> o]}
        BY <2>4, <3>2 DEF ServiceFails
      <4>2. faults' \in 0..MaxFaults
        BY <2>4, <3>2 DEF ServiceFails
      <4>3. RestartsService \/ UNCHANGED <<live, active>>
        BY <2>4, <3>2 DEF ServiceFails
      <4>4. live' \in {live, disk} /\ active' \in BOOLEAN
        BY <4>3
      <4>5. /\ pc' = [pc EXCEPT ![o] = "ending"]
            /\ outcome' = [outcome EXCEPT ![o] = "failed"]
            /\ reason' = [reason EXCEPT ![o] = "remote"]
            /\ UNCHANGED <<disk, candidates, backups, moves, db, request, env, intruded>>
        BY <2>4, <3>2 DEF ServiceFails
      <4> QED
        BY <4>1, <4>2, <4>4, <4>5
    <3> QED
      BY <2>4, <3>1, <3>2 DEF ServiceFails
  <2> QED
    BY <1>2, <2>1, <2>2, <2>3, <2>4
<1>3. ASSUME NEW o \in Ops, Change(o)
      PROVE  TypeOK'
  <2>1. CASE CheckPasses(o)
    BY <2>1 DEF CheckPasses
  <2>2. CASE CheckRejects(o)
    BY <2>2 DEF CheckRejects
  <2>3. CASE Upload(o)
    BY <2>3 DEF Upload
  <2>4. CASE UploadFails(o)
    BY <2>4 DEF UploadFails
  <2>5. CASE Validate(o)
    BY <2>5 DEF Validate
  <2>6. CASE ValidateRejects(o)
    BY <2>6 DEF ValidateRejects
  <2>7. CASE EnsureRevision(o)
    BY <2>7 DEF EnsureRevision
  <2>8. CASE Backup(o)
    BY <2>8 DEF Backup
  <2>9. CASE BackupFails(o)
    BY <2>9 DEF BackupFails
  <2>10. CASE RecordBackup(o)
    BY <2>10 DEF RecordBackup
  <2>11. CASE CompareHash(o)
    BY <2>11 DEF CompareHash
  <2>12. CASE HashDiffers(o)
    BY <2>12 DEF HashDiffers
  <2>13. CASE Replace(o)
    BY <2>13 DEF Replace
  <2>14. CASE ReplaceFails(o)
    BY <2>14 DEF ReplaceFails
  <2>15. CASE StepFails(o)
    BY <2>15 DEF StepFails
  <2>16. CASE Cleanup(o)
    BY <2>16 DEF Cleanup
  <2> QED
    BY <1>3, <2>1, <2>2, <2>3, <2>4, <2>5, <2>6, <2>7, <2>8, <2>9, <2>10, <2>11,
       <2>12, <2>13, <2>14, <2>15, <2>16 DEF Change
<1>4. ASSUME NEW o \in Ops, Activate(o)
      PROVE  TypeOK'
  <2>1. CASE Reload(o)
    BY <2>1 DEF Reload
  <2>2. CASE ReloadRefused(o)
    BY <2>2 DEF ReloadRefused
  <2>3. CASE ReloadLost(o)
    BY <2>3 DEF ReloadLost
  <2>4. CASE Restore(o)
    BY <2>4 DEF Restore
  <2>5. CASE RestoreRefused(o)
    BY <2>5 DEF RestoreRefused
  <2>6. CASE ReloadOld(o)
    BY <2>6 DEF ReloadOld
  <2>7. CASE ReloadOldRefused(o)
    BY <2>7 DEF ReloadOldRefused
  <2>8. CASE Prune(o)
    BY <2>8 DEF Prune
  <2>9. CASE PruneStageFails(o)
    BY <2>9 DEF PruneStageFails
  <2>10. CASE SaveRevision(o)
    BY <2>10 DEF SaveRevision
  <2>11. CASE SaveRevisionFails(o)
    BY <2>11 DEF SaveRevisionFails
  <2> QED
    BY <1>4, <2>1, <2>2, <2>3, <2>4, <2>5, <2>6, <2>7, <2>8, <2>9, <2>10, <2>11
       DEF Activate
<1>5. ASSUME NEW c \in Edits, Edit(c)
      PROVE  TypeOK'
  BY <1>5 DEF Edit
<1>6. CASE Read \/ SnapshotRemoteConfig
  <2>1. CASE Read
    BY <2>1 DEF Read
  <2>2. CASE SnapshotRemoteConfig
    BY <2>2 DEF SnapshotRemoteConfig
  <2> QED
    BY <1>6, <2>1, <2>2
<1>7. ASSUME NEW s \in strays, StrayActs(s)
      PROVE  TypeOK'
  <2>1. s.op \in Ops
    OBVIOUS
  <2>2. strays' \subseteq Strays
    <3>1. strays' \subseteq strays \cup {[command |-> "move", op |-> s.op]}
      BY <1>7 DEF StrayActs
    <3> QED
      BY <2>1, <3>1
  <2>3. {disk, live}' \subseteq Contents
    BY <1>7, <2>1 DEF StrayActs
  <2>4. active' \in BOOLEAN /\ intruded' \subseteq {"check", "compare"}
    BY <1>7 DEF StrayActs
  <2>5. candidates' \subseteq Ops /\ replaced' \subseteq Ops
        /\ UNCHANGED <<Unchanging, env, backups>>
    BY <1>7, <2>1 DEF StrayActs
  <2>6. overwritten' \in [Ops -> Contents \cup {None}]
    BY <1>7, <2>1 DEF StrayActs
  <2>7. disturbed' \in [Ops -> SUBSET {"check", "compare"}]
    BY <1>7, <2>1 DEF StrayActs
  <2> QED
    BY <2>2, <2>3, <2>4, <2>5, <2>6, <2>7
<1>8. CASE Crash
  BY <1>8 DEF Crash, Pending
<1>9. CASE UNCHANGED vars
  BY <1>9 DEF vars
<1> QED
  BY <1>1, <1>2, <1>3, <1>4, <1>5, <1>6, <1>7, <1>8, <1>9 DEF Next

\* Where operations are, what their rows say, and what they install.
LEMMA RowsKeep ==
    ASSUME IInv, [Next]_vars
    PROVE  (StatusFollows /\ OneAtATime /\ KnowsItsContent)'
<1> USE DEF IInv, TypeOK, StatusFollows, OneAtATime, KnowsItsContent
<1>1. ASSUME NEW o \in Ops, Requests(o)
      PROVE  (StatusFollows /\ OneAtATime /\ KnowsItsContent)'
  <2>1. CASE RequestApply(o)
    BY <2>1 DEF RequestApply
  <2>2. CASE RequestRestore(o)
    BY <2>2 DEF RequestRestore
  <2>3. CASE RequestRecovery(o)
    BY <2>3 DEF RequestRecovery
  <2>4. CASE RequestService(o)
    BY <2>4 DEF RequestService
  <2> QED
    BY <1>1, <2>1, <2>2, <2>3, <2>4 DEF Requests
<1>2. ASSUME NEW o \in Ops, Begin(o) \/ End(o) \/ ServiceWorks(o) \/ ServiceFails(o)
      PROVE  (StatusFollows /\ OneAtATime /\ KnowsItsContent)'
  <2>1. CASE Begin(o)
    BY <2>1 DEF Begin
  <2>2. CASE End(o)
    BY <2>2 DEF End
  <2>3. CASE ServiceWorks(o)
    BY <2>3, ServiceEffect
  <2>4. CASE ServiceFails(o)
    BY <2>4 DEF ServiceFails
  <2> QED
    BY <1>2, <2>1, <2>2, <2>3, <2>4
<1>3. ASSUME NEW o \in Ops, Change(o)
      PROVE  (StatusFollows /\ OneAtATime /\ KnowsItsContent)'
  <2>1. CASE CheckPasses(o)
    BY <2>1 DEF CheckPasses
  <2>2. CASE CheckRejects(o)
    BY <2>2 DEF CheckRejects
  <2>3. CASE Upload(o)
    BY <2>3 DEF Upload
  <2>4. CASE UploadFails(o)
    BY <2>4 DEF UploadFails
  <2>5. CASE Validate(o)
    BY <2>5 DEF Validate
  <2>6. CASE ValidateRejects(o)
    BY <2>6 DEF ValidateRejects
  <2>7. CASE EnsureRevision(o)
    BY <2>7 DEF EnsureRevision
  <2>8. CASE Backup(o)
    BY <2>8 DEF Backup
  <2>9. CASE BackupFails(o)
    BY <2>9 DEF BackupFails
  <2>10. CASE RecordBackup(o)
    BY <2>10 DEF RecordBackup
  <2>11. CASE CompareHash(o)
    BY <2>11 DEF CompareHash
  <2>12. CASE HashDiffers(o)
    BY <2>12 DEF HashDiffers
  <2>13. CASE Replace(o)
    BY <2>13 DEF Replace
  <2>14. CASE ReplaceFails(o)
    BY <2>14 DEF ReplaceFails
  <2>15. CASE StepFails(o)
    BY <2>15 DEF StepFails
  <2>16. CASE Cleanup(o)
    BY <2>16 DEF Cleanup
  <2> QED
    BY <1>3, <2>1, <2>2, <2>3, <2>4, <2>5, <2>6, <2>7, <2>8, <2>9, <2>10, <2>11,
       <2>12, <2>13, <2>14, <2>15, <2>16 DEF Change
<1>4. ASSUME NEW o \in Ops, Activate(o)
      PROVE  (StatusFollows /\ OneAtATime /\ KnowsItsContent)'
  <2>1. CASE Reload(o)
    BY <2>1 DEF Reload
  <2>2. CASE ReloadRefused(o)
    BY <2>2 DEF ReloadRefused
  <2>3. CASE ReloadLost(o)
    BY <2>3 DEF ReloadLost
  <2>4. CASE Restore(o)
    BY <2>4 DEF Restore
  <2>5. CASE RestoreRefused(o)
    BY <2>5 DEF RestoreRefused
  <2>6. CASE ReloadOld(o)
    BY <2>6 DEF ReloadOld
  <2>7. CASE ReloadOldRefused(o)
    BY <2>7 DEF ReloadOldRefused
  <2>8. CASE Prune(o)
    BY <2>8 DEF Prune
  <2>9. CASE PruneStageFails(o)
    BY <2>9 DEF PruneStageFails
  <2>10. CASE SaveRevision(o)
    BY <2>10 DEF SaveRevision
  <2>11. CASE SaveRevisionFails(o)
    BY <2>11 DEF SaveRevisionFails
  <2> QED
    BY <1>4, <2>1, <2>2, <2>3, <2>4, <2>5, <2>6, <2>7, <2>8, <2>9, <2>10, <2>11
       DEF Activate
<1>5. ASSUME NEW c \in Edits, Edit(c)
      PROVE  (StatusFollows /\ OneAtATime /\ KnowsItsContent)'
  BY <1>5 DEF Edit
<1>6. CASE Read \/ SnapshotRemoteConfig
  BY <1>6 DEF Read, SnapshotRemoteConfig
<1>7. ASSUME NEW s \in strays, StrayActs(s)
      PROVE  (StatusFollows /\ OneAtATime /\ KnowsItsContent)'
  BY <1>7 DEF StrayActs
<1>8. CASE Crash
  BY <1>8 DEF Crash, Pending
<1>9. CASE UNCHANGED vars
  BY <1>9 DEF vars
<1> QED
  BY <1>1, <1>2, <1>3, <1>4, <1>5, <1>6, <1>7, <1>8, <1>9 DEF Next

\* What comes before a replacement, and what a command given up can still do.
LEMMA OrderKeeps ==
    ASSUME IInv, [Next]_vars
    PROVE  (StraysAreReported /\ ReplacedLate /\ SavedBefore /\ ReplacedIsSaved)'
<1> USE DEF IInv, TypeOK, StatusFollows, OneAtATime, KnowsItsContent, StraysAreReported,
            ReplacedLate, SavedBefore, ReplacedIsSaved, Strays
<1>1. ASSUME NEW o \in Ops, Requests(o)
      PROVE  (StraysAreReported /\ ReplacedLate /\ SavedBefore /\ ReplacedIsSaved)'
  <2>1. CASE RequestApply(o)
    BY <2>1 DEF RequestApply
  <2>2. CASE RequestRestore(o)
    BY <2>2 DEF RequestRestore
  <2>3. CASE RequestRecovery(o)
    BY <2>3 DEF RequestRecovery
  <2>4. CASE RequestService(o)
    BY <2>4 DEF RequestService
  <2> QED
    BY <1>1, <2>1, <2>2, <2>3, <2>4 DEF Requests
<1>2. ASSUME NEW o \in Ops, Begin(o) \/ End(o) \/ ServiceWorks(o) \/ ServiceFails(o)
      PROVE  (StraysAreReported /\ ReplacedLate /\ SavedBefore /\ ReplacedIsSaved)'
  <2>1. CASE Begin(o)
    BY <2>1 DEF Begin
  <2>2. CASE End(o)
    BY <2>2 DEF End
  <2>3. CASE ServiceWorks(o)
    BY <2>3, ServiceEffect
  <2>4. CASE ServiceFails(o)
    BY <2>4 DEF ServiceFails
  <2> QED
    BY <1>2, <2>1, <2>2, <2>3, <2>4
<1>3. ASSUME NEW o \in Ops, Change(o)
      PROVE  (StraysAreReported /\ ReplacedLate /\ SavedBefore /\ ReplacedIsSaved)'
  <2>1. CASE CheckPasses(o)
    BY <2>1 DEF CheckPasses
  <2>2. CASE CheckRejects(o)
    BY <2>2 DEF CheckRejects
  <2>3. CASE Upload(o)
    BY <2>3 DEF Upload
  <2>4. CASE UploadFails(o)
    BY <2>4 DEF UploadFails
  <2>5. CASE Validate(o)
    BY <2>5 DEF Validate
  <2>6. CASE ValidateRejects(o)
    BY <2>6 DEF ValidateRejects
  <2>7. CASE EnsureRevision(o)
    BY <2>7 DEF EnsureRevision
  <2>8. CASE Backup(o)
    BY <2>8 DEF Backup
  <2>9. CASE BackupFails(o)
    BY <2>9 DEF BackupFails
  <2>10. CASE RecordBackup(o)
    BY <2>10 DEF RecordBackup
  <2>11. CASE CompareHash(o)
    BY <2>11 DEF CompareHash
  <2>12. CASE HashDiffers(o)
    BY <2>12 DEF HashDiffers
  <2>13. CASE Replace(o)
    BY <2>13 DEF Replace
  <2>14. CASE ReplaceFails(o)
    BY <2>14 DEF ReplaceFails
  <2>15. CASE StepFails(o)
    BY <2>15 DEF StepFails
  <2>16. CASE Cleanup(o)
    BY <2>16 DEF Cleanup
  <2> QED
    BY <1>3, <2>1, <2>2, <2>3, <2>4, <2>5, <2>6, <2>7, <2>8, <2>9, <2>10, <2>11,
       <2>12, <2>13, <2>14, <2>15, <2>16 DEF Change
<1>4. ASSUME NEW o \in Ops, Activate(o)
      PROVE  (StraysAreReported /\ ReplacedLate /\ SavedBefore /\ ReplacedIsSaved)'
  <2>1. CASE Reload(o)
    BY <2>1 DEF Reload
  <2>2. CASE ReloadRefused(o)
    BY <2>2 DEF ReloadRefused
  <2>3. CASE ReloadLost(o)
    BY <2>3 DEF ReloadLost
  <2>4. CASE Restore(o)
    BY <2>4 DEF Restore
  <2>5. CASE RestoreRefused(o)
    BY <2>5 DEF RestoreRefused
  <2>6. CASE ReloadOld(o)
    BY <2>6 DEF ReloadOld
  <2>7. CASE ReloadOldRefused(o)
    BY <2>7 DEF ReloadOldRefused
  <2>8. CASE Prune(o)
    BY <2>8 DEF Prune
  <2>9. CASE PruneStageFails(o)
    BY <2>9 DEF PruneStageFails
  <2>10. CASE SaveRevision(o)
    BY <2>10 DEF SaveRevision
  <2>11. CASE SaveRevisionFails(o)
    BY <2>11 DEF SaveRevisionFails
  <2> QED
    BY <1>4, <2>1, <2>2, <2>3, <2>4, <2>5, <2>6, <2>7, <2>8, <2>9, <2>10, <2>11
       DEF Activate
<1>5. ASSUME NEW c \in Edits, Edit(c)
      PROVE  (StraysAreReported /\ ReplacedLate /\ SavedBefore /\ ReplacedIsSaved)'
  BY <1>5 DEF Edit
<1>6. CASE Read \/ SnapshotRemoteConfig
  BY <1>6 DEF Read, SnapshotRemoteConfig
<1>7. ASSUME NEW s \in strays, StrayActs(s)
      PROVE  (StraysAreReported /\ ReplacedLate /\ SavedBefore /\ ReplacedIsSaved)'
  BY <1>7 DEF StrayActs
<1>8. CASE Crash
  BY <1>8 DEF Crash, Pending
<1>9. CASE UNCHANGED vars
  BY <1>9 DEF vars
<1> QED
  BY <1>1, <1>2, <1>3, <1>4, <1>5, <1>6, <1>7, <1>8, <1>9 DEF Next

\* What the file, its backup and Caddy hold.
LEMMA FileKeeps ==
    ASSUME IInv, [Next]_vars
    PROVE  (ComparedIsThere /\ CheckedIsThere)'
<1> USE DEF IInv, TypeOK, StatusFollows, OneAtATime, KnowsItsContent, ComparedIsThere,
            CheckedIsThere
<1>1. ASSUME NEW o \in Ops, Requests(o)
      PROVE  (ComparedIsThere /\ CheckedIsThere)'
  <2>1. CASE RequestApply(o)
    BY <2>1 DEF RequestApply
  <2>2. CASE RequestRestore(o)
    BY <2>2 DEF RequestRestore
  <2>3. CASE RequestRecovery(o)
    BY <2>3 DEF RequestRecovery
  <2>4. CASE RequestService(o)
    BY <2>4 DEF RequestService
  <2> QED
    BY <1>1, <2>1, <2>2, <2>3, <2>4 DEF Requests
<1>2. ASSUME NEW o \in Ops, Begin(o) \/ End(o) \/ ServiceWorks(o) \/ ServiceFails(o)
      PROVE  (ComparedIsThere /\ CheckedIsThere)'
  <2>1. CASE Begin(o)
    BY <2>1 DEF Begin
  <2>2. CASE End(o)
    BY <2>2 DEF End
  <2>3. CASE ServiceWorks(o)
    BY <2>3, ServiceEffect
  <2>4. CASE ServiceFails(o)
    BY <2>4 DEF ServiceFails
  <2> QED
    BY <1>2, <2>1, <2>2, <2>3, <2>4
<1>3. ASSUME NEW o \in Ops, Change(o)
      PROVE  (ComparedIsThere /\ CheckedIsThere)'
  <2>1. CASE CheckPasses(o)
    BY <2>1 DEF CheckPasses
  <2>2. CASE CheckRejects(o)
    BY <2>2 DEF CheckRejects
  <2>3. CASE Upload(o)
    BY <2>3 DEF Upload
  <2>4. CASE UploadFails(o)
    BY <2>4 DEF UploadFails
  <2>5. CASE Validate(o)
    BY <2>5 DEF Validate
  <2>6. CASE ValidateRejects(o)
    BY <2>6 DEF ValidateRejects
  <2>7. CASE EnsureRevision(o)
    BY <2>7 DEF EnsureRevision
  <2>8. CASE Backup(o)
    BY <2>8 DEF Backup
  <2>9. CASE BackupFails(o)
    BY <2>9 DEF BackupFails
  <2>10. CASE RecordBackup(o)
    BY <2>10 DEF RecordBackup
  <2>11. CASE CompareHash(o)
    BY <2>11 DEF CompareHash
  <2>12. CASE HashDiffers(o)
    BY <2>12 DEF HashDiffers
  <2>13. CASE Replace(o)
    BY <2>13 DEF Replace
  <2>14. CASE ReplaceFails(o)
    BY <2>14 DEF ReplaceFails
  <2>15. CASE StepFails(o)
    BY <2>15 DEF StepFails
  <2>16. CASE Cleanup(o)
    BY <2>16 DEF Cleanup
  <2> QED
    BY <1>3, <2>1, <2>2, <2>3, <2>4, <2>5, <2>6, <2>7, <2>8, <2>9, <2>10, <2>11,
       <2>12, <2>13, <2>14, <2>15, <2>16 DEF Change
<1>4. ASSUME NEW o \in Ops, Activate(o)
      PROVE  (ComparedIsThere /\ CheckedIsThere)'
  <2>1. CASE Reload(o)
    BY <2>1 DEF Reload
  <2>2. CASE ReloadRefused(o)
    BY <2>2 DEF ReloadRefused
  <2>3. CASE ReloadLost(o)
    BY <2>3 DEF ReloadLost
  <2>4. CASE Restore(o)
    BY <2>4 DEF Restore
  <2>5. CASE RestoreRefused(o)
    BY <2>5 DEF RestoreRefused
  <2>6. CASE ReloadOld(o)
    BY <2>6 DEF ReloadOld
  <2>7. CASE ReloadOldRefused(o)
    BY <2>7 DEF ReloadOldRefused
  <2>8. CASE Prune(o)
    BY <2>8 DEF Prune
  <2>9. CASE PruneStageFails(o)
    BY <2>9 DEF PruneStageFails
  <2>10. CASE SaveRevision(o)
    BY <2>10 DEF SaveRevision
  <2>11. CASE SaveRevisionFails(o)
    BY <2>11 DEF SaveRevisionFails
  <2> QED
    BY <1>4, <2>1, <2>2, <2>3, <2>4, <2>5, <2>6, <2>7, <2>8, <2>9, <2>10, <2>11
       DEF Activate
<1>5. ASSUME NEW c \in Edits, Edit(c)
      PROVE  (ComparedIsThere /\ CheckedIsThere)'
  BY <1>5 DEF Edit
<1>6. CASE Read \/ SnapshotRemoteConfig
  BY <1>6 DEF Read, SnapshotRemoteConfig
<1>7. ASSUME NEW s \in strays, StrayActs(s)
      PROVE  (ComparedIsThere /\ CheckedIsThere)'
  BY <1>7 DEF StrayActs
<1>8. CASE Crash
  BY <1>8 DEF Crash, Pending
<1>9. CASE UNCHANGED vars
  BY <1>9 DEF vars
<1> QED
  BY <1>1, <1>2, <1>3, <1>4, <1>5, <1>6, <1>7, <1>8, <1>9 DEF Next

\* What a move overwrites, and what the backup of it holds.
LEMMA MovesKeep ==
    ASSUME IInv, [Next]_vars
    PROVE  MoveInv' /\ MovesAreSeen
<1> USE DEF IInv, TypeOK, StatusFollows, OneAtATime, KnowsItsContent, StraysAreReported,
            ReplacedLate, MoveInv, CandidatesAreNew, OneMove, DisturbedInOrder, BackupIsOfBase, Moving,
            MovesItsBase, MovesAreSeen, Strays
<1>1. ASSUME NEW o \in Ops, Requests(o)
      PROVE  MoveInv' /\ MovesAreSeen
  <2>1. CASE RequestApply(o)
    BY <2>1 DEF RequestApply
  <2>2. CASE RequestRestore(o)
    BY <2>2 DEF RequestRestore
  <2>3. CASE RequestRecovery(o)
    BY <2>3 DEF RequestRecovery
  <2>4. CASE RequestService(o)
    BY <2>4 DEF RequestService
  <2> QED
    BY <1>1, <2>1, <2>2, <2>3, <2>4 DEF Requests
<1>2. ASSUME NEW o \in Ops, Begin(o) \/ End(o) \/ ServiceWorks(o) \/ ServiceFails(o)
      PROVE  MoveInv' /\ MovesAreSeen
  <2>1. CASE Begin(o)
    BY <2>1 DEF Begin
  <2>2. CASE End(o)
    BY <2>2 DEF End
  <2>3. CASE ServiceWorks(o)
    BY <2>3, ServiceEffect
  <2>4. CASE ServiceFails(o)
    BY <2>4 DEF ServiceFails
  <2> QED
    BY <1>2, <2>1, <2>2, <2>3, <2>4
<1>3. ASSUME NEW o \in Ops, Change(o)
      PROVE  MoveInv' /\ MovesAreSeen
  <2>1. CASE CheckPasses(o)
    BY <2>1 DEF CheckPasses
  <2>2. CASE CheckRejects(o)
    BY <2>2 DEF CheckRejects
  <2>3. CASE Upload(o)
    BY <2>3 DEF Upload
  <2>4. CASE UploadFails(o)
    BY <2>4 DEF UploadFails
  <2>5. CASE Validate(o)
    BY <2>5 DEF Validate
  <2>6. CASE ValidateRejects(o)
    BY <2>6 DEF ValidateRejects
  <2>7. CASE EnsureRevision(o)
    BY <2>7 DEF EnsureRevision
  <2>8. CASE Backup(o)
    BY <2>8 DEF Backup
  <2>9. CASE BackupFails(o)
    BY <2>9 DEF BackupFails
  <2>10. CASE RecordBackup(o)
    BY <2>10 DEF RecordBackup
  <2>11. CASE CompareHash(o)
    BY <2>11 DEF CompareHash
  <2>12. CASE HashDiffers(o)
    BY <2>12 DEF HashDiffers
  <2>13. CASE Replace(o)
    BY <2>13 DEF Replace
  <2>14. CASE ReplaceFails(o)
    BY <2>14 DEF ReplaceFails
  <2>15. CASE StepFails(o)
    BY <2>15 DEF StepFails
  <2>16. CASE Cleanup(o)
    BY <2>16 DEF Cleanup
  <2> QED
    BY <1>3, <2>1, <2>2, <2>3, <2>4, <2>5, <2>6, <2>7, <2>8, <2>9, <2>10, <2>11,
       <2>12, <2>13, <2>14, <2>15, <2>16 DEF Change
<1>4. ASSUME NEW o \in Ops, Activate(o)
      PROVE  MoveInv' /\ MovesAreSeen
  <2>1. CASE Reload(o)
    BY <2>1 DEF Reload
  <2>2. CASE ReloadRefused(o)
    BY <2>2 DEF ReloadRefused
  <2>3. CASE ReloadLost(o)
    BY <2>3 DEF ReloadLost
  <2>4. CASE Restore(o)
    BY <2>4 DEF Restore
  <2>5. CASE RestoreRefused(o)
    BY <2>5 DEF RestoreRefused
  <2>6. CASE ReloadOld(o)
    BY <2>6 DEF ReloadOld
  <2>7. CASE ReloadOldRefused(o)
    BY <2>7 DEF ReloadOldRefused
  <2>8. CASE Prune(o)
    BY <2>8 DEF Prune
  <2>9. CASE PruneStageFails(o)
    BY <2>9 DEF PruneStageFails
  <2>10. CASE SaveRevision(o)
    BY <2>10 DEF SaveRevision
  <2>11. CASE SaveRevisionFails(o)
    BY <2>11 DEF SaveRevisionFails
  <2> QED
    BY <1>4, <2>1, <2>2, <2>3, <2>4, <2>5, <2>6, <2>7, <2>8, <2>9, <2>10, <2>11
       DEF Activate
<1>5. ASSUME NEW c \in Edits, Edit(c)
      PROVE  MoveInv' /\ MovesAreSeen
  BY <1>5 DEF Edit
<1>6. CASE Read \/ SnapshotRemoteConfig
  BY <1>6 DEF Read, SnapshotRemoteConfig
<1>7. ASSUME NEW s \in strays, StrayActs(s)
      PROVE  MoveInv' /\ MovesAreSeen
  <2>1. s.op \in Ops /\ UNCHANGED <<Unchanging, env>>
    BY <1>7 DEF StrayActs
  <2>2. CASE /\ s.command = "replace" /\ disk = base[s.op]
             /\ strays' = (strays \ {s}) \cup {[command |-> "move", op |-> s.op]}
             /\ Compared(s.op) /\ UNCHANGED <<disk, live, active, candidates, backups>>
    <3>1. \A o \in Ops : Moving(o, {"replace", "move"})' => Moving(o, {"replace", "move"})
      BY <2>1, <2>2
    <3>2. \A o \in Ops : Moving(o, {"move"})' => Moving(o, {"move"}) \/ o = s.op
      BY <2>1, <2>2
    <3>3. CandidatesAreNew' /\ OneMove' /\ DisturbedInOrder' /\ MovesAreSeen
      BY <2>1, <2>2
    <3> HIDE DEF Moving
    <3>4. BackupIsOfBase'
      BY <2>1, <2>2, <3>1
    <3>5. MovesItsBase'
      BY <2>1, <2>2, <3>2
    <3> QED
      BY <3>3, <3>4, <3>5
  <2>3. CASE s.command = "move" /\ MovesCandidate(s.op) /\ strays' = strays \ {s}
    <3>1. /\ s.op \in candidates /\ s.op \notin replaced
          /\ "compare" \notin disturbed[s.op] => disk = base[s.op]
          /\ "check" \notin disturbed[s.op] => backups[s.op] \in {None, base[s.op]}
      BY <2>1, <2>3
    <3>2. /\ replaced' = replaced \cup {s.op} /\ candidates' = candidates \ {s.op}
          /\ overwritten' = [overwritten EXCEPT ![s.op] = disk]
          /\ strays' \subseteq strays /\ backups' = backups
          /\ pc' = pc /\ base' = base
          /\ \A o \in Ops : disturbed'[o] = IF o \in replaced' THEN disturbed[o]
                                             ELSE {"check", "compare"}
      BY <2>1, <2>3
    <3>3. OneMove'
      <4>1. \A t \in strays' : /\ t \in strays
                              /\ t.command \in {"replace", "move"} => t.op # s.op
        BY <2>3
      <4> QED
        BY <3>2, <4>1
    <3>4. CandidatesAreNew' /\ DisturbedInOrder' /\ MovesAreSeen
      BY <2>1, <3>1, <3>2
    <3>5. BackupIsOfBase'
      <4>1. \A o \in replaced' : pc[o] \in Over \cup Late
        BY <2>1, <3>2
      <4> QED
        BY <2>1, <3>1, <3>2, <4>1
    <3>6. MovesItsBase'
      BY <2>1, <3>1, <3>2
    <3> QED
      BY <3>3, <3>4, <3>5, <3>6
  <2>4. CASE s.command = "restore" /\ PutsBackupBack(s.op) /\ strays' = strays \ {s}
    BY <2>1, <2>4
  <2>5. CASE /\ strays' = strays \ {s}
             /\ UNCHANGED <<disk, candidates, backups, moves>>
    BY <2>1, <2>5
  <2> QED
    BY <1>7, <2>2, <2>3, <2>4, <2>5 DEF StrayActs
<1>8. CASE Crash
  BY <1>8 DEF Crash, Pending
<1>9. CASE UNCHANGED vars
  BY <1>9 DEF vars
<1> QED
  BY <1>1, <1>2, <1>3, <1>4, <1>5, <1>6, <1>7, <1>8, <1>9 DEF Next

\* Who made the file and Caddy differ.
LEMMA AuthorKeeps ==
    ASSUME IInv, [Next]_vars
    PROVE  DivergenceHasAnAuthor'
<1> USE DEF IInv, TypeOK, StatusFollows, OneAtATime, StraysAreReported, ReplacedLate,
            DivergenceHasAnAuthor, Failed
<1>1. ASSUME NEW o \in Ops, Requests(o)
      PROVE  DivergenceHasAnAuthor'
  <2>1. CASE RequestApply(o)
    BY <2>1 DEF RequestApply
  <2>2. CASE RequestRestore(o)
    BY <2>2 DEF RequestRestore
  <2>3. CASE RequestRecovery(o)
    BY <2>3 DEF RequestRecovery
  <2>4. CASE RequestService(o)
    BY <2>4 DEF RequestService
  <2> QED
    BY <1>1, <2>1, <2>2, <2>3, <2>4 DEF Requests
<1>2. ASSUME NEW o \in Ops, Begin(o) \/ End(o) \/ ServiceWorks(o) \/ ServiceFails(o)
      PROVE  DivergenceHasAnAuthor'
  <2>1. CASE Begin(o)
    BY <2>1 DEF Begin
  <2>2. CASE End(o)
    BY <2>2 DEF End
  <2>3. CASE ServiceWorks(o)
    BY <2>3 DEF ServiceWorks
  <2>4. CASE ServiceFails(o)
    BY <2>4 DEF ServiceFails
  <2> QED
    BY <1>2, <2>1, <2>2, <2>3, <2>4
<1>3. ASSUME NEW o \in Ops, Change(o)
      PROVE  DivergenceHasAnAuthor'
  <2>1. CASE CheckPasses(o)
    BY <2>1 DEF CheckPasses
  <2>2. CASE CheckRejects(o)
    BY <2>2 DEF CheckRejects
  <2>3. CASE Upload(o)
    BY <2>3 DEF Upload
  <2>4. CASE UploadFails(o)
    BY <2>4 DEF UploadFails
  <2>5. CASE Validate(o)
    BY <2>5 DEF Validate
  <2>6. CASE ValidateRejects(o)
    BY <2>6 DEF ValidateRejects
  <2>7. CASE EnsureRevision(o)
    BY <2>7 DEF EnsureRevision
  <2>8. CASE Backup(o)
    BY <2>8 DEF Backup
  <2>9. CASE BackupFails(o)
    BY <2>9 DEF BackupFails
  <2>10. CASE RecordBackup(o)
    BY <2>10 DEF RecordBackup
  <2>11. CASE CompareHash(o)
    BY <2>11 DEF CompareHash
  <2>12. CASE HashDiffers(o)
    BY <2>12 DEF HashDiffers
  <2>13. CASE Replace(o)
    BY <2>13 DEF Replace
  <2>14. CASE ReplaceFails(o)
    BY <2>14 DEF ReplaceFails
  <2>15. CASE StepFails(o)
    BY <2>15 DEF StepFails
  <2>16. CASE Cleanup(o)
    BY <2>16 DEF Cleanup
  <2> QED
    BY <1>3, <2>1, <2>2, <2>3, <2>4, <2>5, <2>6, <2>7, <2>8, <2>9, <2>10, <2>11,
       <2>12, <2>13, <2>14, <2>15, <2>16 DEF Change
<1>4. ASSUME NEW o \in Ops, Activate(o)
      PROVE  DivergenceHasAnAuthor'
  <2>1. CASE Reload(o)
    BY <2>1 DEF Reload
  <2>2. CASE ReloadRefused(o)
    BY <2>2 DEF ReloadRefused
  <2>3. CASE ReloadLost(o)
    BY <2>3 DEF ReloadLost
  <2>4. CASE Restore(o)
    BY <2>4 DEF Restore
  <2>5. CASE RestoreRefused(o)
    BY <2>5 DEF RestoreRefused
  <2>6. CASE ReloadOld(o)
    BY <2>6 DEF ReloadOld
  <2>7. CASE ReloadOldRefused(o)
    BY <2>7 DEF ReloadOldRefused
  <2>8. CASE Prune(o)
    BY <2>8 DEF Prune
  <2>9. CASE PruneStageFails(o)
    BY <2>9 DEF PruneStageFails
  <2>10. CASE SaveRevision(o)
    BY <2>10 DEF SaveRevision
  <2>11. CASE SaveRevisionFails(o)
    BY <2>11 DEF SaveRevisionFails
  <2> QED
    BY <1>4, <2>1, <2>2, <2>3, <2>4, <2>5, <2>6, <2>7, <2>8, <2>9, <2>10, <2>11
       DEF Activate
<1>5. ASSUME NEW c \in Edits, Edit(c)
      PROVE  DivergenceHasAnAuthor'
  BY <1>5 DEF Edit
<1>6. CASE Read \/ SnapshotRemoteConfig
  BY <1>6 DEF Read, SnapshotRemoteConfig
<1>7. ASSUME NEW s \in strays, StrayActs(s)
      PROVE  DivergenceHasAnAuthor'
  BY <1>7 DEF StrayActs
<1>8. CASE Crash
  BY <1>8 DEF Crash, Pending
<1>9. CASE UNCHANGED vars
  BY <1>9 DEF vars
<1> QED
  BY <1>1, <1>2, <1>3, <1>4, <1>5, <1>6, <1>7, <1>8, <1>9 DEF Next

-----------------------------------------------------------------------------
(* The results. *)

\* The inductive invariant.
THEOREM Inductive == Spec => []IInv
<1>1. Init => IInv
  <2> SUFFICES ASSUME Init
               PROVE  IInv
    OBVIOUS
  <2> USE DEF Init
  <2>1. TypeOK
    BY DEF TypeOK
  <2>2. StatusFollows /\ OneAtATime /\ KnowsItsContent
    BY DEF StatusFollows, OneAtATime, KnowsItsContent
  <2>3. StraysAreReported /\ ReplacedLate /\ SavedBefore /\ ReplacedIsSaved
    BY DEF StraysAreReported, ReplacedLate, SavedBefore, ReplacedIsSaved
  <2>4. MoveInv
    BY DEF MoveInv, CandidatesAreNew, OneMove, DisturbedInOrder, BackupIsOfBase, MovesItsBase
  <2>5. ComparedIsThere /\ CheckedIsThere /\ DivergenceHasAnAuthor
    BY DEF ComparedIsThere, CheckedIsThere, DivergenceHasAnAuthor
  <2> QED
    BY <2>1, <2>2, <2>3, <2>4, <2>5 DEF IInv
<1>2. IInv /\ [Next]_vars => IInv'
  BY TypesKeep, RowsKeep, OrderKeeps, FileKeeps, MovesKeep, AuthorKeeps DEF IInv
<1> QED
  BY <1>1, <1>2, PTL DEF Spec

\* Every variable has its type: what an operation installs and what it compares
\* with are contents whenever it comes to use them.
THEOREM TypeCorrect == Spec => []TypeOK
<1>1. IInv => TypeOK
  BY DEF IInv
<1> QED
  BY <1>1, Inductive, PTL

\* Whoever is told that a change succeeded has it on the disk and in Caddy,
\* unless somebody else wrote the file meanwhile.
THEOREM SuccessIsLive == Spec => []SucceededIsLive
<1>1. IInv => SucceededIsLive
  BY DEF IInv, SucceededIsLive, ComparedIsThere
<1> QED
  BY <1>1, Inductive, PTL

\* Whoever is told that a change was rolled back has the previous content again.
THEOREM RollbackRestores == Spec => []RolledBackIsRestored
<1>1. IInv => RolledBackIsRestored
  BY DEF IInv, RolledBackIsRestored, CheckedIsThere
<1> QED
  BY <1>1, Inductive, PTL

\* What an operation overwrites is a revision, unless another writer came between
\* the comparison and the move, and the backup that the row names holds it or was
\* pruned, unless one came between the check and the move: even if the process
\* dies or the command has its effect late.
THEOREM NothingIsLost == Spec => []ReplacedIsRecoverable
<1>1. IInv => ReplacedIsRecoverable
  BY DEF IInv, TypeOK, ReplacedIsRecoverable, ReplacedIsSaved, MoveInv, DisturbedInOrder,
         BackupIsOfBase, MovesItsBase
<1> QED
  BY <1>1, Inductive, PTL

\* A change that is refused does not touch the file, then or later.
THEOREM RefusalIsHarmless == Spec => []RefusedIsHarmless
<1>1. IInv => RefusedIsHarmless
  BY DEF IInv, RefusedIsHarmless, ReplacedLate
<1> QED
  BY <1>1, Inductive, PTL

\* Unless others write the file, Caddy runs what is on the disk or an operation
\* that replaced it says that it needs recovery.
THEOREM DivergenceIsKnown == Spec => []DivergenceIsReported
<1>1. IInv => DivergenceIsReported
  BY DEF IInv, TypeOK, StatusFollows, DivergenceHasAnAuthor, DivergenceIsReported, Failed
<1> QED
  BY <1>1, Inductive, PTL

\* A step that moves a candidate over the file replaces what its author saw, unless
\* another writer came after the comparison, also the step of a command given up.
THEOREM ReplacementHitsItsBase == Spec => ReplacesItsBase
<1>1. IInv /\ [Next]_vars =>
        [\A o \in replaced' \ replaced : disk = base[o] \/ "compare" \in disturbed[o]]_vars
  BY MovesKeep DEF MovesAreSeen
<1> QED
  BY <1>1, Inductive, PTL DEF Spec, ReplacesItsBase
=============================================================================
