------------------------ MODULE ServerRegistryProofs ------------------------
(***************************************************************************)
(* Proofs, for any rows, targets and number of overlapping calls, of what  *)
(* ServerRegistry promises.  What a call holds in its entity may be stale: *)
(* the invariant tells how stale, at every place where it may be saved.    *)
(***************************************************************************)
EXTENDS ServerRegistry, TLAPS

Busy == {"connecting", "working", "read", "checked", "kept", "failing"}

\* A call that has begun works on a row, with an entity.
HasEntity == \A c \in Calls : pc[c] \in Busy =>
    /\ on[c] \in Ids /\ copy[c] \in Row
    /\ kind[c] = "use" => pc[c] \in {"connecting", "working", "failing"}
    /\ kind[c] \in {"create", "update"} => pc[c] \in {"read", "checked"}

\* A row or an entity that may become one.
Sound(r) == r.key = r.target /\ Complete(r.method, r.secrets)

EntitiesAreSound ==
    /\ \A id \in Ids : rows[id] # None => Sound(rows[id])
    /\ \A c \in Calls :
          /\ pc[c] \in {"connecting", "working", "checked", "kept"} => Sound(copy[c])
          /\ pc[c] = "read" => Complete(copy[c].method, copy[c].secrets)

\* Another row has the target, and no void check tells why.
Shares(a, b, target) == /\ rows[b] # None /\ rows[b].target = target
                        /\ a \notin raced /\ b \notin raced

\* Without a void check two rows share a target only if both are legacy, ...
RowsShareRightly ==
    \A a \in Ids, b \in Ids : a # b /\ rows[a] # None /\ Shares(a, b, rows[a].target)
        => rows[a].legacy /\ rows[b].legacy

\* ... a target that was found free is, ...
CheckedIsFree ==
    \A c \in Calls : pc[c] = "checked" =>
        \A b \in Ids \ {on[c]} : ~Shares(on[c], b, copy[c].target)

\* ... and an entity that is saved without a check brings no new plain key.
UncheckedBringsNone ==
    \A c \in Calls :
        /\ pc[c] \in {"connecting", "working", "kept"}
        /\ ~copy[c].legacy
        /\ rows[on[c]] # None /\ rows[on[c]].target = copy[c].target
        => \A b \in Ids \ {on[c]} : ~Shares(on[c], b, copy[c].target)

\* Two plain rows have different targets, as they have different keys.
PlainKeysDiffer ==
    \A a \in Ids, b \in Ids : a # b /\ None \notin {rows[a], rows[b]}
                              /\ rows[a].target = rows[b].target
        => rows[a].legacy \/ rows[b].legacy

UniqueInv == RowsShareRightly /\ CheckedIsFree /\ UncheckedBringsNone /\ PlainKeysDiffer

\* What a call that waits for its connection saves is the last change, ...
SaversKnowLatest ==
    /\ latest \in [Ids -> Row \cup {None}]
    /\ \A id \in Ids : id \notin crossed => Change(rows[id]) = Change(latest[id])
    /\ \A c \in Calls : pc[c] = "connecting" /\ on[c] \notin crossed
                       => Change(copy[c]) = Change(latest[on[c]])

\* ... and one that would bring back a removed row crosses it.
RevivalsCross ==
    \A c \in Calls : c \in Savers(on[c]) /\ Revives(c) => on[c] \in crossed

\* An id that no row has had.
UnbornIsUntouched ==
    \A id \in unborn : rows[id] = None /\ heard[id] = "none" /\ InFlight(id) = {}

\* The row that a call creates is not there before.
CreatesOnce ==
    \A c \in Calls : kind[c] = "create" /\ pc[c] \in Busy =>
        /\ rows[on[c]] = None /\ heard[on[c]] = "none" /\ InFlight(on[c]) = {c}
        /\ copy[c].status = "none"

StatusIs(id, s) == rows[id] # None => rows[id].status = s

\* A call that is alone at a host knows the status of the row.
LoneKnowsStatus ==
    /\ \A id \in Ids \ mixed :
          /\ InFlight(id) = {} => StatusIs(id, heard[id])
          /\ \A c, d \in InFlight(id) : c = d
    /\ \A c \in Calls : pc[c] \in Busy /\ on[c] \notin mixed =>
          /\ pc[c] = "connecting" /\ copy[c].status = "ok" => StatusIs(on[c], "ok")
          /\ pc[c] = "working" \/ (pc[c] # "failing" /\ kind[c] = "rediscover" /\ pc[c] # "connecting")
             => copy[c].status = "ok" /\ StatusIs(on[c], "ok")
          /\ kind[c] = "update" => copy[c].status = heard[on[c]] /\ StatusIs(on[c], heard[on[c]])

IInv == /\ TypeOK /\ HasEntity /\ EntitiesAreSound /\ UniqueInv /\ SaversKnowLatest
        /\ RevivalsCross /\ UnbornIsUntouched /\ CreatesOnce /\ LoneKnowsStatus

-----------------------------------------------------------------------------
USE RegistryConstants, NoRow
    DEF RegistryConstants, call, past, Steps, Starts, Writes, Busy, Changes, Refused, Ages

\* What time does to a row.
LEMMA AgesKeeps ==
    ASSUME NEW r \in Row \cup {None}
    PROVE  /\ Ages(r) \in Row \cup {None}
           /\ Ages(r) = None <=> r = None
           /\ r # None => /\ Ages(r).target = r.target /\ Ages(r).key = r.key
                          /\ Ages(r).legacy = r.legacy /\ Ages(r).method = r.method
                          /\ Ages(r).secrets = r.secrets /\ Ages(r).status = r.status
BY DEF Row

\* What the first part of withSession saves of an entity.
LEMMA ConnectedSaves ==
    ASSUME TypeOK, HasEntity, NEW c \in Calls, Connected(c), ~RecentlySeen(copy[c])
    PROVE  \E seen \in Row :
              /\ seen.target = copy[c].target /\ seen.key = copy[c].key
              /\ seen.legacy = copy[c].legacy /\ seen.method = copy[c].method
              /\ seen.secrets = copy[c].secrets /\ seen.status = "ok"
              /\ copy' = [copy EXCEPT ![c] = seen]
              /\ Writes(c, seen)
<1> DEFINE seen == [copy[c] EXCEPT !.status = "ok", !.recent = TRUE]
<1>1. copy[c] \in Row
  BY DEF HasEntity, Connected
<1>2. /\ seen \in Row
      /\ seen.target = copy[c].target /\ seen.key = copy[c].key
      /\ seen.legacy = copy[c].legacy /\ seen.method = copy[c].method
      /\ seen.secrets = copy[c].secrets /\ seen.status = "ok"
  BY <1>1 DEF Row
<1>3. copy' = [copy EXCEPT ![c] = seen] /\ Writes(c, seen)
  BY DEF Connected
<1> QED
  BY <1>2, <1>3

\* What a check that finds the target free makes of the entity.
LEMMA ChecksPass ==
    ASSUME TypeOK, HasEntity, NEW c \in Calls, Checks(c),
           ~Unavailable(on[c], copy[c].target)
    PROVE  \E r \in Row :
              /\ r.target = copy[c].target /\ r.key = copy[c].target /\ ~r.legacy
              /\ r.method = copy[c].method /\ r.secrets = copy[c].secrets
              /\ r.status = copy[c].status
              /\ copy' = [copy EXCEPT ![c] = r] /\ pc' = [pc EXCEPT ![c] = "checked"]
<1> DEFINE r == [copy[c] EXCEPT !.key = copy[c].target, !.legacy = FALSE]
<1>1. copy[c] \in Row
  BY DEF HasEntity, Checks
<1>2. /\ r \in Row
      /\ r.target = copy[c].target /\ r.key = copy[c].target /\ ~r.legacy
      /\ r.method = copy[c].method /\ r.secrets = copy[c].secrets
      /\ r.status = copy[c].status
  BY <1>1 DEF Row
<1>3. copy' = [copy EXCEPT ![c] = r] /\ pc' = [pc EXCEPT ![c] = "checked"]
  BY <1>1 DEF Checks, TypeOK
<1> QED
  BY <1>2, <1>3

\* Only these columns count as a change.
LEMMA ChangeSame ==
    ASSUME NEW a \in Row, NEW b \in Row,
           a.target = b.target, a.method = b.method, a.secrets = b.secrets
    PROVE  Change(a) = Change(b)
BY DEF Change

\* What an update makes of an entity.
LEMMA MergedIsRow ==
    ASSUME NEW r \in Row, NEW target \in Targets \cup {None},
           NEW method \in Secrets \cup {None}, NEW given \in SUBSET Secrets
    PROVE  LET m == Merged(r, target, method, given)
           IN  /\ m \in Row /\ m.key = r.key /\ m.legacy = r.legacy
               /\ m.status = r.status /\ m.recent = r.recent
BY DEF Merged, Row

\* ... and what it has read and waits with.
LEMMA UpdateReads ==
    ASSUME TypeOK, NEW c \in Calls, Update(c)
    PROVE  \E id \in Ids, r \in Row :
              /\ Starts(c, id, "update") /\ rows[id] \in Row /\ Complete(r.method, r.secrets)
              /\ r.key = rows[id].key /\ r.status = rows[id].status
              /\ copy' = [copy EXCEPT ![c] = r]
<1> HIDE DEF Starts
<1>1. PICK id \in Ids, target \in Targets \cup {None}, method \in Secrets \cup {None},
           given \in SUBSET Secrets :
        LET r == Merged(rows[id], target, method, given)
        IN  /\ Starts(c, id, "update")
            /\ Complete(r.method, r.secrets)
            /\ copy' = [copy EXCEPT ![c] = r]
  BY DEF Update
<1>2. rows[id] \in Row
  BY <1>1 DEF TypeOK, Starts
<1> DEFINE r == Merged(rows[id], target, method, given)
<1>3. r \in Row /\ r.key = rows[id].key /\ r.status = rows[id].status
  BY <1>2, MergedIsRow
<1> HIDE DEF r
<1>4. Starts(c, id, "update") /\ Complete(r.method, r.secrets) /\ copy' = [copy EXCEPT ![c] = r]
  BY <1>1 DEF r
<1> QED
  BY <1>2, <1>3, <1>4

\* Every variable keeps its type, and a call its entity.
LEMMA TypesKeep ==
    ASSUME IInv, [Next]_vars
    PROVE  (TypeOK /\ HasEntity)'
<1> USE DEF IInv, TypeOK, HasEntity, Row, Kinds
<1>1. ASSUME NEW c \in Calls, Use(c)
      PROVE  (TypeOK /\ HasEntity)'
  BY <1>1 DEF Use
<1>2. ASSUME NEW c \in Calls, Rediscover(c)
      PROVE  (TypeOK /\ HasEntity)'
  BY <1>2 DEF Rediscover
<1>3. ASSUME NEW c \in Calls, Update(c)
      PROVE  (TypeOK /\ HasEntity)'
  <2>1. PICK id \in Ids, r \in Row :
          /\ Starts(c, id, "update") /\ rows[id] \in Row /\ Complete(r.method, r.secrets)
          /\ r.key = rows[id].key /\ r.status = rows[id].status
          /\ copy' = [copy EXCEPT ![c] = r]
    BY <1>3, UpdateReads
  <2> QED
    BY <1>3, <2>1
<1>4. ASSUME NEW c \in Calls, Create(c)
      PROVE  (TypeOK /\ HasEntity)'
  BY <1>4 DEF Create
<1>5. ASSUME NEW c \in Calls, Connected(c)
      PROVE  (TypeOK /\ HasEntity)'
  <2>1. CASE RecentlySeen(copy[c])
    BY <1>5, <2>1 DEF Connected
  <2>2. CASE ~RecentlySeen(copy[c])
    <3>1. PICK seen \in Row :
              /\ seen.target = copy[c].target /\ seen.key = copy[c].key
              /\ seen.legacy = copy[c].legacy /\ seen.method = copy[c].method
              /\ seen.secrets = copy[c].secrets /\ seen.status = "ok"
              /\ copy' = [copy EXCEPT ![c] = seen]
              /\ Writes(c, seen)
      BY <1>5, <2>2, ConnectedSaves
    <3>2. on[c] \in Ids
      BY <1>5 DEF Connected
    <3>3. raced' \in SUBSET Ids
      BY <3>1, <3>2 DEF Overtaken
    <3>4. rows' \in [Ids -> Row \cup {None}] /\ copy' \in [Calls -> Row \cup {None}]
      BY <3>1, <3>2
    <3> QED
      BY <1>5, <3>1, <3>2, <3>3, <3>4 DEF Connected
  <2> QED
    BY <2>1, <2>2
<1>6. ASSUME NEW c \in Calls, Fails(c)
      PROVE  (TypeOK /\ HasEntity)'
  BY <1>6 DEF Fails
<1>7. ASSUME NEW c \in Calls, Succeeds(c)
      PROVE  (TypeOK /\ HasEntity)'
  BY <1>7 DEF Succeeds
<1>8. ASSUME NEW c \in Calls, SavesDiagnostics(c)
      PROVE  (TypeOK /\ HasEntity)'
  BY <1>8 DEF SavesDiagnostics
<1>9. ASSUME NEW c \in Calls, Discovers(c)
      PROVE  (TypeOK /\ HasEntity)'
  BY <1>9 DEF Discovers
<1>10. ASSUME NEW c \in Calls, FindsNothing(c)
      PROVE  (TypeOK /\ HasEntity)'
  BY <1>10 DEF FindsNothing
<1>11. ASSUME NEW c \in Calls, Checks(c)
      PROVE  (TypeOK /\ HasEntity)'
  <2>1. CASE Unavailable(on[c], copy[c].target)
    BY <1>11, <2>1 DEF Checks
  <2>2. CASE ~Unavailable(on[c], copy[c].target)
    <3>1. PICK r \in Row :
              /\ r.target = copy[c].target /\ r.key = copy[c].target /\ ~r.legacy
              /\ r.method = copy[c].method /\ r.secrets = copy[c].secrets
              /\ r.status = copy[c].status
              /\ copy' = [copy EXCEPT ![c] = r] /\ pc' = [pc EXCEPT ![c] = "checked"]
      BY <1>11, <2>2, ChecksPass
    <3>2. UNCHANGED <<rows, unborn, call, past>>
      BY <1>11 DEF Checks
    <3> QED
      BY <1>11, <2>2, <3>1, <3>2 DEF Checks
  <2> QED
    BY <2>1, <2>2
<1>12. ASSUME NEW c \in Calls, Saves(c)
      PROVE  (TypeOK /\ HasEntity)'
  <2>1. copy[c] \in Row /\ on[c] \in Ids
    BY <1>12 DEF Saves
  <2>2. raced' \in SUBSET Ids
    BY <1>12 DEF Saves, Overtaken
  <2>3. crossed' \in SUBSET Ids
    BY <1>12, <2>1 DEF Saves
  <2>4. rows' \in [Ids -> Row \cup {None}] /\ heard' \in [Ids -> {"none", "ok", "failed"}]
    BY <1>12, <2>1 DEF Saves
  <2> QED
    BY <1>12, <2>2, <2>3, <2>4 DEF Saves
<1>13. ASSUME NEW c \in Calls, SaveRefused(c)
      PROVE  (TypeOK /\ HasEntity)'
  BY <1>13 DEF SaveRefused
<1>14. ASSUME NEW id \in Ids, Remove(id)
      PROVE  (TypeOK /\ HasEntity)'
  BY <1>14 DEF Remove
<1>15. CASE TimePasses
  BY <1>15, AgesKeeps, ZenonT(30) DEF TimePasses
<1>16. CASE UNCHANGED vars
  BY <1>16 DEF vars
<1> QED
  BY <1>1, <1>2, <1>3, <1>4, <1>5, <1>6, <1>7, <1>8, <1>9, <1>10, <1>11, <1>12,
     <1>13, <1>14, <1>15, <1>16 DEF Next

\* Rows and entities stay sound.
LEMMA SoundKeeps ==
    ASSUME IInv, [Next]_vars
    PROVE  EntitiesAreSound'
<1> USE DEF IInv, TypeOK, HasEntity, EntitiesAreSound, Sound, Complete
<1>1. ASSUME NEW c \in Calls, Use(c)
      PROVE  EntitiesAreSound'
  BY <1>1 DEF Use
<1>2. ASSUME NEW c \in Calls, Rediscover(c)
      PROVE  EntitiesAreSound'
  BY <1>2 DEF Rediscover
<1>3. ASSUME NEW c \in Calls, Update(c)
      PROVE  EntitiesAreSound'
  <2>1. PICK id \in Ids, r \in Row :
          /\ Starts(c, id, "update") /\ rows[id] \in Row /\ Complete(r.method, r.secrets)
          /\ r.key = rows[id].key /\ r.status = rows[id].status
          /\ copy' = [copy EXCEPT ![c] = r]
    BY <1>3, UpdateReads
  <2> QED
    BY <1>3, <2>1
<1>4. ASSUME NEW c \in Calls, Create(c)
      PROVE  EntitiesAreSound'
  BY <1>4 DEF Create
<1>5. ASSUME NEW c \in Calls, Connected(c)
      PROVE  EntitiesAreSound'
  <2>1. CASE RecentlySeen(copy[c])
    BY <1>5, <2>1 DEF Connected
  <2>2. CASE ~RecentlySeen(copy[c])
    <3>1. PICK seen \in Row :
              /\ seen.target = copy[c].target /\ seen.key = copy[c].key
              /\ seen.legacy = copy[c].legacy /\ seen.method = copy[c].method
              /\ seen.secrets = copy[c].secrets /\ seen.status = "ok"
              /\ copy' = [copy EXCEPT ![c] = seen]
              /\ Writes(c, seen)
      BY <1>5, <2>2, ConnectedSaves
    <3> QED
      BY <1>5, <2>2, <3>1 DEF Connected
  <2> QED
    BY <2>1, <2>2
<1>6. ASSUME NEW c \in Calls, Fails(c)
      PROVE  EntitiesAreSound'
  BY <1>6 DEF Fails
<1>7. ASSUME NEW c \in Calls, Succeeds(c)
      PROVE  EntitiesAreSound'
  BY <1>7 DEF Succeeds
<1>8. ASSUME NEW c \in Calls, SavesDiagnostics(c)
      PROVE  EntitiesAreSound'
  BY <1>8 DEF SavesDiagnostics
<1>9. ASSUME NEW c \in Calls, Discovers(c)
      PROVE  EntitiesAreSound'
  BY <1>9 DEF Discovers
<1>10. ASSUME NEW c \in Calls, FindsNothing(c)
      PROVE  EntitiesAreSound'
  BY <1>10 DEF FindsNothing
<1>11. ASSUME NEW c \in Calls, Checks(c)
      PROVE  EntitiesAreSound'
  <2>1. CASE Unavailable(on[c], copy[c].target)
    BY <1>11, <2>1 DEF Checks
  <2>2. CASE ~Unavailable(on[c], copy[c].target)
    <3>1. PICK r \in Row :
              /\ r.target = copy[c].target /\ r.key = copy[c].target /\ ~r.legacy
              /\ r.method = copy[c].method /\ r.secrets = copy[c].secrets
              /\ r.status = copy[c].status
              /\ copy' = [copy EXCEPT ![c] = r] /\ pc' = [pc EXCEPT ![c] = "checked"]
      BY <1>11, <2>2, ChecksPass
    <3>2. UNCHANGED <<rows, unborn, call, past>>
      BY <1>11 DEF Checks
    <3> QED
      BY <1>11, <2>2, <3>1, <3>2 DEF Checks
  <2> QED
    BY <2>1, <2>2
<1>12. ASSUME NEW c \in Calls, Saves(c)
      PROVE  EntitiesAreSound'
  BY <1>12 DEF Saves
<1>13. ASSUME NEW c \in Calls, SaveRefused(c)
      PROVE  EntitiesAreSound'
  BY <1>13 DEF SaveRefused
<1>14. ASSUME NEW id \in Ids, Remove(id)
      PROVE  EntitiesAreSound'
  BY <1>14 DEF Remove
<1>15. CASE TimePasses
  BY <1>15 DEF TimePasses
<1>16. CASE UNCHANGED vars
  BY <1>16 DEF vars
<1> QED
  BY <1>1, <1>2, <1>3, <1>4, <1>5, <1>6, <1>7, <1>8, <1>9, <1>10, <1>11, <1>12,
     <1>13, <1>14, <1>15, <1>16 DEF Next

\* Targets stay unique.
LEMMA UniqueKeeps ==
    ASSUME IInv, [Next]_vars
    PROVE  UniqueInv'
<1> USE DEF IInv, TypeOK, HasEntity, UniqueInv, RowsShareRightly, CheckedIsFree,
            UncheckedBringsNone, PlainKeysDiffer, Shares, Overtaken, KeyTaken,
            Unavailable, EntitiesAreSound, Sound
<1>1. ASSUME NEW c \in Calls, Use(c)
      PROVE  UniqueInv'
  BY <1>1 DEF Use
<1>2. ASSUME NEW c \in Calls, Rediscover(c)
      PROVE  UniqueInv'
  BY <1>2 DEF Rediscover
<1>3. ASSUME NEW c \in Calls, Update(c)
      PROVE  UniqueInv'
  BY <1>3 DEF Update
<1>4. ASSUME NEW c \in Calls, Create(c)
      PROVE  UniqueInv'
  BY <1>4 DEF Create
<1>5. ASSUME NEW c \in Calls, Connected(c)
      PROVE  UniqueInv'
  <2>1. CASE RecentlySeen(copy[c])
    BY <1>5, <2>1 DEF Connected
  <2>2. CASE ~RecentlySeen(copy[c])
    <3>1. PICK seen \in Row :
              /\ seen.target = copy[c].target /\ seen.key = copy[c].key
              /\ seen.legacy = copy[c].legacy /\ seen.method = copy[c].method
              /\ seen.secrets = copy[c].secrets /\ seen.status = "ok"
              /\ copy' = [copy EXCEPT ![c] = seen]
              /\ Writes(c, seen)
      BY <1>5, <2>2, ConnectedSaves
    <3> QED
      BY <1>5, <2>2, <3>1 DEF Connected
  <2> QED
    BY <2>1, <2>2
<1>6. ASSUME NEW c \in Calls, Fails(c)
      PROVE  UniqueInv'
  BY <1>6 DEF Fails
<1>7. ASSUME NEW c \in Calls, Succeeds(c)
      PROVE  UniqueInv'
  BY <1>7 DEF Succeeds
<1>8. ASSUME NEW c \in Calls, SavesDiagnostics(c)
      PROVE  UniqueInv'
  BY <1>8 DEF SavesDiagnostics
<1>9. ASSUME NEW c \in Calls, Discovers(c)
      PROVE  UniqueInv'
  BY <1>9 DEF Discovers
<1>10. ASSUME NEW c \in Calls, FindsNothing(c)
      PROVE  UniqueInv'
  BY <1>10 DEF FindsNothing
<1>11. ASSUME NEW c \in Calls, Checks(c)
      PROVE  UniqueInv'
  <2>1. CASE Unavailable(on[c], copy[c].target)
    BY <1>11, <2>1 DEF Checks
  <2>2. CASE ~Unavailable(on[c], copy[c].target)
    <3>1. PICK r \in Row :
              /\ r.target = copy[c].target /\ r.key = copy[c].target /\ ~r.legacy
              /\ r.method = copy[c].method /\ r.secrets = copy[c].secrets
              /\ r.status = copy[c].status
              /\ copy' = [copy EXCEPT ![c] = r] /\ pc' = [pc EXCEPT ![c] = "checked"]
      BY <1>11, <2>2, ChecksPass
    <3>2. UNCHANGED <<rows, unborn, call, past>>
      BY <1>11 DEF Checks
    <3> QED
      BY <1>11, <2>2, <3>1, <3>2 DEF Checks
  <2> QED
    BY <2>1, <2>2
<1>12. ASSUME NEW c \in Calls, Saves(c)
      PROVE  UniqueInv'
  BY <1>12 DEF Saves
<1>13. ASSUME NEW c \in Calls, SaveRefused(c)
      PROVE  UniqueInv'
  BY <1>13 DEF SaveRefused
<1>14. ASSUME NEW id \in Ids, Remove(id)
      PROVE  UniqueInv'
  BY <1>14 DEF Remove
<1>15. CASE TimePasses
  BY <1>15 DEF TimePasses
<1>16. CASE UNCHANGED vars
  BY <1>16 DEF vars
<1> QED
  BY <1>1, <1>2, <1>3, <1>4, <1>5, <1>6, <1>7, <1>8, <1>9, <1>10, <1>11, <1>12,
     <1>13, <1>14, <1>15, <1>16 DEF Next

\* Rows stay what their last change left.
LEMMA LatestKeeps ==
    ASSUME IInv, [Next]_vars
    PROVE  SaversKnowLatest'
<1> USE DEF IInv, TypeOK, HasEntity, SaversKnowLatest, Diagnosing, InFlight
<1>1. ASSUME NEW c \in Calls, Use(c)
      PROVE  SaversKnowLatest'
  BY <1>1 DEF Use
<1>2. ASSUME NEW c \in Calls, Rediscover(c)
      PROVE  SaversKnowLatest'
  BY <1>2 DEF Rediscover
<1>3. ASSUME NEW c \in Calls, Update(c)
      PROVE  SaversKnowLatest'
  BY <1>3 DEF Update
<1>4. ASSUME NEW c \in Calls, Create(c)
      PROVE  SaversKnowLatest'
  BY <1>4 DEF Create
<1>5. ASSUME NEW c \in Calls, Connected(c)
      PROVE  SaversKnowLatest'
  <2>1. CASE RecentlySeen(copy[c])
    BY <1>5, <2>1 DEF Connected
  <2>2. CASE ~RecentlySeen(copy[c])
    <3>1. PICK seen \in Row :
              /\ seen.target = copy[c].target /\ seen.key = copy[c].key
              /\ seen.legacy = copy[c].legacy /\ seen.method = copy[c].method
              /\ seen.secrets = copy[c].secrets /\ seen.status = "ok"
              /\ copy' = [copy EXCEPT ![c] = seen]
              /\ Writes(c, seen)
      BY <1>5, <2>2, ConnectedSaves
    <3>2. Change(seen) = Change(copy[c])
      BY <1>5, <3>1, ChangeSame DEF Connected
    <3> QED
      BY <1>5, <2>2, <3>1, <3>2 DEF Connected
  <2> QED
    BY <2>1, <2>2
<1>6. ASSUME NEW c \in Calls, Fails(c)
      PROVE  SaversKnowLatest'
  BY <1>6 DEF Fails
<1>7. ASSUME NEW c \in Calls, Succeeds(c)
      PROVE  SaversKnowLatest'
  BY <1>7 DEF Succeeds
<1>8. ASSUME NEW c \in Calls, SavesDiagnostics(c)
      PROVE  SaversKnowLatest'
  <2>1. CASE rows[on[c]] = None
    BY <1>8, <2>1 DEF SavesDiagnostics
  <2>2. CASE rows[on[c]] # None
    <3> DEFINE r == [rows[on[c]] EXCEPT !.status = "failed"]
    <3>1. on[c] \in Ids /\ rows[on[c]] \in Row
      BY <1>8, <2>2 DEF SavesDiagnostics
    <3>2. /\ r \in Row /\ r.target = rows[on[c]].target /\ r.method = rows[on[c]].method
          /\ r.secrets = rows[on[c]].secrets
      BY <3>1 DEF Row
    <3>3. rows' = [rows EXCEPT ![on[c]] = r]
      BY <1>8, <2>2, <3>1 DEF SavesDiagnostics
    <3> HIDE DEF r
    <3>4. Change(r) = Change(rows[on[c]])
      BY <3>1, <3>2, ChangeSame
    <3> QED
      BY <1>8, <3>1, <3>3, <3>4 DEF SavesDiagnostics
  <2> QED
    BY <2>1, <2>2
<1>9. ASSUME NEW c \in Calls, Discovers(c)
      PROVE  SaversKnowLatest'
  <2>1. \A d \in Calls : pc'[d] = "connecting" => copy'[d] = copy[d] /\ pc[d] = "connecting"
    BY <1>9 DEF Discovers
  <2> QED
    BY <1>9, <2>1 DEF Discovers
<1>10. ASSUME NEW c \in Calls, FindsNothing(c)
      PROVE  SaversKnowLatest'
  BY <1>10 DEF FindsNothing
<1>11. ASSUME NEW c \in Calls, Checks(c)
      PROVE  SaversKnowLatest'
  <2>1. \A d \in Calls : pc'[d] = "connecting" => copy'[d] = copy[d] /\ pc[d] = "connecting"
    BY <1>11 DEF Checks
  <2> QED
    BY <1>11, <2>1 DEF Checks
<1>12. ASSUME NEW c \in Calls, Saves(c)
      PROVE  SaversKnowLatest'
  <2>1. on[c] \in Ids /\ copy[c] \in Row /\ pc'[c] = "done"
    BY <1>12 DEF Saves
  <2>2. CASE Revives(c)
    <3>1. on[c] \in crossed
      BY <1>12, <2>2 DEF Saves, RevivalsCross, Savers
    <3> QED
      BY <1>12, <2>1, <2>2, <3>1 DEF Saves
  <2>3. CASE ~Revives(c)
    <3>1. /\ rows' = [rows EXCEPT ![on[c]] = copy[c]]
          /\ latest' = [latest EXCEPT ![on[c]] = copy[c]]
      BY <1>12, <2>3 DEF Saves
    <3>2. CASE Diagnosing(on[c]) = {}
      <4>1. crossed' = crossed \ {on[c]}
        BY <1>12, <2>3, <3>2 DEF Saves
      <4>2. \A d \in Calls : pc[d] = "connecting" => on[d] # on[c]
        BY <3>2
      <4> QED
        BY <1>12, <2>1, <3>1, <4>1, <4>2 DEF Saves
    <3>3. CASE Diagnosing(on[c]) # {}
      <4>1. crossed' = crossed \cup {on[c]}
        BY <1>12, <2>3, <3>3 DEF Saves
      <4> QED
        BY <1>12, <2>1, <3>1, <4>1 DEF Saves
    <3> QED
      BY <3>2, <3>3
  <2> QED
    BY <2>2, <2>3
<1>13. ASSUME NEW c \in Calls, SaveRefused(c)
      PROVE  SaversKnowLatest'
  BY <1>13 DEF SaveRefused
<1>14. ASSUME NEW id \in Ids, Remove(id)
      PROVE  SaversKnowLatest'
  <2>1. /\ rows' = [rows EXCEPT ![id] = None]
        /\ latest' = [latest EXCEPT ![id] = None]
    BY <1>14 DEF Remove
  <2>2. CASE Savers(id) = {}
    <3>1. crossed' = crossed \ {id}
      BY <1>14, <2>2 DEF Remove
    <3>2. \A d \in Calls : pc[d] = "connecting" => on[d] # id
      BY <2>2 DEF Savers
    <3> QED
      BY <1>14, <2>1, <3>1, <3>2 DEF Remove
  <2>3. CASE Savers(id) # {}
    <3>1. crossed' = crossed \cup {id}
      BY <1>14, <2>3 DEF Remove
    <3> QED
      BY <1>14, <2>1, <3>1 DEF Remove
  <2> QED
    BY <2>2, <2>3
<1>15. CASE TimePasses
  <2>1. ASSUME NEW r \in Row \cup {None}
        PROVE  Change(Ages(r)) = Change(r)
    <3>1. CASE r = None
      BY <3>1
    <3>2. CASE r # None
      <4> HIDE DEF Ages
      <4> QED
        BY <3>2, AgesKeeps, ChangeSame
    <3> QED
      BY <3>1, <3>2
  <2> HIDE DEF Ages
  <2>2. \A id \in Ids : Change(rows'[id]) = Change(rows[id])
    BY <1>15, <2>1 DEF TimePasses
  <2>3. \A c \in Calls : Change(copy'[c]) = Change(copy[c])
    BY <1>15, <2>1 DEF TimePasses
  <2> QED
    BY <1>15, <2>2, <2>3 DEF TimePasses
<1>16. CASE UNCHANGED vars
  BY <1>16 DEF vars
<1> QED
  BY <1>1, <1>2, <1>3, <1>4, <1>5, <1>6, <1>7, <1>8, <1>9, <1>10, <1>11, <1>12,
     <1>13, <1>14, <1>15, <1>16 DEF Next

\* Removed rows that come back stay crossed.
LEMMA RevivalsKeep ==
    ASSUME IInv, [Next]_vars
    PROVE  RevivalsCross'
<1> USE DEF IInv, TypeOK, HasEntity, RevivalsCross, Savers, Diagnosing, Revives,
            InFlight
<1>1. ASSUME NEW c \in Calls, Use(c)
      PROVE  RevivalsCross'
  BY <1>1 DEF Use
<1>2. ASSUME NEW c \in Calls, Rediscover(c)
      PROVE  RevivalsCross'
  BY <1>2 DEF Rediscover
<1>3. ASSUME NEW c \in Calls, Update(c)
      PROVE  RevivalsCross'
  BY <1>3 DEF Update
<1>4. ASSUME NEW c \in Calls, Create(c)
      PROVE  RevivalsCross'
  BY <1>4 DEF Create
<1>5. ASSUME NEW c \in Calls, Connected(c)
      PROVE  RevivalsCross'
  <2>1. CASE RecentlySeen(copy[c])
    BY <1>5, <2>1 DEF Connected
  <2>2. CASE ~RecentlySeen(copy[c])
    <3>1. PICK seen \in Row :
              /\ seen.target = copy[c].target /\ seen.key = copy[c].key
              /\ seen.legacy = copy[c].legacy /\ seen.method = copy[c].method
              /\ seen.secrets = copy[c].secrets /\ seen.status = "ok"
              /\ copy' = [copy EXCEPT ![c] = seen]
              /\ Writes(c, seen)
      BY <1>5, <2>2, ConnectedSaves
    <3> QED
      BY <1>5, <2>2, <3>1 DEF Connected
  <2> QED
    BY <2>1, <2>2
<1>6. ASSUME NEW c \in Calls, Fails(c)
      PROVE  RevivalsCross'
  BY <1>6 DEF Fails
<1>7. ASSUME NEW c \in Calls, Succeeds(c)
      PROVE  RevivalsCross'
  BY <1>7 DEF Succeeds
<1>8. ASSUME NEW c \in Calls, SavesDiagnostics(c)
      PROVE  RevivalsCross'
  <2>1. \A id \in Ids : rows'[id] = None <=> rows[id] = None
    BY <1>8 DEF SavesDiagnostics, Row
  <2> QED
    BY <1>8, <2>1 DEF SavesDiagnostics
<1>9. ASSUME NEW c \in Calls, Discovers(c)
      PROVE  RevivalsCross'
  BY <1>9 DEF Discovers
<1>10. ASSUME NEW c \in Calls, FindsNothing(c)
      PROVE  RevivalsCross'
  BY <1>10 DEF FindsNothing
<1>11. ASSUME NEW c \in Calls, Checks(c)
      PROVE  RevivalsCross'
  <2>1. CASE Unavailable(on[c], copy[c].target)
    BY <1>11, <2>1 DEF Checks
  <2>2. CASE ~Unavailable(on[c], copy[c].target)
    <3>1. PICK r \in Row :
              /\ r.target = copy[c].target /\ r.key = copy[c].target /\ ~r.legacy
              /\ r.method = copy[c].method /\ r.secrets = copy[c].secrets
              /\ r.status = copy[c].status
              /\ copy' = [copy EXCEPT ![c] = r] /\ pc' = [pc EXCEPT ![c] = "checked"]
      BY <1>11, <2>2, ChecksPass
    <3>2. UNCHANGED <<rows, unborn, call, past>>
      BY <1>11 DEF Checks
    <3> QED
      BY <1>11, <2>2, <3>1, <3>2 DEF Checks
  <2> QED
    BY <2>1, <2>2
<1>12. ASSUME NEW c \in Calls, Saves(c)
      PROVE  RevivalsCross'
  BY <1>12 DEF Saves
<1>13. ASSUME NEW c \in Calls, SaveRefused(c)
      PROVE  RevivalsCross'
  BY <1>13 DEF SaveRefused
<1>14. ASSUME NEW id \in Ids, Remove(id)
      PROVE  RevivalsCross'
  BY <1>14 DEF Remove
<1>15. CASE TimePasses
  <2> HIDE DEF Ages
  <2>1. \A id \in Ids : rows'[id] = None <=> rows[id] = None
    BY <1>15, AgesKeeps DEF TimePasses
  <2> QED
    BY <1>15, <2>1 DEF TimePasses
<1>16. CASE UNCHANGED vars
  BY <1>16 DEF vars
<1> QED
  BY <1>1, <1>2, <1>3, <1>4, <1>5, <1>6, <1>7, <1>8, <1>9, <1>10, <1>11, <1>12,
     <1>13, <1>14, <1>15, <1>16 DEF Next

\* An id is used once.
LEMMA UnbornKeeps ==
    ASSUME IInv, [Next]_vars
    PROVE  (UnbornIsUntouched /\ CreatesOnce)'
<1> USE DEF IInv, TypeOK, HasEntity, UnbornIsUntouched, CreatesOnce, InFlight
<1>1. ASSUME NEW c \in Calls, Use(c)
      PROVE  (UnbornIsUntouched /\ CreatesOnce)'
  BY <1>1 DEF Use
<1>2. ASSUME NEW c \in Calls, Rediscover(c)
      PROVE  (UnbornIsUntouched /\ CreatesOnce)'
  BY <1>2 DEF Rediscover
<1>3. ASSUME NEW c \in Calls, Update(c)
      PROVE  (UnbornIsUntouched /\ CreatesOnce)'
  BY <1>3 DEF Update
<1>4. ASSUME NEW c \in Calls, Create(c)
      PROVE  (UnbornIsUntouched /\ CreatesOnce)'
  BY <1>4 DEF Create
<1>5. ASSUME NEW c \in Calls, Connected(c)
      PROVE  (UnbornIsUntouched /\ CreatesOnce)'
  <2>1. CASE RecentlySeen(copy[c])
    BY <1>5, <2>1 DEF Connected
  <2>2. CASE ~RecentlySeen(copy[c])
    <3>1. PICK seen \in Row :
              /\ seen.target = copy[c].target /\ seen.key = copy[c].key
              /\ seen.legacy = copy[c].legacy /\ seen.method = copy[c].method
              /\ seen.secrets = copy[c].secrets /\ seen.status = "ok"
              /\ copy' = [copy EXCEPT ![c] = seen]
              /\ Writes(c, seen)
      BY <1>5, <2>2, ConnectedSaves
    <3> QED
      BY <1>5, <2>2, <3>1 DEF Connected
  <2> QED
    BY <2>1, <2>2
<1>6. ASSUME NEW c \in Calls, Fails(c)
      PROVE  (UnbornIsUntouched /\ CreatesOnce)'
  BY <1>6 DEF Fails
<1>7. ASSUME NEW c \in Calls, Succeeds(c)
      PROVE  (UnbornIsUntouched /\ CreatesOnce)'
  BY <1>7 DEF Succeeds
<1>8. ASSUME NEW c \in Calls, SavesDiagnostics(c)
      PROVE  (UnbornIsUntouched /\ CreatesOnce)'
  BY <1>8 DEF SavesDiagnostics
<1>9. ASSUME NEW c \in Calls, Discovers(c)
      PROVE  (UnbornIsUntouched /\ CreatesOnce)'
  BY <1>9 DEF Discovers
<1>10. ASSUME NEW c \in Calls, FindsNothing(c)
      PROVE  (UnbornIsUntouched /\ CreatesOnce)'
  BY <1>10 DEF FindsNothing
<1>11. ASSUME NEW c \in Calls, Checks(c)
      PROVE  (UnbornIsUntouched /\ CreatesOnce)'
  <2>1. CASE Unavailable(on[c], copy[c].target)
    BY <1>11, <2>1 DEF Checks
  <2>2. CASE ~Unavailable(on[c], copy[c].target)
    <3>1. PICK r \in Row :
              /\ r.target = copy[c].target /\ r.key = copy[c].target /\ ~r.legacy
              /\ r.method = copy[c].method /\ r.secrets = copy[c].secrets
              /\ r.status = copy[c].status
              /\ copy' = [copy EXCEPT ![c] = r] /\ pc' = [pc EXCEPT ![c] = "checked"]
      BY <1>11, <2>2, ChecksPass
    <3>2. UNCHANGED <<rows, unborn, call, past>>
      BY <1>11 DEF Checks
    <3> QED
      BY <1>11, <2>2, <3>1, <3>2 DEF Checks
  <2> QED
    BY <2>1, <2>2
<1>12. ASSUME NEW c \in Calls, Saves(c)
      PROVE  (UnbornIsUntouched /\ CreatesOnce)'
  BY <1>12 DEF Saves
<1>13. ASSUME NEW c \in Calls, SaveRefused(c)
      PROVE  (UnbornIsUntouched /\ CreatesOnce)'
  BY <1>13 DEF SaveRefused
<1>14. ASSUME NEW id \in Ids, Remove(id)
      PROVE  (UnbornIsUntouched /\ CreatesOnce)'
  BY <1>14 DEF Remove
<1>15. CASE TimePasses
  BY <1>15 DEF TimePasses
<1>16. CASE UNCHANGED vars
  BY <1>16 DEF vars
<1> QED
  BY <1>1, <1>2, <1>3, <1>4, <1>5, <1>6, <1>7, <1>8, <1>9, <1>10, <1>11, <1>12,
     <1>13, <1>14, <1>15, <1>16 DEF Next

\* A lone call knows the status.
LEMMA StatusKeeps ==
    ASSUME IInv, [Next]_vars
    PROVE  LoneKnowsStatus'
<1> USE DEF IInv, TypeOK, HasEntity, LoneKnowsStatus, UnbornIsUntouched,
            CreatesOnce, StatusIs, InFlight, RecentlySeen
<1>1. ASSUME NEW c \in Calls, Use(c)
      PROVE  LoneKnowsStatus'
  BY <1>1 DEF Use
<1>2. ASSUME NEW c \in Calls, Rediscover(c)
      PROVE  LoneKnowsStatus'
  BY <1>2 DEF Rediscover
<1>3. ASSUME NEW c \in Calls, Update(c)
      PROVE  LoneKnowsStatus'
  <2>1. PICK id \in Ids, r \in Row :
          /\ Starts(c, id, "update") /\ rows[id] \in Row /\ Complete(r.method, r.secrets)
          /\ r.key = rows[id].key /\ r.status = rows[id].status
          /\ copy' = [copy EXCEPT ![c] = r]
    BY <1>3, UpdateReads
  <2> QED
    BY <1>3, <2>1
<1>4. ASSUME NEW c \in Calls, Create(c)
      PROVE  LoneKnowsStatus'
  BY <1>4 DEF Create
<1>5. ASSUME NEW c \in Calls, Connected(c)
      PROVE  LoneKnowsStatus'
  <2>1. CASE RecentlySeen(copy[c])
    BY <1>5, <2>1 DEF Connected
  <2>2. CASE ~RecentlySeen(copy[c])
    <3>1. PICK seen \in Row :
              /\ seen.target = copy[c].target /\ seen.key = copy[c].key
              /\ seen.legacy = copy[c].legacy /\ seen.method = copy[c].method
              /\ seen.secrets = copy[c].secrets /\ seen.status = "ok"
              /\ copy' = [copy EXCEPT ![c] = seen]
              /\ Writes(c, seen)
      BY <1>5, <2>2, ConnectedSaves
    <3> QED
      BY <1>5, <2>2, <3>1 DEF Connected
  <2> QED
    BY <2>1, <2>2
<1>6. ASSUME NEW c \in Calls, Fails(c)
      PROVE  LoneKnowsStatus'
  BY <1>6 DEF Fails
<1>7. ASSUME NEW c \in Calls, Succeeds(c)
      PROVE  LoneKnowsStatus'
  BY <1>7 DEF Succeeds
<1>8. ASSUME NEW c \in Calls, SavesDiagnostics(c)
      PROVE  LoneKnowsStatus'
  BY <1>8 DEF SavesDiagnostics
<1>9. ASSUME NEW c \in Calls, Discovers(c)
      PROVE  LoneKnowsStatus'
  BY <1>9 DEF Discovers
<1>10. ASSUME NEW c \in Calls, FindsNothing(c)
      PROVE  LoneKnowsStatus'
  BY <1>10 DEF FindsNothing
<1>11. ASSUME NEW c \in Calls, Checks(c)
      PROVE  LoneKnowsStatus'
  <2>1. CASE Unavailable(on[c], copy[c].target)
    <3>1. /\ UNCHANGED <<rows, unborn, call, copy, past>>
          /\ pc' = [pc EXCEPT ![c] = Refused(c)]
          /\ pc[c] \in Busy /\ pc[c] \in {"read", "checked", "kept"}
      BY <1>11, <2>1 DEF Checks
    <3>2. CASE kind[c] = "rediscover"
      BY <1>11, <3>1, <3>2
    <3>3. CASE kind[c] = "update"
      BY <1>11, <3>1, <3>3
    <3>4. CASE kind[c] = "create"
      BY <1>11, <3>1, <3>4
    <3> QED
      BY <3>1, <3>2, <3>3, <3>4 DEF Kinds
  <2>2. CASE ~Unavailable(on[c], copy[c].target)
    <3>1. PICK r \in Row :
              /\ r.target = copy[c].target /\ r.key = copy[c].target /\ ~r.legacy
              /\ r.method = copy[c].method /\ r.secrets = copy[c].secrets
              /\ r.status = copy[c].status
              /\ copy' = [copy EXCEPT ![c] = r] /\ pc' = [pc EXCEPT ![c] = "checked"]
      BY <1>11, <2>2, ChecksPass
    <3>2. UNCHANGED <<rows, unborn, call, past>>
      BY <1>11 DEF Checks
    <3> QED
      BY <1>11, <2>2, <3>1, <3>2 DEF Checks
  <2> QED
    BY <2>1, <2>2
<1>12. ASSUME NEW c \in Calls, Saves(c)
      PROVE  LoneKnowsStatus'
  <2>1. /\ pc[c] \in {"checked", "kept"} /\ pc' = [pc EXCEPT ![c] = "done"]
        /\ on[c] \in Ids /\ copy[c] \in Row /\ rows' = [rows EXCEPT ![on[c]] = copy[c]]
        /\ UNCHANGED <<unborn, call, copy, mixed>>
    BY <1>12 DEF Saves
  <2>2. heard' = IF kind[c] = "rediscover" THEN [heard EXCEPT ![on[c]] = "ok"] ELSE heard
    BY <1>12 DEF Saves
  <2>3. on[c] \notin mixed => copy[c].status = heard'[on[c]]
    BY <2>1, <2>2 DEF Kinds
  <2>4. \A id \in Ids : InFlight(id)' \subseteq InFlight(id)
    BY <2>1
  <2>5. \A d \in Calls \ {c} : pc[d] \in Busy /\ on[d] = on[c] => on[c] \in mixed
    BY <2>1
  <2> QED
    BY <2>1, <2>2, <2>3, <2>4, <2>5
<1>13. ASSUME NEW c \in Calls, SaveRefused(c)
      PROVE  LoneKnowsStatus'
  <2>1. /\ UNCHANGED <<rows, unborn, call, copy, past>>
        /\ pc' = [pc EXCEPT ![c] = Refused(c)]
        /\ pc[c] \in Busy /\ pc[c] \in {"read", "checked", "kept"}
    BY <1>13 DEF SaveRefused
  <2>2. CASE kind[c] = "rediscover"
    BY <1>13, <2>1, <2>2
  <2>3. CASE kind[c] = "update"
    BY <1>13, <2>1, <2>3
  <2>4. CASE kind[c] = "create"
    BY <1>13, <2>1, <2>4
  <2> QED
    BY <2>1, <2>2, <2>3, <2>4 DEF Kinds
<1>14. ASSUME NEW id \in Ids, Remove(id)
      PROVE  LoneKnowsStatus'
  BY <1>14 DEF Remove
<1>15. CASE TimePasses
  BY <1>15 DEF TimePasses
<1>16. CASE UNCHANGED vars
  BY <1>16 DEF vars
<1> QED
  BY <1>1, <1>2, <1>3, <1>4, <1>5, <1>6, <1>7, <1>8, <1>9, <1>10, <1>11, <1>12,
     <1>13, <1>14, <1>15, <1>16 DEF Next

LEMMA InvInit == Init => IInv
<1> SUFFICES ASSUME Init PROVE IInv
  OBVIOUS
<1>1. \A id \in Ids : rows[id] # None =>
        /\ rows[id] \in Row /\ rows[id].key = rows[id].target
        /\ rows[id].secrets = {rows[id].method} /\ rows[id].status = "none"
  BY DEF Init
<1>2. \A c \in Calls : pc[c] = "idle"
  BY DEF Init
<1>3. TypeOK
  BY DEF Init, TypeOK, Kinds
<1>4. EntitiesAreSound /\ HasEntity /\ CreatesOnce
  BY <1>1, <1>2 DEF EntitiesAreSound, Sound, Complete, HasEntity, CreatesOnce
<1>5. UniqueInv
  <2>1. RowsShareRightly /\ PlainKeysDiffer
    BY DEF Init, RowsShareRightly, PlainKeysDiffer, Shares
  <2>2. CheckedIsFree /\ UncheckedBringsNone
    BY <1>2 DEF CheckedIsFree, UncheckedBringsNone
  <2> QED
    BY <2>1, <2>2 DEF UniqueInv
<1>6. SaversKnowLatest /\ RevivalsCross
  BY <1>2, <1>3 DEF Init, TypeOK, SaversKnowLatest, RevivalsCross, Savers,
     Diagnosing, InFlight
<1>7. UnbornIsUntouched /\ LoneKnowsStatus
  BY <1>1, <1>2 DEF Init, UnbornIsUntouched, LoneKnowsStatus, InFlight, StatusIs
<1> QED
  BY <1>3, <1>4, <1>5, <1>6, <1>7 DEF IInv

\* The invariant that the theorems below rest on.
THEOREM Inductive == Spec => []IInv
<1>1. IInv /\ [Next]_vars => IInv'
  BY TypesKeep, SoundKeeps, UniqueKeeps, LatestKeeps, RevivalsKeep, UnbornKeeps,
     StatusKeeps
     DEF IInv
<1> QED
  BY InvInit, <1>1, PTL DEF Spec

\* Every variable has its type.
THEOREM TypeCorrect == Spec => []TypeOK
<1>1. IInv => TypeOK
  BY DEF IInv
<1> QED
  BY <1>1, Inductive, PTL

\* Rows share a target only where the migration left them so or a check was
\* void, and one at most has the plain key.
THEOREM TargetsUnique == Spec => []TargetsAreUnique
<1>1. IInv => TargetsAreUnique
  BY DEF IInv, TargetsAreUnique, EntitiesAreSound, Sound, UniqueInv,
     RowsShareRightly,
         PlainKeysDiffer, Shares
<1> QED
  BY <1>1, Inductive, PTL

\* Stale entities undo no change, unless they were read before it and saved
\* after it.
THEOREM ChangesLast == Spec => []RowTellsLastChange
<1>1. IInv => RowTellsLastChange
  BY DEF IInv, RowTellsLastChange, SaversKnowLatest
<1> QED
  BY <1>1, Inductive, PTL

\* The status of a row is that of the last call that had the host for itself.
THEOREM StatusIsTold == Spec => []StatusTellsLastCall
<1>1. IInv => StatusTellsLastCall
  BY DEF IInv, StatusTellsLastCall, LoneKnowsStatus, StatusIs
<1> QED
  BY <1>1, Inductive, PTL
=============================================================================
