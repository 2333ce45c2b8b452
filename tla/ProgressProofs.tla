--------------------------- MODULE ProgressProofs ---------------------------
(***************************************************************************)
(* Proofs, for any number of wrappers, keys, deaths and losses, that one   *)
(* key fits whatever is encrypted, and that a container which shuts down   *)
(* tells every child.  What must eventually happen stays with TLC.         *)
(***************************************************************************)
EXTENDS Progress, TLAPS

\* Who has made the key file and has yet to write it is alone with it, and
\* nothing is encrypted so far.
OneWriter ==
    /\ loading = "write" \/ (\E w \in Wrappers : wrapper[w] = "write") => key = Partial
    /\ loading = "write" => \A w \in Wrappers : wrapper[w] # "write"
    /\ \A v, w \in Wrappers : wrapper[v] = "write" /\ wrapper[w] = "write" => v = w

\* Whoever is about to make a key file still finds one that others have made
\* meanwhile, or a database without secrets.
CreatesForNothing ==
    /\ (\E w \in Wrappers : wrapper[w] = "create") /\ key = None => secrets = {}
    /\ api = "starting" /\ ~existed => secrets = {}
    /\ loading \in {"create", "write"} => ~existed

\* The key that the API has read or made is the one on the disk.
MemoryIsTheFile ==
    /\ loading = "done" <=> memory # None
    /\ memory # None => memory = key
    /\ api = "up" => loading = "done"
    /\ api \in {"off", "exited"} => loading = "read"

\* What is encrypted was encrypted with one key, which only a loss removes.
SecretsHaveTheirKey ==
    /\ \A k, l \in secrets : k = l
    /\ key # None => secrets \subseteq {key}
    /\ key = None /\ secrets # {} => losses # 0
    /\ secrets # {} => database # None
    /\ api = "up" => database # None

\* Only a container shuts down and waits for its children's exits.
DockerOnly ==
    deployment = "pm2" =>
        /\ entrypoint = "off" /\ ~shuttingDown /\ signalled = {}
        /\ api # "exited" /\ web # "exited"

FilesInv == /\ OneWriter /\ CreatesForNothing /\ MemoryIsTheFile /\ SecretsHaveTheirKey

ContainerInv == DockerOnly /\ NobodyIsLeft

StartupInv == StartupTypeOK /\ FilesInv /\ ContainerInv

IInv == StartupInv /\ PageTypeOK

-----------------------------------------------------------------------------
USE StartupConstants DEF StartupConstants, Keys, Partial

LEMMA Bounds == MaxKeys \in Nat /\ MaxCrashes \in Nat /\ MaxLosses \in Nat
BY StartupConstants DEF StartupConstants

LEMMA CountedStays ==
    ASSUME crashes \in 0..MaxCrashes, Counted
    PROVE  crashes' \in 0..MaxCrashes
BY Bounds DEF Counted

LEMMA StartupHolds == StartupInit => StartupInv
<1> SUFFICES ASSUME StartupInit
             PROVE  StartupInv
  OBVIOUS
<1> USE DEF StartupInit
<1>1. StartupTypeOK
  <2>1. 0 \in 0..MaxKeys /\ 0 \in 0..MaxCrashes /\ 0 \in 0..MaxLosses
    BY Bounds
  <2> QED
    BY <2>1 DEF StartupTypeOK
<1>2. OneWriter /\ CreatesForNothing /\ MemoryIsTheFile /\ SecretsHaveTheirKey
  BY DEF OneWriter, CreatesForNothing, MemoryIsTheFile, SecretsHaveTheirKey
<1>3. DockerOnly /\ NobodyIsLeft
  BY DEF DockerOnly, NobodyIsLeft
<1> QED
  BY <1>1, <1>2, <1>3 DEF StartupInv, FilesInv, ContainerInv

\* The API starts.
LEMMA BootTypes ==
    ASSUME StartupInv,
           ApiBoots
    PROVE  StartupTypeOK'
<1> USE DEF StartupInv, StartupTypeOK,
            BootStep, Step, startupVars, fileVars, countVars, bootVars, containerVars
<1>1. CASE ApiOpens
  BY <1>1 DEF ApiOpens, OpenDatabase
<1>2. CASE ApiMigrates
  BY <1>2 DEF ApiMigrates, RunMigrations
<1>3. CASE ApiReads
  BY <1>3 DEF ApiReads
<1>4. CASE ApiCreates
  BY <1>4 DEF ApiCreates, CreateKeyFile
<1>5. CASE ApiWrites
  BY <1>5 DEF ApiWrites, WriteKeyFile
<1>6. CASE BootFails
  BY <1>6 DEF BootFails, ApiEnds, Forgotten
<1>7. CASE ApiListens
  BY <1>7 DEF ApiListens
<1> QED
  BY <1>1, <1>2, <1>3, <1>4, <1>5, <1>6, <1>7 DEF ApiBoots

LEMMA BootFiles ==
    ASSUME StartupInv,
           ApiBoots
    PROVE  FilesInv'
<1> USE DEF StartupInv, FilesInv, StartupTypeOK, OneWriter, CreatesForNothing, MemoryIsTheFile,
            SecretsHaveTheirKey,
            BootStep, Step, startupVars, fileVars, countVars, bootVars, containerVars
<1>1. CASE ApiOpens
  BY <1>1 DEF ApiOpens, OpenDatabase
<1>2. CASE ApiMigrates
  BY <1>2 DEF ApiMigrates, RunMigrations
<1>3. CASE ApiReads
  BY <1>3 DEF ApiReads
<1>4. CASE ApiCreates
  BY <1>4 DEF ApiCreates, CreateKeyFile
<1>5. CASE ApiWrites
  BY <1>5 DEF ApiWrites, WriteKeyFile
<1>6. CASE BootFails
  BY <1>6 DEF BootFails, ApiEnds, Forgotten
<1>7. CASE ApiListens
  BY <1>7 DEF ApiListens
<1> QED
  BY <1>1, <1>2, <1>3, <1>4, <1>5, <1>6, <1>7 DEF ApiBoots

LEMMA BootChildren ==
    ASSUME StartupInv,
           ApiBoots
    PROVE  ContainerInv'
<1> USE DEF StartupInv, ContainerInv, DockerOnly, NobodyIsLeft, Alive,
            FilesInv, MemoryIsTheFile, StartupTypeOK,
            BootStep, Step, startupVars, fileVars, countVars, bootVars, containerVars
<1>1. CASE ApiOpens
  BY <1>1 DEF ApiOpens, OpenDatabase
<1>2. CASE ApiMigrates
  BY <1>2 DEF ApiMigrates, RunMigrations
<1>3. CASE ApiReads
  BY <1>3 DEF ApiReads
<1>4. CASE ApiCreates
  BY <1>4 DEF ApiCreates, CreateKeyFile
<1>5. CASE ApiWrites
  BY <1>5 DEF ApiWrites, WriteKeyFile
<1>6. CASE BootFails
  BY <1>6 DEF BootFails, ApiEnds, Forgotten
<1>7. CASE ApiListens
  BY <1>7 DEF ApiListens
<1> QED
  BY <1>1, <1>2, <1>3, <1>4, <1>5, <1>6, <1>7 DEF ApiBoots

\* What PM2, Docker and the entrypoint do.
LEMMA SupervisionTypes ==
    ASSUME StartupInv,
           Supervision
    PROVE  StartupTypeOK'
<1> USE DEF StartupInv, StartupTypeOK,
            BootStep, Step, startupVars, fileVars, countVars, bootVars, containerVars
<1>1. CASE Pm2StartsApi
  BY <1>1 DEF Pm2StartsApi, ApiStarts
<1>2. CASE Pm2StartsWeb
  BY <1>2 DEF Pm2StartsWeb
<1>3. CASE ContainerStarts
  BY <1>3 DEF ContainerStarts, ApiStarts
<1>4. CASE WebStarts
  BY <1>4 DEF WebStarts
<1>5. CASE ApiIsHealthy
  BY <1>5 DEF ApiIsHealthy, InContainer
<1>6. CASE FindShutdown
  BY <1>6 DEF FindShutdown, InContainer
<1>7. CASE SpawnWeb
  BY <1>7 DEF SpawnWeb, InContainer
<1>8. ASSUME NEW c \in {"api", "web"}, ChildExited(c)
      PROVE  StartupTypeOK'
  <2>1. signalled' \subseteq {"api", "web"}
    BY <1>8 DEF ChildExited, Shutdown, Alive
  <2>2. api' \in {"off", "starting", "up", "exited"} /\ web' \in {"off", "starting", "up", "exited"}
    BY <1>8 DEF ChildExited
  <2> QED
    BY <1>8, <2>1, <2>2 DEF ChildExited, InContainer, Shutdown
<1>9. CASE ApiObeys
  BY <1>9 DEF ApiObeys, ApiEnds, Forgotten
<1>10. CASE WebObeys
  BY <1>10 DEF WebObeys, InContainer
<1>11. CASE ContainerEnds
  BY <1>11 DEF ContainerEnds, Forgotten
<1> QED
  BY <1>1, <1>2, <1>3, <1>4, <1>5, <1>6, <1>7, <1>8, <1>9, <1>10, <1>11 DEF Supervision

LEMMA SupervisionFiles ==
    ASSUME StartupInv,
           Supervision
    PROVE  FilesInv'
<1> USE DEF StartupInv, FilesInv, StartupTypeOK, OneWriter, CreatesForNothing, MemoryIsTheFile,
            SecretsHaveTheirKey,
            BootStep, Step, startupVars, fileVars, countVars, bootVars, containerVars
<1>1. CASE Pm2StartsApi
  BY <1>1 DEF Pm2StartsApi, ApiStarts
<1>2. CASE Pm2StartsWeb
  BY <1>2 DEF Pm2StartsWeb
<1>3. CASE ContainerStarts
  BY <1>3 DEF ContainerStarts, ApiStarts
<1>4. CASE WebStarts
  BY <1>4 DEF WebStarts
<1>5. CASE ApiIsHealthy
  BY <1>5 DEF ApiIsHealthy, InContainer
<1>6. CASE FindShutdown
  BY <1>6 DEF FindShutdown, InContainer
<1>7. CASE SpawnWeb
  BY <1>7 DEF SpawnWeb, InContainer
<1>8. ASSUME NEW c \in {"api", "web"}, ChildExited(c)
      PROVE  FilesInv'
  BY <1>8 DEF ChildExited, InContainer, Shutdown
<1>9. CASE ApiObeys
  BY <1>9 DEF ApiObeys, ApiEnds, Forgotten
<1>10. CASE WebObeys
  BY <1>10 DEF WebObeys, InContainer
<1>11. CASE ContainerEnds
  BY <1>11 DEF ContainerEnds, Forgotten
<1> QED
  BY <1>1, <1>2, <1>3, <1>4, <1>5, <1>6, <1>7, <1>8, <1>9, <1>10, <1>11 DEF Supervision

LEMMA SupervisionChildren ==
    ASSUME StartupInv,
           Supervision
    PROVE  ContainerInv'
<1> USE DEF StartupInv, ContainerInv, DockerOnly, NobodyIsLeft, Alive,
            FilesInv, MemoryIsTheFile, StartupTypeOK,
            BootStep, Step, startupVars, fileVars, countVars, bootVars, containerVars
<1>1. CASE Pm2StartsApi
  BY <1>1 DEF Pm2StartsApi, ApiStarts
<1>2. CASE Pm2StartsWeb
  BY <1>2 DEF Pm2StartsWeb
<1>3. CASE ContainerStarts
  BY <1>3 DEF ContainerStarts, ApiStarts
<1>4. CASE WebStarts
  BY <1>4 DEF WebStarts
<1>5. CASE ApiIsHealthy
  BY <1>5 DEF ApiIsHealthy, InContainer
<1>6. CASE FindShutdown
  BY <1>6 DEF FindShutdown, InContainer
<1>7. CASE SpawnWeb
  BY <1>7 DEF SpawnWeb, InContainer
<1>8. ASSUME NEW c \in {"api", "web"}, ChildExited(c)
      PROVE  ContainerInv'
  BY <1>8 DEF ChildExited, InContainer, Shutdown
<1>9. CASE ApiObeys
  BY <1>9 DEF ApiObeys, ApiEnds, Forgotten
<1>10. CASE WebObeys
  BY <1>10 DEF WebObeys, InContainer
<1>11. CASE ContainerEnds
  BY <1>11 DEF ContainerEnds, Forgotten
<1> QED
  BY <1>1, <1>2, <1>3, <1>4, <1>5, <1>6, <1>7, <1>8, <1>9, <1>10, <1>11 DEF Supervision

\* A wrapper migrates.
LEMMA WrapperTypes ==
    ASSUME StartupInv,
           NEW w \in Wrappers, StartWrapper(w) \/ WrapperStep(w) \/ WrapperCrashes(w)
    PROVE  StartupTypeOK'
<1> USE DEF StartupInv, StartupTypeOK,
            BootStep, Step, startupVars, fileVars, countVars, bootVars, containerVars
<1>1. CASE StartWrapper(w)
  BY <1>1 DEF StartWrapper
<1>2. CASE AskDatabase(w)
  BY <1>2 DEF AskDatabase
<1>3. CASE WrapperCreates(w)
  <2>1. key' \in {key, Partial}
    BY <1>3 DEF WrapperCreates, CreateKeyFile
  <2>2. wrapper' \in [Wrappers -> {"off", "noKey", "create", "write", "validate", "migrate"}]
    BY <1>3 DEF WrapperCreates
  <2>3. UNCHANGED <<deployment, settings, secrets, crashes, losses, api, bootVars,
                    containerVars, database, made>>
    BY <1>3 DEF WrapperCreates
  <2> QED
    BY <2>1, <2>2, <2>3
<1>4. CASE WrapperWrites(w)
  BY <1>4 DEF WrapperWrites, WriteKeyFile
<1>5. CASE Validate(w)
  <2>1. database' \in {database, "empty"}
    BY <1>5 DEF Validate, OpenDatabase
  <2>2. wrapper' \in [Wrappers -> {"off", "noKey", "create", "write", "validate", "migrate"}]
    BY <1>5 DEF Validate
  <2>3. UNCHANGED <<deployment, settings, secrets, crashes, losses, api, bootVars,
                    containerVars, key, made>>
    BY <1>5 DEF Validate
  <2> QED
    BY <2>1, <2>2, <2>3
<1>6. CASE WrapperMigrates(w)
  BY <1>6 DEF WrapperMigrates, RunMigrations
<1>7. CASE WrapperCrashes(w)
  BY <1>7, CountedStays DEF WrapperCrashes
<1> QED
  BY <1>1, <1>2, <1>3, <1>4, <1>5, <1>6, <1>7 DEF WrapperStep

LEMMA WrapperFiles ==
    ASSUME StartupInv,
           NEW w \in Wrappers, StartWrapper(w) \/ WrapperStep(w) \/ WrapperCrashes(w)
    PROVE  FilesInv'
<1> USE DEF StartupInv, FilesInv, StartupTypeOK, OneWriter, CreatesForNothing, MemoryIsTheFile,
            SecretsHaveTheirKey,
            BootStep, Step, startupVars, fileVars, countVars, bootVars, containerVars
<1>1. CASE StartWrapper(w)
  BY <1>1 DEF StartWrapper
<1>2. CASE AskDatabase(w)
  BY <1>2 DEF AskDatabase
<1>3. CASE WrapperCreates(w)
  <2>1. CASE key = None
    <3>1. /\ key' = Partial /\ secrets = {} /\ memory = None /\ loading # "write"
          /\ \A v \in Wrappers : wrapper[v] # "write"
          /\ wrapper' = [wrapper EXCEPT ![w] = "write"]
          /\ UNCHANGED <<secrets, losses, database, api, existed, loading, memory>>
      BY <1>3, <2>1 DEF WrapperCreates, CreateKeyFile
    <3> QED
      BY <3>1
  <2>2. CASE key # None
    <3>1. /\ wrapper' = [wrapper EXCEPT ![w] = "validate"]
          /\ UNCHANGED <<key, secrets, losses, database, api, existed, loading, memory>>
      BY <1>3, <2>2 DEF WrapperCreates, CreateKeyFile
    <3> QED
      BY <2>2, <3>1
  <2> QED
    BY <2>1, <2>2
<1>4. CASE WrapperWrites(w)
  BY <1>4 DEF WrapperWrites, WriteKeyFile
<1>5. CASE Validate(w)
  <2>1. /\ \E next \in {"migrate", "off"} : wrapper' = [wrapper EXCEPT ![w] = next]
        /\ UNCHANGED <<key, secrets, losses, api, existed, loading, memory>>
    BY <1>5 DEF Validate
  <2>2. database # None => database' # None
    BY <1>5 DEF Validate, OpenDatabase
  <2> QED
    BY <2>1, <2>2
<1>6. CASE WrapperMigrates(w)
  BY <1>6 DEF WrapperMigrates, RunMigrations
<1>7. CASE WrapperCrashes(w)
  BY <1>7 DEF WrapperCrashes, Counted
<1> QED
  BY <1>1, <1>2, <1>3, <1>4, <1>5, <1>6, <1>7 DEF WrapperStep

\* A wrapper leaves the children of a container alone.
LEMMA WrapperChildren ==
    ASSUME StartupInv, NEW w \in Wrappers,
           StartWrapper(w) \/ WrapperStep(w) \/ WrapperCrashes(w)
    PROVE  ContainerInv'
<1>1. UNCHANGED <<deployment, api, containerVars>>
  <2> USE DEF Step
  <2>1. CASE StartWrapper(w) \/ WrapperCrashes(w)
    BY <2>1 DEF StartWrapper, WrapperCrashes
  <2>2. CASE WrapperStep(w)
    BY <2>2 DEF WrapperStep, AskDatabase, WrapperCreates, WrapperWrites, Validate,
                WrapperMigrates
  <2> QED
    BY <2>1, <2>2
<1> QED
  BY <1>1 DEF StartupInv, ContainerInv, DockerOnly, NobodyIsLeft, Alive, containerVars

\* What goes wrong, and what the operator and the API that is up do.
LEMMA OtherTypes ==
    ASSUME StartupInv,
           \/ StoreSecret \/ ApiCrashes \/ WebCrashes \/ GiveUp \/ Terminated
           \/ LoseKey \/ RestoreKey
    PROVE  StartupTypeOK'
<1> USE DEF StartupInv, StartupTypeOK,
            BootStep, Step, startupVars, fileVars, countVars, bootVars, containerVars
<1>1. CASE StoreSecret
  BY <1>1 DEF StoreSecret, FilesInv, MemoryIsTheFile
<1>2. CASE ApiCrashes
  BY <1>2, CountedStays DEF ApiCrashes, ApiEnds, Forgotten
<1>3. CASE WebCrashes
  BY <1>3, CountedStays DEF WebCrashes
<1>4. CASE GiveUp
  BY <1>4, CountedStays DEF GiveUp, InContainer, Shutdown, Alive
<1>5. CASE Terminated
  BY <1>5, CountedStays DEF Terminated, InContainer, Shutdown, Alive
<1>6. CASE LoseKey
  BY <1>6 DEF LoseKey, NothingRuns
<1>7. CASE RestoreKey
  BY <1>7 DEF RestoreKey, NothingRuns
<1> QED
  BY <1>1, <1>2, <1>3, <1>4, <1>5, <1>6, <1>7

LEMMA OtherFiles ==
    ASSUME StartupInv,
           \/ StoreSecret \/ ApiCrashes \/ WebCrashes \/ GiveUp \/ Terminated
           \/ LoseKey \/ RestoreKey
    PROVE  FilesInv'
<1> USE DEF StartupInv, FilesInv, StartupTypeOK, OneWriter, CreatesForNothing, MemoryIsTheFile,
            SecretsHaveTheirKey,
            BootStep, Step, startupVars, fileVars, countVars, bootVars, containerVars
<1>1. CASE StoreSecret
  BY <1>1 DEF StoreSecret
<1>2. CASE ApiCrashes
  BY <1>2 DEF ApiCrashes, Counted, ApiEnds, Forgotten
<1>3. CASE WebCrashes
  BY <1>3 DEF WebCrashes, Counted
<1>4. CASE GiveUp
  BY <1>4 DEF GiveUp, Counted, InContainer, Shutdown
<1>5. CASE Terminated
  BY <1>5 DEF Terminated, Counted, InContainer, Shutdown
<1>6. CASE LoseKey
  BY <1>6 DEF LoseKey, NothingRuns
<1>7. CASE RestoreKey
  BY <1>7 DEF RestoreKey, NothingRuns
<1> QED
  BY <1>1, <1>2, <1>3, <1>4, <1>5, <1>6, <1>7

LEMMA OtherChildren ==
    ASSUME StartupInv,
           \/ StoreSecret \/ ApiCrashes \/ WebCrashes \/ GiveUp \/ Terminated
           \/ LoseKey \/ RestoreKey
    PROVE  ContainerInv'
<1> USE DEF StartupInv, ContainerInv, DockerOnly, NobodyIsLeft, Alive,
            FilesInv, MemoryIsTheFile, StartupTypeOK,
            BootStep, Step, startupVars, fileVars, countVars, bootVars, containerVars
<1>1. CASE StoreSecret
  BY <1>1 DEF StoreSecret
<1>2. CASE ApiCrashes
  BY <1>2 DEF ApiCrashes, Counted, ApiEnds, Forgotten
<1>3. CASE WebCrashes
  BY <1>3 DEF WebCrashes, Counted
<1>4. CASE GiveUp
  BY <1>4 DEF GiveUp, Counted, InContainer, Shutdown
<1>5. CASE Terminated
  BY <1>5 DEF Terminated, Counted, InContainer, Shutdown
<1>6. CASE LoseKey
  BY <1>6 DEF LoseKey, NothingRuns
<1>7. CASE RestoreKey
  BY <1>7 DEF RestoreKey, NothingRuns
<1> QED
  BY <1>1, <1>2, <1>3, <1>4, <1>5, <1>6, <1>7

LEMMA StartupStep ==
    ASSUME StartupInv, [StartupNext]_startupVars
    PROVE  StartupInv'
<1>1. CASE ApiBoots
  BY <1>1, BootTypes, BootFiles, BootChildren DEF StartupInv
<1>2. CASE Supervision
  BY <1>2, SupervisionTypes, SupervisionFiles, SupervisionChildren DEF StartupInv
<1>3. ASSUME NEW w \in Wrappers, StartWrapper(w) \/ WrapperStep(w) \/ WrapperCrashes(w)
      PROVE  StartupInv'
  BY <1>3, WrapperTypes, WrapperFiles, WrapperChildren DEF StartupInv
<1>4. CASE \/ StoreSecret \/ ApiCrashes \/ WebCrashes \/ GiveUp \/ Terminated
           \/ LoseKey \/ RestoreKey
  BY <1>4, OtherTypes, OtherFiles, OtherChildren DEF StartupInv
<1>5. CASE UNCHANGED startupVars
  <2> USE <1>5 DEF StartupInv, startupVars, fileVars, countVars, bootVars, containerVars
  <2>1. StartupTypeOK'
    BY DEF StartupTypeOK
  <2>2. FilesInv'
    BY DEF FilesInv, OneWriter, CreatesForNothing, MemoryIsTheFile, SecretsHaveTheirKey
  <2>3. ContainerInv'
    BY DEF ContainerInv, DockerOnly, NobodyIsLeft, Alive
  <2> QED
    BY <2>1, <2>2, <2>3
<1> QED
  BY <1>1, <1>2, <1>3, <1>4, <1>5 DEF StartupNext

-----------------------------------------------------------------------------
(* The page. *)

LEMMA PageStep ==
    ASSUME PageTypeOK, [PageNext]_pageVars
    PROVE  PageTypeOK'
<1> USE DEF PageTypeOK, PollTypeOK, pageVars, actionVars, pollVars
<1>1. CASE AskAction \/ CancelAction
  BY <1>1 DEF AskAction, CancelAction
<1>2. CASE RunServiceAction
  BY <1>2 DEF RunServiceAction, Post
<1>3. CASE RecoverOperation
  BY <1>3 DEF RecoverOperation, Post
<1>4. ASSUME NEW n \in Submissions, PostAccepted(n)
      PROVE  PageTypeOK'
  BY <1>4 DEF PostAccepted, Poll, Cleared
<1>5. ASSUME NEW n \in Submissions, PostRefused(n)
      PROVE  PageTypeOK'
  BY <1>5 DEF PostRefused, PostHandled
<1>6. ASSUME NEW n \in Submissions, ActionEnds(n)
      PROVE  PageTypeOK'
  BY <1>6 DEF ActionEnds
<1>7. ASSUME NEW n \in Submissions, PageTick(n)
      PROVE  PageTypeOK'
  BY <1>7, ZenonT(30) DEF PageTick, TickHears, PostTicked, PostHandled
<1>8. ASSUME NEW n \in Submissions, PageTickLost(n)
      PROVE  PageTypeOK'
  BY <1>8, ZenonT(30) DEF PageTickLost, TickFails, PostTicked, PostHandled
<1>9. ASSUME NEW n \in Submissions, PageNextTick(n)
      PROVE  PageTypeOK'
  BY <1>9 DEF PageNextTick, TimerFires
<1>10. CASE UNCHANGED pageVars
  BY <1>10
<1> QED
  BY <1>1, <1>2, <1>3, <1>4, <1>5, <1>6, <1>7, <1>8, <1>9, <1>10 DEF PageNext

-----------------------------------------------------------------------------
(* The results. *)

\* The inductive invariant.
THEOREM Inductive == Spec => []IInv
<1>1. Init => IInv
  <2>1. PageInit => PageTypeOK
    BY DEF PageInit, PollInit, PageTypeOK, PollTypeOK
  <2> QED
    BY <2>1, StartupHolds DEF Init, IInv
<1>2. IInv /\ [Next]_vars => IInv'
  <2> SUFFICES ASSUME IInv, [Next]_vars
               PROVE  IInv'
    OBVIOUS
  <2>1. [StartupNext]_startupVars /\ [PageNext]_pageVars
    BY DEF Next, vars
  <2> QED
    BY <2>1, StartupStep, PageStep DEF IInv
<1> QED
  BY <1>1, <1>2, PTL DEF Spec

\* Every variable of both parts has its type.
THEOREM TypeCorrect == Spec => []TypeOK
<1>1. IInv => TypeOK
  BY DEF IInv, StartupInv, TypeOK
<1> QED
  BY <1>1, Inductive, PTL

\* However first starts of the API and of wrappers overlap and die, every API
\* that is up has the key to whatever is encrypted, and nobody replaces it.
THEOREM KeyFits == Spec => []OneKeyForTheData
<1>1. IInv => OneKeyForTheData
  BY DEF IInv, StartupInv, StartupTypeOK, FilesInv, MemoryIsTheFile, SecretsHaveTheirKey,
         OneKeyForTheData
<1> QED
  BY <1>1, Inductive, PTL

\* A container that shuts down has told every child that runs.
THEOREM AllAreTold == Spec => []NobodyIsLeft
<1>1. IInv => NobodyIsLeft
  BY DEF IInv, StartupInv, ContainerInv
<1> QED
  BY <1>1, Inductive, PTL
=============================================================================
