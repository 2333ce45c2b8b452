------------------------------- MODULE Startup -------------------------------
(***************************************************************************)
(* How the programs start: the API with its database and its master key    *)
(* (CryptoService, the TypeORM module), the wrapper that migrates before   *)
(* it (migrate.mjs with master-key.mjs), and in a container the entrypoint *)
(* that runs the API and the web server.  PM2 starts what has exited, and  *)
(* Docker a container that has ended.  A file that writeFileSync creates   *)
(* is empty before it is written, and a process can die in between.        *)
(* Directories are made wherever they are missing; wrappers that revert,   *)
(* environment files and ports are left out, and that PM2 gives up after   *)
(* ten restarts in a row: whoever puts right what was wrong starts it.     *)
(***************************************************************************)
EXTENDS Absence, Integers, FiniteSets

CONSTANTS Wrappers,   \* runs of migrate.mjs that can overlap
          MaxKeys,    \* bound: keys generated
          MaxCrashes, \* bound: processes that die, are given up or are told to end
          MaxLosses   \* bound: losses of the key file

Partial == 0      \* a key file of less than 32 bytes
Keys == 1..MaxKeys

ASSUME StartupConstants ==
    /\ {MaxKeys, MaxCrashes, MaxLosses} \subseteq Nat
    /\ None \notin 0..MaxKeys /\ None \notin {"empty", "schema", "account"}

VARIABLES
    deployment, \* "docker" or "pm2"
    settings,   \* "good", or what is wrong with them
    key,        \* the file: None, Partial or the key in it
    database,   \* None, or what the file holds: nothing, the schema, an account
    secrets,    \* keys that data in the database was encrypted with
    made, crashes, losses, \* counters
    wrapper,    \* what each run of migrate.mjs does next
    api, web,   \* "off", "starting", "up"; api also "exited": not yet noticed
    existed,    \* databaseExistedAtBoot
    opened,     \* the database task of NestFactory.create is at this point
    loading,    \* the constructor of CryptoService is at this point
    memory,     \* its key, or None
    entrypoint, \* of the container: "off", "waiting", "healthy", "done"
    shuttingDown,
    signalled   \* children that were told to end

fileVars == <<key, database, secrets>>
countVars == <<made, crashes, losses>>
bootVars == <<existed, opened, loading, memory>>
containerVars == <<web, entrypoint, shuttingDown, signalled>>
startupVars == <<deployment, settings, fileVars, countVars, wrapper, api, bootVars, containerVars>>

Counted == crashes < MaxCrashes /\ crashes' = crashes + 1

StartupTypeOK ==
    /\ deployment \in {"docker", "pm2"}
    /\ settings \in {"good", "badPassword", "badCertificate"}
    /\ key \in Keys \cup {Partial, None}
    /\ database \in {None, "empty", "schema", "account"}
    /\ secrets \subseteq Keys
    /\ made \in 0..MaxKeys /\ crashes \in 0..MaxCrashes /\ losses \in 0..MaxLosses
    /\ wrapper \in [Wrappers -> {"off", "noKey", "create", "write", "validate", "migrate"}]
    /\ api \in {"off", "starting", "up", "exited"}
    /\ web \in {"off", "starting", "up", "exited"}
    /\ {existed, shuttingDown} \subseteq BOOLEAN
    /\ opened \in {"no", "open", "migrated"}
    /\ loading \in {"read", "create", "write", "done"}
    /\ memory \in Keys \cup {None}
    /\ entrypoint \in {"off", "waiting", "healthy", "done"}
    /\ signalled \subseteq {"api", "web"}

StartupInit ==
    /\ deployment \in {"docker", "pm2"}
    /\ settings \in {"good", "badPassword", "badCertificate"}
    /\ key = None /\ database = None /\ secrets = {}
    /\ made = 0 /\ crashes = 0 /\ losses = 0
    /\ wrapper = [w \in Wrappers |-> "off"]
    /\ api = "off" /\ web = "off"
    /\ existed = FALSE /\ opened = "no" /\ loading = "read" /\ memory = None
    /\ entrypoint = "off" /\ shuttingDown = FALSE /\ signalled = {}

-----------------------------------------------------------------------------
(* Files that several processes use.                                       *)

\* writeFileSync with `wx' has made the file, ...
CreateKeyFile == key = None /\ key' = Partial

\* ... and has written it.
WriteKeyFile == made < MaxKeys /\ made' = made + 1 /\ key' = made'

\* SQLite makes a file that is missing.
OpenDatabase == database' = IF database = None THEN "empty" ELSE database

\* Migrations that are found to be due run in one transaction; when another
\* process has run them meanwhile, they fail.
Due == database' = "empty"
RunMigrations == database = "empty" /\ database' = "schema"
MigrationsFail == database # "empty"

-----------------------------------------------------------------------------
(* migrate.mjs, and ensureMigrationMasterKey.                              *)

Step(w, next) ==
    /\ wrapper' = [wrapper EXCEPT ![w] = next]
    /\ UNCHANGED <<deployment, settings, secrets, crashes, losses, api, bootVars,
                   containerVars>>

\* Somebody starts it: is there a key?
StartWrapper(w) ==
    /\ deployment = "pm2" /\ wrapper[w] = "off"
    /\ Step(w, IF key = None THEN "noKey" ELSE "validate")
    /\ UNCHANGED <<key, database, made>>

\* Is there a database?  Then it ends.
AskDatabase(w) ==
    /\ wrapper[w] = "noKey"
    /\ Step(w, IF database = None THEN "create" ELSE "off")
    /\ UNCHANGED <<key, database, made>>

\* Wrong variant of WrapperCreates: it replaces a key that has come meanwhile.
BugWrapperCreates(w) ==
    /\ wrapper[w] = "create"
    /\ key' = Partial /\ Step(w, "write")
    /\ UNCHANGED <<database, made>>

\* EEXIST means that another process made the file.
WrapperCreates(w) ==
    /\ wrapper[w] = "create"
    /\ \/ CreateKeyFile /\ Step(w, "write")
       \/ key # None /\ Step(w, "validate") /\ UNCHANGED key
    /\ UNCHANGED <<database, made>>

WrapperWrites(w) ==
    /\ wrapper[w] = "write"
    /\ WriteKeyFile /\ Step(w, "validate")
    /\ UNCHANGED database

\* readAndValidateMasterKey, and then the child process opens the database and
\* asks what is due.
Validate(w) ==
    /\ wrapper[w] = "validate"
    /\ IF key \in Keys THEN OpenDatabase /\ Step(w, IF Due THEN "migrate" ELSE "off")
                       ELSE Step(w, "off") /\ UNCHANGED database
    /\ UNCHANGED <<key, made>>

WrapperMigrates(w) ==
    /\ wrapper[w] = "migrate"
    /\ RunMigrations \/ (MigrationsFail /\ UNCHANGED database)
    /\ Step(w, "off")
    /\ UNCHANGED <<key, made>>

\* A wrapper dies.
WrapperCrashes(w) ==
    /\ wrapper[w] # "off" /\ Counted
    /\ wrapper' = [wrapper EXCEPT ![w] = "off"]
    /\ UNCHANGED <<deployment, settings, fileVars, made, losses, api, bootVars,
                   containerVars>>

-----------------------------------------------------------------------------
(* The API.  Nest opens the database and makes CryptoService in any order. *)

\* runtime-config is loaded before either.
ApiStarts ==
    /\ api' = "starting" /\ existed' = (database # None)
    /\ opened' = "no" /\ loading' = "read" /\ memory' = None

BootStep == api = "starting" /\ UNCHANGED <<deployment, settings, secrets, crashes, losses,
                                            wrapper, existed, containerVars>>

\* The process ends, and its memory with it.
Forgotten == existed' = FALSE /\ opened' = "no" /\ loading' = "read" /\ memory' = None

ApiEnds ==
    /\ api' = IF deployment = "docker" THEN "exited" ELSE "off"
    /\ Forgotten
    /\ UNCHANGED <<deployment, settings, fileVars, made, losses, wrapper, containerVars>>

ApiOpens ==
    /\ BootStep /\ opened = "no"
    /\ OpenDatabase /\ opened' = IF Due THEN "open" ELSE "migrated"
    /\ UNCHANGED <<key, made, api, loading, memory>>

ApiMigrates ==
    /\ BootStep /\ opened = "open"
    /\ RunMigrations /\ opened' = "migrated"
    /\ UNCHANGED <<key, made, api, loading, memory>>

ApiReads ==
    /\ BootStep /\ loading = "read"
    /\ \/ key \in Keys /\ memory' = key /\ loading' = "done"
       \/ key = None /\ ~existed /\ loading' = "create" /\ UNCHANGED memory
    /\ UNCHANGED <<key, database, made, api, opened>>

ApiCreates ==
    /\ BootStep /\ loading = "create"
    /\ CreateKeyFile /\ loading' = "write"
    /\ UNCHANGED <<database, made, api, opened, memory>>

ApiWrites ==
    /\ BootStep /\ loading = "write"
    /\ WriteKeyFile /\ memory' = key' /\ loading' = "done"
    /\ UNCHANGED <<database, api, opened>>

\* Wrong variant of BootFails: it asks for the database when the key is missing.
BugBootFails ==
    /\ api = "starting"
    /\ \/ loading = "read" /\ (key = Partial \/ (key = None /\ database # None))
       \/ loading = "create" /\ key # None
       \/ opened = "open" /\ MigrationsFail
       \/ opened = "migrated" /\ loading = "done"
          /\ settings = "badPassword" /\ database = "schema"
    /\ ApiEnds
    /\ UNCHANGED crashes

\* What CryptoService throws, the write included; what migrations throw that
\* another process makes; and the password of the first account.
BootFails ==
    /\ api = "starting"
    /\ \/ loading = "read" /\ (key = Partial \/ (key = None /\ existed))
       \/ loading = "create" /\ key # None
       \/ opened = "open" /\ MigrationsFail
       \/ opened = "migrated" /\ loading = "done"
          /\ settings = "badPassword" /\ database = "schema"
    /\ ApiEnds
    /\ UNCHANGED crashes

\* Wrong variant of ApiListens: it does not wait for CryptoService.
BugApiListens ==
    /\ BootStep /\ opened = "migrated"
    /\ database = "account" \/ settings # "badPassword"
    /\ database' = "account" /\ api' = "up"
    /\ UNCHANGED <<key, made, opened, loading, memory>>

\* onApplicationBootstrap, which makes the first account, and listen.
ApiListens ==
    /\ BootStep /\ opened = "migrated" /\ loading = "done"
    /\ database = "account" \/ settings # "badPassword"
    /\ database' = "account" /\ api' = "up"
    /\ UNCHANGED <<key, made, opened, loading, memory>>

\* The API encrypts what it saves.
StoreSecret ==
    /\ api = "up" /\ secrets' = secrets \cup {memory}
    /\ UNCHANGED <<deployment, settings, key, database, countVars, wrapper, api, bootVars,
                   containerVars>>

ApiCrashes == api \in {"starting", "up"} /\ Counted /\ ApiEnds

-----------------------------------------------------------------------------
(* PM2, and Docker with docker-entrypoint.                                 *)

Pm2StartsApi ==
    /\ deployment = "pm2" /\ api = "off"
    /\ ApiStarts
    /\ UNCHANGED <<deployment, settings, fileVars, countVars, wrapper, containerVars>>

Pm2StartsWeb ==
    /\ deployment = "pm2" /\ web = "off"
    /\ web' = "starting"
    /\ UNCHANGED <<deployment, settings, fileVars, countVars, wrapper, api, bootVars,
                   entrypoint, shuttingDown, signalled>>

\* start-web: wrong certificates end it.
WebStarts ==
    /\ web = "starting"
    /\ web' = IF settings # "badCertificate" THEN "up"
              ELSE IF deployment = "docker" THEN "exited" ELSE "off"
    /\ UNCHANGED <<deployment, settings, fileVars, countVars, wrapper, api, bootVars,
                   entrypoint, shuttingDown, signalled>>

WebCrashes ==
    /\ web \in {"starting", "up"} /\ Counted
    /\ web' = IF deployment = "docker" THEN "exited" ELSE "off"
    /\ UNCHANGED <<deployment, settings, fileVars, made, losses, wrapper, api, bootVars,
                   entrypoint, shuttingDown, signalled>>

ContainerStarts ==
    /\ deployment = "docker" /\ entrypoint = "off"
    /\ ApiStarts
    /\ entrypoint' = "waiting" /\ shuttingDown' = FALSE /\ signalled' = {}
    /\ UNCHANGED <<deployment, settings, fileVars, countVars, wrapper, web>>

InContainer == UNCHANGED <<deployment, settings, fileVars, made, losses, wrapper, bootVars>>

\* The children that run, and those that are told to end.
Alive == {c \in {"api", "web"} : (IF c = "api" THEN api ELSE web) \in {"starting", "up"}}

Shutdown ==
    /\ shuttingDown' = TRUE
    /\ signalled' = IF shuttingDown THEN signalled ELSE Alive

\* waitForApi hears that the API is well.
ApiIsHealthy ==
    /\ entrypoint = "waiting" /\ ~shuttingDown /\ api = "up"
    /\ entrypoint' = "healthy"
    /\ InContainer /\ UNCHANGED <<crashes, api, web, shuttingDown, signalled>>

\* It waited too long.
GiveUp ==
    /\ entrypoint = "waiting" /\ ~shuttingDown /\ Counted
    /\ Shutdown /\ entrypoint' = "done"
    /\ InContainer /\ UNCHANGED <<api, web>>

\* SIGTERM: somebody has the container started anew.
Terminated ==
    /\ entrypoint # "off" /\ ~shuttingDown /\ Counted
    /\ Shutdown
    /\ InContainer /\ UNCHANGED <<api, web, entrypoint>>

\* waitForApi finds that a shutdown has begun.
FindShutdown ==
    /\ entrypoint = "waiting" /\ shuttingDown
    /\ entrypoint' = "done"
    /\ InContainer /\ UNCHANGED <<crashes, api, web, shuttingDown, signalled>>

\* Wrong variant of SpawnWeb: nobody asks whether the API has exited meanwhile.
BugSpawnWeb ==
    /\ entrypoint = "healthy" /\ entrypoint' = "done"
    /\ web' = "starting"
    /\ InContainer /\ UNCHANGED <<crashes, api, shuttingDown, signalled>>

SpawnWeb ==
    /\ entrypoint = "healthy" /\ entrypoint' = "done"
    /\ web' = IF shuttingDown THEN web ELSE "starting"
    /\ InContainer /\ UNCHANGED <<crashes, api, shuttingDown, signalled>>

\* The exit event of a child.
ChildExited(c) ==
    /\ IF c = "api" THEN api = "exited" /\ api' = "off" /\ UNCHANGED web
                    ELSE web = "exited" /\ web' = "off" /\ UNCHANGED api
    /\ Shutdown
    /\ InContainer /\ UNCHANGED <<crashes, entrypoint>>

\* SIGTERM ends a child, ...
ApiObeys ==
    /\ "api" \in signalled \cap Alive
    /\ ApiEnds /\ UNCHANGED crashes

WebObeys ==
    /\ "web" \in signalled \cap Alive
    /\ web' = "exited"
    /\ InContainer /\ UNCHANGED <<crashes, api, entrypoint, shuttingDown, signalled>>

\* ... and when all have ended, or after eight seconds, the container ends.
ContainerEnds ==
    /\ shuttingDown /\ entrypoint # "off"
    /\ entrypoint' = "off" /\ api' = "off" /\ web' = "off"
    /\ shuttingDown' = FALSE /\ signalled' = {}
    /\ Forgotten
    /\ UNCHANGED <<deployment, settings, fileVars, countVars, wrapper>>

-----------------------------------------------------------------------------
(* The operator, while nothing runs: the key file is lost, and the file    *)
(* that the data needs is put back.                                        *)

NothingRuns == api = "off" /\ \A w \in Wrappers : wrapper[w] = "off"

LoseKey ==
    /\ NothingRuns /\ losses < MaxLosses /\ key \in Keys
    /\ losses' = losses + 1 /\ key' = None
    /\ UNCHANGED <<deployment, settings, database, secrets, made, crashes, wrapper, api,
                   bootVars, containerVars>>

RestoreKey ==
    /\ NothingRuns /\ key = None
    /\ \E k \in secrets : key' = k
    /\ UNCHANGED <<deployment, settings, database, secrets, countVars, wrapper, api,
                   bootVars, containerVars>>

-----------------------------------------------------------------------------

ApiBoots == \/ ApiOpens \/ ApiMigrates \/ ApiReads \/ ApiCreates \/ ApiWrites
            \/ BootFails \/ ApiListens
Supervision == \/ Pm2StartsApi \/ Pm2StartsWeb \/ ContainerStarts \/ WebStarts
               \/ ApiIsHealthy \/ FindShutdown \/ SpawnWeb
               \/ \E c \in {"api", "web"} : ChildExited(c)
               \/ ApiObeys \/ WebObeys \/ ContainerEnds
WrapperStep(w) == \/ AskDatabase(w) \/ WrapperCreates(w) \/ WrapperWrites(w)
                  \/ Validate(w) \/ WrapperMigrates(w)

StartupNext ==
    \/ ApiBoots \/ Supervision \/ StoreSecret
    \/ ApiCrashes \/ WebCrashes \/ GiveUp \/ Terminated
    \/ \E w \in Wrappers : \/ StartWrapper(w) \/ WrapperStep(w)
                           \/ WrapperCrashes(w)
    \/ LoseKey \/ RestoreKey

\* A process that runs goes on, and PM2 and Docker start what has ended.
\* Nobody has to start a wrapper or to put a key back.
StartupFairness ==
    /\ WF_startupVars(ApiOpens) /\ WF_startupVars(ApiMigrates)
    /\ WF_startupVars(ApiReads) /\ WF_startupVars(ApiCreates) /\ WF_startupVars(ApiWrites)
    /\ WF_startupVars(BootFails) /\ WF_startupVars(ApiListens)
    /\ WF_startupVars(Pm2StartsApi) /\ WF_startupVars(Pm2StartsWeb) /\ WF_startupVars(ContainerStarts)
    /\ WF_startupVars(WebStarts) /\ WF_startupVars(ApiIsHealthy) /\ WF_startupVars(SpawnWeb)
    /\ \A c \in {"api", "web"} : WF_startupVars(ChildExited(c))
    /\ WF_startupVars(ContainerEnds)
    /\ \A w \in Wrappers : WF_startupVars(WrapperStep(w))

-----------------------------------------------------------------------------
(* Properties. *)

\* Whatever is encrypted in the database, every API that is up has the key to
\* it, and so has the disk unless the operator lost the file: first starts of
\* the API and of wrappers may overlap and die at any point, and none of them
\* replaces a key that data was encrypted with, or invents one for it.
OneKeyForTheData ==
    /\ api = "up" => secrets \subseteq {memory}
    /\ secrets # {} /\ losses = 0 => secrets = {key}

\* Once the container shuts down, every child that runs has been told to end,
\* also when the API exits after waitForApi has heard of its health and before
\* the web server is started.
NobodyIsLeft == shuttingDown => Alive \subseteq signalled

\* What preflight finds out.
PreflightComplains ==
    \/ key = None /\ database # None
    \/ key = Partial
    \/ settings \in {"badPassword", "badCertificate"}
=============================================================================
