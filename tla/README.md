# Verification of caddy-mgr

caddy-mgr is a web panel that manages Caddy servers over SSH: a NestJS API with a
SQLite database (`apps/api`), a Nuxt web application (`apps/web`), shared types
(`packages/contracts`) and start scripts (`scripts`). This directory holds TLA+ models of
the parts in which order, failure and concurrency decide whether the panel is correct,
the TLC configurations that check them on small instances, and TLAPS proofs.

```
tlasany M.tla                        parse a module
tlc -config X.cfg MCModule           one run of the table below
tlapm M.tla                          the proofs of a module M, named ...Proofs
```

## 1. Inventory

| Component | State it keeps | Operations | Talks to | What is hard |
|---|---|---|---|---|
| Operation queue (`operations/operation.service.ts`) | `tails`: newest promise per lock key, in memory; a row per operation | `enqueue`, `run`, `context.stage/backup`, `get`, `list` | Caddy service (runners), database | order, exclusion, saves that fail, crash with operations under way |
| Start-up recovery (`database/bootstrap.service.ts`) | rows | marks queued and running rows as interrupted; first administrator; expired sessions | database | must take exactly the rows of the process that died |
| Configuration workflow (`caddy/caddy.service.ts`) | revisions in the database; on the host the file, candidates, backups, the service | `read`, `queueApply`, `queueRestore`, `queueRecovery`, `queueServiceAction`, `applyUnderLock` | queue, SSH, database | other writers on the host, lost answers, commands that outlive their timeout, roll-back, crash |
| SSH pool (`ssh/ssh.service.ts` 133-249) | entry per connection key: session or pending promise, use count, idle timer | `acquire`, `release`, `discard`, idle timer, close event | `withSession`, ssh2 | late events, everything found again by key, shared connections |
| SSH commands (`ssh/ssh.service.ts` 15-130) | none | `exec`, `writeTemporaryFile` | ssh2 | timeouts that leave the command at work, output limits, uploads without timeout |
| Server registry (`servers/servers.service.ts`) | `caddy_servers` rows | `create`, `update`, `remove`, `rediscover`, `withSession` | database, SSH, queue | whole entities saved long after they were read; uniqueness of targets |
| Sessions and account (`auth/auth.service.ts`) | admins, sessions | `login`, `authenticate`, `logout`, `updateAccount` | database | slow password hashing between check and save |
| Login protection (`auth/login-protection.service.ts`) | captchas, failure windows, issue times, in memory | `createCaptcha`, `consumeCaptcha`, `assertNotLocked`, `recordFailure` | auth controller | windows and lockout boundaries, parallel attempts |
| Discovery (`caddy/caddy-discovery.service.ts`) | none | `discover`, `inspectUnit` | SSH | which units are fit, and which one is preferred |
| systemd parser (`caddy/systemd-parser.ts`) | none | words, flags, properties | discovery | quotes and escapes |
| Encryption and master key (`common/crypto.service.ts`, `scripts/master-key.mjs`) | key file | create or validate the key, encrypt | file system, database | first start, lost key, two processes, a crash between two writes |
| Supervision (`scripts/docker-entrypoint.mjs`, `start-web.mjs`, `preflight.mjs`, `ecosystem.config.cjs`) | child processes | start the API, wait, start the web server, stop | operating system | one child dies during start-up or shut-down |
| Operation polling (`web/app/composables/useOperationPolling.ts`) | newest answer, one timer | `poll`, `stop` | API | answers of an older loop |
| Configuration page (`pages/servers/[id]/config.vue`) | content, baseline, base hash, dialogs | apply, restore, reload, history, format | API, polling, diff, formatter | handlers that overlap; a base that is not what was shown |
| Server page (`pages/servers/[id]/index.vue`) | dialog, pending flags | service actions, recovery | API, polling | two handlers with one poll |
| Sign-in, account, session (`login.vue`, `account.vue`, `useAuth`, middleware, layout) | `user`, captcha and code, forms | sign in and out, change name and password | API | refreshes of the captcha, late answers, lost answers |
| Adding a server (`servers/new.vue`) | step, form, fingerprint, discovery, candidate | scan, confirm and discover, save | API | the form changes while an answer is on its way |
| Line diff (`utils/diff.ts`) | none | `createLineDiff` | editor | table and walk; large texts |
| Caddyfile formatter (`utils/caddyfile-format.ts`) | the variables of one loop | `formatCaddyfile` | editor | braces that are held back; quotes, escapes, heredocs |

What makes each correct:

- **queue**: one operation at a time on a physical target, in request order; every accepted
  operation ends; a row never stays active with nobody to finish it; final statuses are final.
- **workflow**: what an operation reports is what the host runs; nobody's edit is overwritten
  unseen; what an operation replaced can be brought back.
- **pool**: no dead session is handed out; a connection is timed exactly while nobody uses it;
  nobody waits for ever.
- **registry**: one row per target; a removed row stays removed; no change is lost.
- **sessions**: a password change ends every session. (That a logged-out session stays out is not
  promised: a `lastSeenAt` that is being saved inserts it again, as `Touched` after `Logout` in
  `AuthSessions` shows.)
- **login protection**: a lock lasts as long as it was set; a captcha is used once.
- **start-up**: one key for all encrypted data, also when first starts overlap and die; the
  service comes up, or preflight tells why not; no child process is left behind.
- **polling**: the end of the operation that is followed is reported.
- **configuration page**: what is sent as the base is what the user compared with.
- **session in the browser**: the application shows no session that it was told is over, and denies
  a living one only when a sign-out failed or the answer to a login was lost.
- **adding a server**: what is saved was confirmed and discovered for that very host.
- **diff, words, formatter**: both texts are shown; words are read as they were quoted; only
  blanks change.

The components meet at four places. A runner of the queue calls `withSession`, so the pool and
the registry sit between the queue and the host. The lock key (`targetIdentity`: host key, unit,
file) joins several server rows to one queue. The database joins the queue, the start-up and
the removal of servers, which deletes operations by cascade. The pages meet the API by
requests alone, and some promises rest on both: the API compares the base with the
remote file, the page has to send the base that the user saw; the API does not connect when a server is
created, so the page alone sees to it that the fingerprint is the one of the host.

## 2. Modules

| Module | Models | State and actions |
|---|---|---|
| `TargetLock` | the abstract promise of the queue: a FIFO lock per target | `phase`, `arrival`, `clock`; `Join`, `Grant`, `Leave`, `Reset` |
| `OperationQueue` | `OperationService`, the rows, start-up recovery, removal of servers, crash | below |
| `ConfigApply` | `CaddyService` against a host | below |
| `SshPool` | `SshService` and its callers, for one key | below |
| `ServerRegistry` | `ServersService` and the `caddy_servers` rows | below |
| `LoginProtection` | `LoginProtectionService` as operators on buckets and captchas | used by the next two |
| `AuthSessions` | `AuthService`, `AuthController`, the first account, with failure buckets | below |
| `WebSession` | `login.vue`, `account.vue`, `useAuth`, `auth.global.ts`, the sign-out button, with captchas | below |
| `OperationPolling` | `useOperationPolling` | `Poll`, `TickHears`, `TickFails`, `TimerFires`; used by the next two |
| `ConfigPage` | `servers/[id]/config.vue` | below |
| `ServerPage` | `servers/[id]/index.vue` | below |
| `Discovery` | `CaddyDiscoveryService` and `flagValues` as operators on a machine | used by `AddServer` |
| `AddServer` | `servers/new.vue`, with the scan of a host key and its check | below |
| `LineDiff`, `ShellWords`, `CaddyfileFormat` | three loops, one action per branch | below |
| `Startup` | `CryptoService`, `master-key.mjs`, `migrate.mjs`, the entrypoint, PM2, preflight | below |
| `WebApp` | the pages and loops side by side | a behaviour is one of a single part |
| `Progress` | `Startup` and `ServerPage` side by side, with their fairness | a behaviour is one of a single part |
| `OperationQueueProofs`, `ConfigApplyProofs`, `SshPoolProofs`, `ServerRegistryProofs`, `AuthSessionsProofs`, `ProgressProofs`, `WebAppProofs` | theorems about the module so named, with proofs (section 6) | - |
| `TextProofs` | lemmas about `LineDiff` and `ShellWords`, for `WebAppProofs` | - |
| `Absence` | `None`: null and undefined | - |
| `MC...` | instances for TLC | - |

`WebApp` and `Progress` compose nothing: their parts share no state, and each behaviour
picks one. They exist so that one run checks several small models.

Definitions named `Bug...` stand before the definition that they vary. Each is a plausible
mistake at that place, used to confirm that a property would notice it; no specification
refers to them.

### OperationQueue

An action ends at an `await`, so anything can come in between. `link[o]` says how far an
operation has come: `Request`, `EnqueueSaved`, `Chain` are `enqueue` before, at and after its
save; `Start`, `StartSaved`, `RunnerEnds`, `FinishSaved` are `run`; `Forget` is the `finally`
callback that deletes the tail. `prev` is the promise an operation was chained after, `tails`
is the map. `status` is the entity in memory and `row` the database, so a save writes what the
entity says *then*. Saves can fail (`SaveFails`): because the server's row is gone (foreign
key) or because the database refuses (`MaxFaults`). In `enqueue` that is an error to the caller;
in `run` it rejects the promise, and as `void next.finally(...)` makes another promise that
nobody handles, Node ends the process: `doomed`. `Crash` loses the memory, `Boot` runs
`onApplicationBootstrap` before requests are taken. `RemoveChecked` and `RemoveCommitted` are
the two halves of `ServersService.remove`; `TouchServer` is the save in `withSession`, which
inserts a removed server again. `context.stage` is a save of the row as it is (`StageSaved`).

Two remarks on granularity. With better-sqlite3 a query does not leave the event loop, so some
of the interleavings between two saves cannot occur with this driver; the model allows all
interleavings at awaits, which is what the code relies on. And `Request` stands for every
handler that reads the server and comes to `enqueue`; what the handler does on the host before
is part of `ConfigApply`.

### ConfigApply

One target: `disk` (the file; a file stands for its content and a content for its hash),
`live` (what Caddy loaded), `active`, `candidates`, `backups`. Every remote command is an
action whose answer may be success, refusal, or nothing at all; an unanswered command had its
effect, never will, or is a *stray*: `execRaw` closes the channel after its timeout, but the
command may go on and have its effect later (`StrayActs`), for example during the next
operation. The replacement is two actions, as the remote script first computes the hash
(`CompareHash`) and then moves the file (`Replace`). `Edit` is any other writer. `Read` and
`SnapshotRemoteConfig` are the read without the lock and the save of its snapshot. A crash may
leave the command in flight behind as a stray; recovery is the marking as interrupted.
`pc[o]` is named after the stages of the code.
History: `overwritten[o]` is what the file held when the candidate of `o` was moved, by the operation
or by its stray, and `disturbed[o]` whether another writer (a program, or a stray) wrote the file
between the check under the lock, or the comparison of the script, and that move. The lock is the one that `OperationQueue`
proves: `Begin` requires that no operation is under way.

Abstractions: `history` is the set of revision contents (their order and sources are left
out); the candidate of the preflight is not represented; `install` and the upload are one step; the
command that restores a backup (`cp`, then `mv`) has its effect at once; `Prune` keeps any
`KeepBackups` of the backups, since `cp --preserve` gives a backup the time of the
file it copies, so that "newest" need not mean "made last"; a content is written by other programs at
most once (no ABA: the hash check cannot see an edit that is undone, and does not have to).
The failure of the last save belongs to `OperationQueue`.

### SshPool

`pool` is the entry under the key, `conn` the state of each connection, `uses` and `timer` its
counter and idle timer. An action runs from one event of the event loop to the next: when a
connection is ready, all who waited for its promise count themselves in the same step
(`Connected`), because promise reactions run before the next event. `Superseded` is the case
`pool.get(key) !== entry`. `Fail` is a transport error in `withSession`: discard by key, then a
release that finds nothing. `CloseEvent` runs the listener, which drops by key. A member of
`Conns` is used again when neither the pool nor a caller nor a socket refers to it, so the state
space is finite without a bound on time.

### ServerRegistry

A call reads the whole entity (`copy`), awaits remote commands, and saves the whole entity;
an action ends at an await. `pc` says where a call is, `kind` which it is: `create`, `update`,
`rediscover`, or `use` for an action behind `withSession`. A save of a removed row inserts it again
(TypeORM's `save` after its `SELECT`). `legacy` is the suffix of the TargetIdentity migration.
`latest` and the sets `crossed`, `mixed`, `raced` are history, and the properties say exactly what
holds for the rows that are in none of them. A row is in `crossed` when a call that waited for its
connection held an entity while the row was changed, or any call that may still save one while it
was removed; in `raced` when it was written without a check of its target, or when its check had
become void because another call took the target first; in `mixed` when calls overlapped on it
since one had its host for itself. `"kept"` is a rediscovery that found nothing and saves its entity
with the old target. Which operations forbid a removal is in `OperationQueue`.

### AuthSessions and LoginProtection

A login reads the account, verifies the password slowly (`verifying`), then saves its session;
a change of the account verifies, hashes (`updating`), saves, and deletes the sessions
(`deleting`), outside a transaction. `touching` are the saves of `lastSeenAt` for which nobody
waits. Buckets are ages and times left, in ticks, cut off where the code no longer tells them apart,
so the clock has no bound. `epoch` counts changes of the password; `readAt` is the epoch at which
a login read the account.

### Startup

Two kinds of deployment, and settings that are good or wrong in two ways. `key` and `database` are
the files; `Partial` is a key file that `writeFileSync` has created and not yet written.
The API opens the database and makes `CryptoService` in any order, as Nest does; `existed` is
`databaseExistedAtBoot`, read before either. `wrapper[w]` is a run of `migrate.mjs`. The
entrypoint's `await waitForApi` and the exit events of its children interleave. `Counted`
stands for a process that dies, is given up or is told to end.

### The pages

A handler is cut at each await; a button that shows that it loads is disabled (Nuxt UI), and a
dialog covers what is behind it; other fields stay open. `ConfigPage` has the content, the base
hash, the baseline of the comparison and the reads under way apart, as they are set by different handlers.
Operations end in any way, others edit the remote file. `sent[n]` is history: the base that was sent,
what was shown, and whether a failed operation had renewed the base. `ServerPage` has two
handlers that use one poll. `WebSession` has the sign-in page with its captchas, `user`, and
`calls`, the requests of the pages behind it; `missed` is history: why `user` and the session differ,
where they do (`Become` sets all three). `AddServer` has the three steps of the page; `candidate.on` and `verified` are
history: which host filled the form in, and which hosts the API was let into.

Facts of the frameworks that the models use: `refresh` joins a request under way, `data` is
emptied when a read fails (Nuxt); `UButton` with `loading` is disabled; a modal keeps clicks
from the page.

### LineDiff, ShellWords, CaddyfileFormat

Each loop is a state machine with an action for each branch. `LineDiff` is checked
against all ways to pair equal lines of both texts in order (`Pairings`), none of which may be larger
than what the comparison shows as equal; `ShellWords` against every way to quote a word.
`CaddyfileFormat` does not keep the text: any character may come next, so the run covers texts
of *any* length; `owed` is what was read and is not yet written, which is at most a brace that
is held back. Written characters must be those that are owed, in their order.

## 3. Runs

| Run | Instance | Shows |
|---|---|---|
| `queue` | 3 operations on one target, two of them through one server row, one through another; 1 failed save, 1 crash | types, exclusion, rows are owned, outcome before handover, finality, refinement of `TargetLock` |
| `queue_live` | 2 operations; 2 failed saves, 2 crashes | every accepted operation ends |
| `config` | 2 operations, 2 drafts (one does not load), 1 foreign edit, 1 backup kept, 1 fault, 1 crash | reports agree with the host; recoverability; refusals are harmless; divergence is reported; an operation replaces what its author saw |
| `config_failure` | the same | **violated**: a failure restores the backup (finding 1) |
| `config_atomic` | the same | **violated**: the replacement is atomic (finding 2) |
| `ssh_pool` | 2 callers, 3 connections, no bound on losses, discards and timeouts | alive sessions only, timer exactly when idle, nobody waits for ever |
| `ssh_pool_idle` | the same | **violated**: an open idle connection is pooled (finding 3) |
| `registry` | 2 ids, 2 targets, 2 calls, every pair of rows that the migration may leave | targets stay unique, rows tell the last change, status tells the last call, with the exact exceptions |
| `auth` | 2 calls of one client, 2 names, 3 passwords, 1 restart; a window shorter than the lockout | which sessions outlive a password, what an account says, how long a lock lasts |
| `web` | 6 parts; page: 2 contents, 2 submissions, 1 edit; sign-in: 3 captchas; wizard: 3 hosts; diff: 4 lines of 2; words: 2 words of 2 characters; formatter: nesting 10, unbounded text | bases were shown, captchas are fresh, `user` matches, saved hosts were verified, diffs, words and texts are right |
| `config_base` | 3 contents, 2 submissions, 1 edit | **violated**: the base is what was compared (finding 4) |
| `progress` | 2 wrappers, 2 keys, 2 deaths, 1 loss; page: 3 submissions | one key for the data, nobody left, comes up, outcome is reported |

Bounds. Three operations are the least for which a tail can be deleted or released wrongly
while another waits behind it; two rows for one target are the duplicates that the
TargetIdentity migration keeps. In `config` the second operation works on what the first left,
including its backup, its stray command and its row. One fault at any of the commands, one
crash and one edit already combine to every shape in which the properties were at risk: a stray of the
first operation together with a conflict or a roll-back of the second. In `ssh_pool` three connections are one
that closes late, one in use and one being made; two callers suffice for one to release the
other's entry (three callers were checked for safety with symmetry: same result).
`CHECK_DEADLOCK FALSE` is set where every operation is requested at most once, so that the
model ends when all are done; the pool never stops.
In `registry` two calls
suffice, as an exception is always about one call that held an entity while another (or a removal,
which needs no call) changed it. In `auth` the lockout is longer than the window, else
`prune` could never remove a lock. In `web` three captchas let the answers of two
refreshes overlap beside the one that is shown; the hosts have two candidates, one, and none; 12
cells of the diff's table, of 16, take some texts to `boundedDiff`; the marker of a heredoc
has one character (`MaxMarker`), as the window over the text is compared with it as a whole.
In `progress` two wrappers race with the API and each other, and two deaths are a process that dies
between creating and writing the key, and another during the recovery from it. The page has the loops
of two operations that were followed before and the one that is followed now.

Symmetry: operations that share row and target (queue), both operations (config), ids, targets, secrets and calls (registry), calls (auth).
None is used in a run with a liveness property; the action properties do not mention
particular operations.

Fairness. `queue_live` assumes: a promise whose turn has come runs, a save returns or fails, a
runner ends, a doomed process ends, and the container comes back (`restart: unless-stopped`
in `docker-compose.yaml`). That a runner ends rests on the timeouts of `exec` and of
connecting; **an SFTP upload has no timeout** (`ssh.service.ts:44`), so a server that
answers keep-alives and never answers the upload would hold the queue of its target: there
the assumption is stronger than the code. `ssh_pool` assumes that ssh2 reports a connection attempt as ready or
failed within `readyTimeout`; nothing is assumed of timers, close events or callers.
`progress` assumes for the start (`StartupFairness`) that a process that runs goes on, and that
PM2 and Docker start what has ended (`autorestart`, `restart: unless-stopped`); that a child obeys
SIGTERM is not assumed, as the container ends after its timer anyway; nobody has to start a wrapper or to
put a key back. Two limits: PM2 gives up after ten restarts in a row
(`ecosystem.config.cjs:54`), and whoever puts right what was wrong is taken to start it again. For
the page (`PageFairness`): the API ends what it accepted, which `queue_live` shows; timers
fire; and a request that is made again and again is answered at some time (the strong fairness of
`PageTick`: not all of infinitely many requests fail).

## 4. Properties worth knowing

- `ActiveRowsAreOwned` is the invariant behind the recovery at start-up: a row says queued or
  running only while this process will still write it, or is about to die of the very save that
  failed.
- `OutcomeBeforeHandover`: whoever sees the next operation running sees the outcome of the
  one before.
- `ReplacedIsRecoverable` speaks of what the file really held at the move (`overwritten`), through
  crashes, strays and pruning: it is a revision, and the backup that the row names is a copy of
  it or was pruned. The exceptions are exact: what another writer puts there between `sha256sum` and `mv`
  is in no revision (finding 2), and the backup may copy something else when another writer
  came after the check under the lock. The roll-back is outside: it compares what it overwrites with nothing.
- `DivergenceIsReported`: when nobody else wrote the file and no operation is at work, a host that
  runs something else than its file has an operation whose status asks for recovery, whatever
  commands that were given up do late. An earlier operation that nobody has looked at yet
  counts as the report.
- `ReplacesItsBase` is the optimistic lock with its exact limit: the gap between `sha256sum`
  and `mv`. It holds for moves of strays, too.
- `TimerMeansIdle` and `IdleIsOnTimer` together say what the use count is good for, and name
  the exception: an entry released by a caller of an earlier connection.
- `RowTellsLastChange`: a call that fails changes nothing but the status; a removed row stays
  away, unless a call held the entity.
- `OldPasswordIsOut` is the exact limit of what `account.vue` promises ("修改后会退出所有登录会话"):
  logins that were being verified, a `lastSeenAt` being saved, and a deletion that failed are
  what is left. `AccountIsSound`: a change of the name alone can make name and password equal,
  which the policy forbids for a change of the password. Calls that overlap are excused: a change of the name
  may write the old password back (`auth.service.ts:62`).
- `LockoutLasts`: a lock can be cut short by a failure that is recorded after the window of its
  bucket has ended, when its login began before the lock. It says how long a lock lasts, not
  how many attempts that are under way together pass before it.
- `OneKeyForTheData`, `ComesUp`: no crash and no race makes a second key once data is encrypted.
  A crash of a first start between the database and the key, or inside the write of the key,
  leaves a state that needs the operator; nothing is encrypted by then, and preflight tells.
- `NobodyIsLeft`: the check of `shuttingDown` before the web server is started is what it rests on.
- `BaseWasShown` has one exception, which is finding 4.
- `SavedHostWasVerified`: the form of the wizard can be edited while the key of a host is
  fetched, and what is saved is still a host that was confirmed: the API searches no host
  that shows another key, and the way back is closed while a request is under way.
- `UserMatchesSession` names the reasons for which `user` and the session may differ, each way. The
  application shows a session that is over when it ended unnoticed (by itself, or by a change of
  the password whose answer was lost), or when a rename is answered after its end and sets `user` again
  (`account.vue:91`). It denies one that lives when the answer to a login was lost, or when a sign-out
  failed (`useAuth.ts:36-43`). A sign-out alone never leaves it showing a session that is over, also when
  it fails: that is what the `finally` is for.
- `FormatKeepsText` names the texts that the formatter changes: see below.

Seen while modelling and allowed by the properties as they are stated:

- The first account may keep the default password: the log asks for a change
  (`bootstrap.service.ts`), nothing enforces it.
- The formatter loses the first of two opening braces without a blank between them, puts a brace that it holds
  back behind a backslash, a backtick or the second `<` of a heredoc, and never writes one at the
  end of a text; it removes the blank after a `<`, so that `a< <b` becomes the opening of a
  heredoc. `caddyfile-format.ts:25` says that it "Reformats braces and whitespace locally".
- Empty words of a unit's command line are lost by `shellWords`. What it gets was cut before:
  `extractExecCommand` ends the command line at its first `;` or `}`, quoted or not
  (`systemd-parser.ts`); `QuotedWordsAreRead` is about the text behind that cut.
- A sign-out that fails forgets `user` and stays on the page: the application takes itself for signed
  out while the cookie still names a session, until a page is loaded anew.
- The state of the validation on the configuration page may be about an older content; the
  server validates again when it applies. A late `reloadData` replaces what was typed since
  (`config.vue:52`), and three handlers share one `busy` flag.
- The entrypoint's timer of eight seconds is unreferenced: when its children end earlier, so does
  the entrypoint, and the exit code that it kept for the child that failed is lost. Docker
  starts the container in either case.
- Preflight does not know the API's limit of 500 characters for a password.

## 5. Findings

1. **A failed change does not always restore the backup.** `config.vue:292` promises
   "失败时自动恢复备份". When the reload after the replacement is not answered (timeout, broken
   connection), or the save of a stage fails there, the exception leaves `applyUnderLock`:
   status `failed`, the new file on the disk, no roll-back. What does hold is
   `ReplacedIsRecoverable` and `DivergenceIsReported`.
2. **The replacement is not atomic.** The stage and `caddy.service.spec.ts:179` call it so; an
   edit between the hash and the move is overwritten without a conflict.
3. **The pool can lose an open connection.** The close listener drops the entry under the key,
   not its own; a late close event of the previous connection removes the new one, which is
   then never closed, although `ssh.service.spec.ts:125` says that idle connections are.
4. **A base that nobody compared.** The left side of the comparison is captioned "当前远端版本"
   (`config.vue:245`), and after a conflict the user is told to compare with the new version first
   (`config.vue:132`). When an operation ends without success, `config.vue:125` refreshes the page's
   data: the base hash becomes that of the remote file as it is now, the baseline of the comparison stays. The next
   apply passes the server's check and overwrites a change that no comparison showed. In every
   other case the base was shown (`BaseWasShown`).

## 6. Proofs

Each `...Proofs` module proves its theorems for every value of the constants, from the named
assumptions of the modules alone. The argument is the same everywhere: an invariant `IInv` (in
`WebAppProofs` one per part) that is inductive, `Init => IInv` and `IInv /\ [Next]_vars => IInv'`,
with one step per action; the properties follow from it in a line, and the action properties from
one more look at each action. Every `IInv` was checked with TLC on the instance of the run first,
but for `WordInv`: it says that there *are* a place in the line and a way to quote it, without a
bound up to which TLC could look for them.

| Module | Theorem | Statement |
|---|---|---|
| `OperationQueueProofs` | `TypeCorrect`, `Inductive` | `Spec => []TypeOK`, `Spec => []IInv` |
| | `Exclusion`, `Ownership`, `Handover` | `OneRunnerPerTarget`, `ActiveRowsAreOwned`, `OutcomeBeforeHandover` |
| | `Finality` | `Spec => TerminalIsFinal` |
| | `Refinement` | `Spec => ImplementsTargetLock` |
| `ConfigApplyProofs` | `TypeCorrect`, `Inductive` | as above |
| | `SuccessIsLive`, `RollbackRestores` | `SucceededIsLive`, `RolledBackIsRestored` |
| | `NothingIsLost`, `RefusalIsHarmless`, `DivergenceIsKnown` | `ReplacedIsRecoverable`, `RefusedIsHarmless`, `DivergenceIsReported` |
| | `ReplacementHitsItsBase` | `Spec => ReplacesItsBase` |
| `SshPoolProofs` | `TypeCorrect`, `Inductive` | as above |
| | `Alive`, `Timed`, `TimedIdle` | `PooledIsAlive`, `IdleIsOnTimer`, `TimerMeansIdle` |
| `ServerRegistryProofs` | `TypeCorrect`, `Inductive` | as above |
| | `TargetsUnique`, `ChangesLast`, `StatusIsTold` | `TargetsAreUnique`, `RowTellsLastChange`, `StatusTellsLastCall` |
| `AuthSessionsProofs` | `TypeCorrect`, `Inductive` | as above |
| | `ChangeEndsSessions`, `AccountKept` | `OldPasswordIsOut`, `AccountIsSound` |
| | `LockIsKept` | `Spec => LockoutLasts` |
| `ProgressProofs` | `TypeCorrect`, `Inductive` | as above, of the start and of the server page |
| | `KeyFits`, `AllAreTold` | `OneKeyForTheData`, `NobodyIsLeft` |
| `WebAppProofs` | `TypeCorrect`, `Inductive` | as above, for the invariants of the six parts |
| | `BaseIsShown`, `UserIsRight`, `HostIsVerified`, `TextIsKept` | `BaseWasShown`, `UserMatchesSession`, `SavedHostWasVerified`, `FormatKeepsText` |
| | `CaptchaIsFresh` | `WebSpec => FreshCaptchaSent` |
| | `TextsAreShown`, `WordsAreRead` | `DiffShowsBothTexts`, `QuotedWordsAreRead` |
| `TextProofs` | lemmas | `DiffInv` and `WordInv` are inductive for their parts |

Assumptions. `None` is different from every value that it stands beside (`NoRow`, `NoAccount`,
`NoBucket`, `NoSent`, `NoLogin` and the first conjuncts of the `...Constants`): it is null, which no
entity, number or string is. Calls, operations and callers are finite where they are counted. Bounds are numbers. What
`Machines` and `KeyOf` say of a host is what the wizard's run assumes, too.

### What the invariants say

**Queue.** Exclusion is not inductive: that two operations do not hold the lock follows from the
shape of the chain. `IInv` says (a) *order*: on one key, operations that are chained drew different
turns, everything before an operation that holds the lock has settled, whoever is unsettled and
came earlier than a waiting operation came no later than its predecessor, and the tail came last
among the unsettled; while a key has an unsettled operation it has a tail; (b) *rows*: what
the row and the entity of an operation say at each place of its life. Lemmas named
`...KeepsOrder` treat the steps that touch the chain, and everything else is a
`StutterKeepsOrder`. `Finality` and the refinement then follow step by step; a crash maps to
`Reset`, chaining to `Join`, starting to `Grant`, settling to `Leave`, the rest to stuttering.

**Workflow.** The properties speak of the end of an operation; the invariant says for every place
on the way what the file, its backup and Caddy hold, unless somebody wrote there since the check
(`CheckedIsThere`) or since the comparison (`ComparedIsThere`), that the revision and the backup
are recorded before the file is touched (`SavedBefore`), and that a stray belongs to an operation
that fails for the very reason that it is a stray (`StraysAreReported`). The last is what makes
late effects harmless: a command that acts late belongs to an operation whose row already asks for
recovery. What a move overwrites is the base unless another writer came after the comparison
(`MovesItsBase`), and the base is a revision; up to that move the backup is of the base unless
another writer came after the check (`BackupIsOfBase`). Both rest on `OneMove`: a command given up
that compares or moves is the only one of its operation, and nothing has moved the candidate before,
so that no later step can change what `disturbed` says of a move.

**Pool.** The use count is the number of callers of the pooled connection, unless a caller of
another connection has released the entry, and never more (`CountsUsers`). So the count can reach
zero too early, which `TimerMeansIdle` excuses, but not too late, which is why an idle connection
always has its timer.

**Registry.** Uniqueness needs three facts at once, each of which the steps of another call can
break without the others: no void check, no shared target (`RowsShareRightly`); a
target that was checked is still free (`CheckedIsFree`); and a call that saves without a check
brings nothing that was not there (`UncheckedBringsNone`). The unique index then separates the plain
keys (`PlainKeysDiffer`). For the last change, a call that waits for its connection holds what the
last change left (`SaversKnowLatest`), and whoever would bring a removed row back has crossed its
removal (`RevivalsCross`). `LoneKnowsStatus` says what a call that is alone at a host knows of the
row's status, which is why it may save nothing.

**Sessions.** Every token has read the account at the current epoch or has its excuse while no
deletion is under way, the logins that still verify included (`LoginsReadIt`); a call changes the
password once, which bounds the epoch (`EpochIsCounted`); a copy about to be saved is the account,
unless changes overlapped (`CopiesAreFresh`).

**Start.** Whoever has created the key file is alone with it until it is written (`OneWriter`,
because `wx` fails for the second), whoever is about to create one finds no secrets
(`CreatesForNothing`), and what the API has in memory is the file (`MemoryIsTheFile`).

**Pages and formatter.** `ConfigInv`: what the page would send as its base is what it shows, unless
only the base was read again. `SessionInv`: a captcha that submit could send has not been sent, and
the code was read from it; `submit` is the only step that makes a login. `WizardInv`: in step 3
the host in the form is one that was searched with the fingerprint in the form, and where something
is supported the form was filled from its candidates, as then one of them is preferred
(`SearchIs`). `FormatInv`: neither a comment nor an escape begins while a brace is held back,
without which what they write at once would come before it; the lemmas say of each writing operator
what it leaves owed. The types are a second invariant on top of these (`TypesInv`), as some of them
need the first: a character that is appended to what is owed makes two only because no more than
a brace was owed before.

**Texts.** What loops and recursive functions compute needs induction, and the library's principles
of induction take an operator, which the provers cannot instantiate. `TextProofs` gets around
that. A set of naturals that is not empty has a least element (`Least`, from the
well-foundedness of finite sets); so a set that holds 0, and with each of its members the next number, is all of `Nat`
(`Induction`); and a statement is proved for every `n` by citing that lemma with the set of those
`n` for which it holds. From this come

- that the recursive `Table` satisfies its own equation, so that its entries are bounded by those
  beside them, and that no pairing of equal lines is larger than the table's first entry;
- `DiffInv`: what the walk has shown of each text is its lines up to the index, in order, and what it
  has shown as equal, with what the table promises for the rest, is no less than the first entry;
  at the end nothing is left, so no pairing is larger than what is shown as equal. For
  large texts prefix and suffix do not overlap, and the four pieces show every line once;
- what `FlattenSeq` yields, as a relation: `Joins` says where each piece begins, and grows by one
  piece at a time (`JoinsGrow`);
- `WordInv`: while a line is read, the loop is between two words, within one, or behind its last
  quote (`Between`, `Inside`, `PastQuote`), `value` is what has been read of that word, and
  `words` the words before it that are not empty.

Both properties are stated without operators that these lemmas could not reach (`SelectSeq` has a
recursion that is hidden in a LET of the library, so `NotEmpty` is a `FlattenSeq`).

### What the proofs found out

- `ServerRegistry` excused too much and too little. Every change of a target put its row into `raced`,
  although only a void check lets two rows share one; calls that could not save any more
  put rows into `crossed`; and a lone `update` took a row out of `mixed` although it hears nothing
  from the host, so that `StatusTellsLastCall` would have failed with a third call, which the run
  does not have. The three sets are now as small as the proofs allow.
- `ReplacedIsRecoverable` spoke of the base alone, and `UserMatchesSession` excused every failed sign-out;
  stated of what was overwritten, and each way, both needed stronger invariants.
- `DivergenceIsReported` had the hypothesis that no stray is left, and `UserMatchesSession` more
  exceptions than it needs; both are now stronger.
- Several models compared with a `None` that nothing said was different from strings or records;
  the assumptions now do.

### Only model-checked

- Liveness (`AcceptedOperationsEnd`, `PassEnds`, `ComesUp`, `OutcomeIsReported`): outside the
  prover's reach, as is `ENABLED`.
- The four statements of the repository that do not hold (section 5).

## 7. Not modelled

- The HTTP layer, the contracts package and the proxy of the web server: routing, error format,
  types and forwarding, without state of their own.
- What pages only show: lists, logs and their timer, tabs, toasts, highlighting, the dialog that
  edits a server's connection, the button for a new discovery (the API's half is in
  `ServerRegistry`).
- Cryptography and SQL belong to libraries; of the schema, the cascade, the foreign key, the
  unique index and the time of the migrations are in the models. Reverting migrations,
  directories, ports, environment files and the smoke test are left out.
- `format` and `validate` of the API only make and remove temporary files; the backfill of the sizes of
  revisions writes a column that nothing decides on.
- Of the systemd parser, the properties, environment files and escapes: splitting of text
  without state.
- Quoting, redaction and sudo wrapping of SSH commands.

With better-sqlite3 a query does not leave the event loop; all models allow more interleavings
than this driver has, as the code relies on awaits alone.

See `components` in `PROJECT.json` for the full list.

## 8. Plan

| Order | Module | Question |
|---|---|---|
| done | `TargetLock`, `OperationQueue`, `OperationQueueProofs` | is the queue a lock, and do rows tell the truth |
| done | `ConfigApply` | does the report agree with the host |
| done | `SshPool` | are shared connections handed out, timed and closed correctly |
| done | `ServerRegistry` | late saves of whole entities, uniqueness of targets |
| done | `AuthSessions`, `LoginProtection` | logins and account changes that overlap; lockout with a clock |
| done | `ConfigPage`, `ServerPage`, `WebSession`, `AddServer` with `OperationPolling`, `Discovery` | do pages send what the user saw |
| done | `LineDiff`, `ShellWords`, `CaddyfileFormat` | loops against definitions |
| done | `Startup` | first start, crash during key creation, order of start-up and shut-down |
| done | `...Proofs` of all models | every invariant and every action property that a passing run checks |
| 1 | `ConfigApply` | an abstract change of a configuration (nothing, replaced, restored, diverged) that the workflow implements, like `TargetLock` for the queue |
| 2 | `OperationPolling` | lemmas about which loop the handle reaches, from which the safety half of `OutcomeIsReported` follows |

A run per question: the small models that share no state share a run, a second run of a module
is only for liveness that needs a smaller instance, and a violated one only for something the repository
says.
