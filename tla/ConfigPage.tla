----------------------------- MODULE ConfigPage -----------------------------
(***************************************************************************)
(* The page that edits a configuration, servers/[id]/config.vue: handlers  *)
(* that wait for answers of the API while the user goes on, and operations *)
(* that it follows with OperationPolling.  The API is here what the page   *)
(* can tell of it (ConfigApply has the rest): an operation compares the    *)
(* remote file with its base and replaces it in one step.  A hash stands   *)
(* for its content.  Tabs, toasts and what `validation' shows are left out *)
(* (the server validates again); behind a dialog that covers the page      *)
(* nothing can be clicked, and a button that shows that it loads is        *)
(* disabled.  Leaving the page ends what is modelled.                      *)
(***************************************************************************)
EXTENDS OperationPolling

CONSTANTS Contents,    \* contents of the configuration
          Original,    \* the content when the page is opened
          Revisions,   \* contents of the history
          MaxEdits     \* bound: edits of the remote file by others

ASSUME PageConstants ==
    /\ Revisions \cup {Original} \subseteq Contents
    /\ MaxEdits \in Nat
    /\ None \notin Contents

VARIABLES
    remote, edits, \* the remote file, and how often others edited it
    data,          \* remoteConfig as last read, or None after a failed read
    content,       \* what the editor holds
    baseline,      \* what the comparison shows as the remote version
    busy,          \* the flag that all handlers share
    checks,        \* validations under way: for prepareApply or not
    confirming,    \* showApplyConfirm
    chosen,        \* restoreRevision
    conflict,      \* conflictMessage is shown
    sent,          \* sent[n]: the n-th apply or restore, or None
    running,       \* operations that were accepted and have not ended
    succeeded,     \* operations that did what they should
    readers,       \* who waits for the answer of refresh
    renewed        \* the base was read again after a failure, and only it, since
                   \* the page last showed what it read (history)

remoteVars == <<remote, edits, running, succeeded>>
editorVars == <<content, baseline, renewed>>
editingVars == <<remoteVars, editorVars, data, busy, checks, confirming, chosen,
                 conflict, sent, readers>>
configVars == <<editingVars, pollVars>>

\* at: what the handler waits for.  shown: what the page then showed as the
\* remote version, and renewed: the variable then (history).
Sent == [kind : {"apply", "restore"}, at : {"post", "tick", "done"},
         content : Contents, base : Contents, shown : Contents, renewed : BOOLEAN]

ASSUME NoSent == None \notin Sent

ConfigTypeOK ==
    /\ PollTypeOK
    /\ {remote, content, baseline} \subseteq Contents /\ edits \in 0..MaxEdits
    /\ data \in Contents \cup {None} /\ chosen \in Revisions \cup {None}
    /\ busy \in {None, "validate", "apply", "restore"}
    /\ checks \subseteq BOOLEAN
    /\ {confirming, conflict, renewed} \subseteq BOOLEAN
    /\ sent \in [Submissions -> Sent \cup {None}]
    /\ running \cup succeeded \subseteq Submissions
    /\ readers \subseteq {"reloadData", "refresh"}

\* useAsyncData has read the configuration: without it the page shows an error.
ConfigInit ==
    /\ remote = Original /\ edits = 0 /\ running = {} /\ succeeded = {}
    /\ data = remote /\ content = remote /\ baseline = remote
    /\ renewed = FALSE
    /\ busy = None /\ checks = {} /\ confirming = FALSE /\ chosen = None
    /\ conflict = FALSE /\ sent = [n \in Submissions |-> None]
    /\ readers = {}
    /\ PollInit

-----------------------------------------------------------------------------
(* The server. *)

OthersEdit(c) ==
    /\ edits < MaxEdits /\ c # remote
    /\ edits' = edits + 1 /\ remote' = c
    /\ UNCHANGED <<running, succeeded, editorVars, data, busy, checks, confirming,
                   chosen, conflict, sent, readers, pollVars>>

\* An operation fails, or replaces the content that its base names, with or
\* without a good end.
OperationEnds(n, replaces, good) ==
    /\ n \in running
    /\ good => replaces
    /\ replaces => remote = sent[n].base
    /\ running' = running \ {n}
    /\ remote' = IF replaces THEN sent[n].content ELSE remote
    /\ succeeded' = IF good THEN succeeded \cup {n} ELSE succeeded
    /\ UNCHANGED <<edits, editorVars, data, busy, checks, confirming, chosen,
                   conflict, sent, readers, pollVars>>

-----------------------------------------------------------------------------
(* The user.  dirty *)

dirty == content # baseline

\* The page is shown, and no dialog covers it.
Free == data # None /\ ~confirming /\ chosen = None

Type(c) ==
    /\ Free /\ c # content
    /\ content' = c
    /\ UNCHANGED <<remoteVars, baseline, renewed, data, busy, checks,
                   confirming, chosen, conflict, sent, readers,
                   pollVars>>

\* formatConfig, whatever the formatter makes of the content.
FormatConfig(formatted) ==
    /\ Free /\ busy = None
    /\ content' = formatted
    /\ UNCHANGED <<remoteVars, baseline, renewed, data, busy, checks, confirming,
                   chosen, conflict, sent, readers, pollVars>>

\* validateConfig, alone or for prepareApply; bound: one of each under way.
Validate(prepare) ==
    /\ Free /\ busy = None
    /\ prepare => dirty
    /\ prepare \notin checks
    /\ checks' = checks \cup {prepare} /\ busy' = "validate"
    /\ conflict' = (conflict /\ ~prepare)
    /\ UNCHANGED <<remoteVars, editorVars, data, confirming, chosen, sent, readers, pollVars>>

\* Its answer, or an error, which is no better than invalid.
Validated(prepare, valid) ==
    /\ prepare \in checks
    /\ checks' = checks \ {prepare} /\ busy' = None
    /\ confirming' = (confirming \/ (prepare /\ valid))
    /\ UNCHANGED <<remoteVars, editorVars, data, chosen, conflict, sent, readers, pollVars>>

\* openRevision has shown a revision, and its button asks to restore it.
ChooseRevision(r) ==
    /\ Free /\ chosen' = r
    /\ UNCHANGED <<remoteVars, editorVars, data, busy, checks, confirming, conflict,
                   sent, readers, pollVars>>

\* The dialogs; the one about a revision covers the other.
Cancel ==
    /\ data # None
    /\ \/ chosen # None /\ busy # "restore" /\ chosen' = None /\ UNCHANGED confirming
       \/ /\ chosen = None /\ confirming /\ busy # "apply"
          /\ confirming' = FALSE /\ UNCHANGED chosen
    /\ UNCHANGED <<remoteVars, editorVars, data, busy, checks, conflict, sent,
                   readers, pollVars>>

Send(kind, c) ==
    \E n \in Submissions :
        /\ sent[n] = None /\ \A m \in Submissions : m < n => sent[m] # None
        /\ sent' = [sent EXCEPT ![n] =
               [kind |-> kind, at |-> "post", content |-> c, base |-> data,
                shown |-> baseline, renewed |-> renewed]]
        /\ busy' = kind

\* applyConfig, up to its request.
ApplyConfig ==
    /\ data # None /\ confirming /\ chosen = None /\ busy # "apply"
    /\ Send("apply", content)
    /\ conflict' = FALSE
    /\ UNCHANGED <<remoteVars, editorVars, data, checks, confirming, chosen,
                   readers, pollVars>>

\* restore, up to its request.
Restore ==
    /\ data # None /\ chosen # None /\ busy # "restore"
    /\ Send("restore", chosen)
    /\ UNCHANGED <<remoteVars, editorVars, data, checks, confirming, chosen, conflict,
                   readers, pollVars>>

\* The request is accepted: poll, and wait for its first tick.
Accepted(n) ==
    /\ sent[n] # None /\ sent[n].at = "post"
    /\ remote = sent[n].base
    /\ running' = running \cup {n}
    /\ sent' = [sent EXCEPT ![n].at = "tick"]
    /\ IF sent[n].kind = "apply" THEN confirming' = FALSE /\ UNCHANGED chosen
                                 ELSE chosen' = None /\ UNCHANGED confirming
    /\ Poll(n)
    /\ UNCHANGED <<remote, edits, succeeded, editorVars, data, busy, checks, conflict,
                   readers>>

\* The request fails, for a conflict (409) or another reason, or it is
\* accepted and the answer is lost.
Refused(n, accepted) ==
    /\ sent[n] # None /\ sent[n].at = "post"
    /\ accepted => remote = sent[n].base
    /\ running' = IF accepted THEN running \cup {n} ELSE running
    /\ sent' = [sent EXCEPT ![n].at = "done"]
    /\ busy' = None
    /\ \/ UNCHANGED conflict
       \/ remote # sent[n].base /\ ~accepted /\ conflict' = TRUE
    /\ UNCHANGED <<remote, edits, succeeded, editorVars, data, checks, confirming,
                   chosen, readers, pollVars>>

-----------------------------------------------------------------------------
(* Polling.  The first tick, whatever it hears, ends the handler. *)

HandlerEnds(n) ==
    IF sent[n].at = "tick"
    THEN sent' = [sent EXCEPT ![n].at = "done"] /\ busy' = None
    ELSE UNCHANGED <<sent, busy>>

\* onFinished reads again what the operation may have changed.
Rereads(n) ==
    IF n \in succeeded THEN {"reloadData"}
    ELSE IF sent[n].kind = "apply" THEN {"refresh"} ELSE {}

Tick(n) ==
    /\ TickHears(n, n \notin running)
    /\ HandlerEnds(n)
    /\ readers' = IF n \in running THEN readers ELSE readers \cup Rereads(n)
    /\ UNCHANGED <<remoteVars, editorVars, data, checks, confirming, chosen, conflict>>

TickLost(n) ==
    /\ TickFails(n)
    /\ HandlerEnds(n)
    /\ UNCHANGED <<remoteVars, editorVars, data, checks, confirming, chosen, conflict,
                   readers>>

NextTick(n) ==
    /\ TimerFires(n)
    /\ UNCHANGED <<remoteVars, editorVars, data, busy, checks, confirming, chosen,
                   conflict, sent, readers>>

-----------------------------------------------------------------------------
(* Reading.  A second refresh takes the place of the first, and its answer *)
(* serves both: one set of readers is enough.                              *)

\* The button beside the message of a conflict.
ReloadData ==
    /\ Free /\ conflict
    /\ readers' = readers \cup {"reloadData"}
    /\ UNCHANGED <<remoteVars, editorVars, data, busy, checks, confirming, chosen,
                   conflict, sent, pollVars>>

\* Wrong variant of Refreshed: reloadData keeps what is being edited, and the
\* baseline with it.
BugRefreshed ==
    /\ readers # {}
    /\ readers' = {} /\ data' = remote
    /\ conflict' = FALSE
    /\ UNCHANGED <<remoteVars, content, baseline, renewed, busy, checks, confirming,
                   chosen, sent, pollVars>>

\* The answer of refresh, after which reloadData forgets what was edited.
Refreshed ==
    /\ readers # {}
    /\ readers' = {} /\ data' = remote
    /\ IF "reloadData" \in readers
       THEN /\ content' = remote /\ baseline' = remote
            /\ conflict' = FALSE /\ renewed' = FALSE
       ELSE /\ renewed' = TRUE
            /\ UNCHANGED <<content, baseline, conflict>>
    /\ UNCHANGED <<remoteVars, busy, checks, confirming, chosen, sent,
                   pollVars>>

\* It fails: useAsyncData forgets the data.
RefreshFails ==
    /\ readers # {}
    /\ readers' = {} /\ data' = None
    /\ UNCHANGED <<remoteVars, editorVars, busy, checks, confirming, chosen, conflict,
                   sent, pollVars>>

ConfigNext ==
    \/ \E c \in Contents : OthersEdit(c) \/ Type(c) \/ FormatConfig(c)
    \/ \E n \in Submissions, replaces, good \in BOOLEAN : OperationEnds(n, replaces, good)
    \/ \E prepare \in BOOLEAN :
           Validate(prepare) \/ \E valid \in BOOLEAN : Validated(prepare, valid)
    \/ \E r \in Revisions : ChooseRevision(r)
    \/ Cancel \/ ApplyConfig \/ Restore
    \/ \E n \in Submissions : \/ Accepted(n)
                              \/ \E accepted \in BOOLEAN : Refused(n, accepted)
                              \/ Tick(n) \/ TickLost(n) \/ NextTick(n)
    \/ ReloadData \/ Refreshed \/ RefreshFails

Spec == ConfigInit /\ [][ConfigNext]_configVars

-----------------------------------------------------------------------------
(* Properties. *)

Submitted == {n \in Submissions : sent[n] # None}

\* The server refuses an apply or a restore whose base is not what the remote
\* file holds, which protects the edits of others as long as the page sends as
\* its base what the user compared with.  It does, whichever answers of
\* reloads, failed reads and operations overlap, but for one case: after a
\* failed operation refresh reads a new base and leaves the comparison as it
\* was (config.vue:125).
BaseWasShown == \A n \in Submitted : sent[n].base = sent[n].shown \/ sent[n].renewed

\* What the page says: the left side of the comparison is the current remote
\* version, and after a change by others one compares with the new version
\* before one applies again.
BaseIsCompared == \A n \in Submitted : sent[n].base = sent[n].shown
=============================================================================
