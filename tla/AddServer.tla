----------------------------- MODULE AddServer ------------------------------
(***************************************************************************)
(* The page that adds a server, servers/new.vue: it asks for the key of a  *)
(* host, has the user confirm it, has the host searched with Discovery and *)
(* saves a candidate.  The form stays open while a request is under way;   *)
(* a button that shows that it loads is disabled.  The API pins the key    *)
(* that it is sent: it compares it with the host's when it searches, and   *)
(* not when it saves.  A host stands for host and port.                    *)
(***************************************************************************)
EXTENDS Discovery, TLC

CONSTANTS Hosts,
          Machines, \* Machines[h]: what the host is
          KeyOf     \* KeyOf[h]: the fingerprint of its key

ASSUME WizardConstants ==
    /\ \A h \in Hosts : IsMachine(Machines[h])
    /\ KeyOf \in [Hosts -> Hosts]
    /\ None \notin Hosts \cup Range(Names)

VARIABLES
    step,       \* 1, 2 or 3
    host,       \* form.host, or None while the form is not complete
    working,    \* None, or the request under way
    probeResult,\* the fingerprint, or None
    discovery,  \* what was found, and where, or None
    candidate,  \* the form of step 3
    verified,   \* hosts that were searched with their keys (history)
    saved       \* the servers that the API has

wizardVars == <<step, host, working, probeResult, discovery, candidate, verified, saved>>

\* unit, on: which candidate of which host filled the form; None: nothing did.
Candidate == [unit : Range(Names) \cup {None}, on : Hosts \cup {None},
              complete : BOOLEAN, caddyfile : BOOLEAN]

Request == [to : {"host-key", "probe", "create"}, host : Hosts,
            key : Hosts \cup {None}, candidate : Candidate]

WizardTypeOK ==
    /\ step \in 1..3
    /\ host \in Hosts \cup {None} /\ probeResult \in Hosts \cup {None}
    /\ working \in Request \cup {None}
    /\ discovery # None => discovery.on \in Hosts /\ discovery.supported \in BOOLEAN
    /\ candidate \in Candidate
    /\ verified \subseteq Hosts \X Hosts
    /\ saved \subseteq [host : Hosts, key : Hosts, candidate : Candidate]

\* What the form of step 3 shows before any search.
EmptyForm == [unit |-> None, on |-> None, complete |-> TRUE, caddyfile |-> TRUE]

WizardInit ==
    /\ step = 1 /\ host = None /\ working = None
    /\ probeResult = None /\ discovery = None
    /\ candidate = EmptyForm
    /\ verified = {} /\ saved = {}

\* The form of step 1, also while its answer is awaited.
Fill(h) ==
    /\ step = 1 /\ host' = h
    /\ UNCHANGED <<step, working, probeResult, discovery, candidate, verified, saved>>

\* connectionPayload, buildHostKeyRequest, buildCreateServerRequest; nobody
\* takes a form that is not complete.
Ask(to, key) ==
    /\ working = None /\ host # None
    /\ working' = [to |-> to, host |-> host, key |-> key, candidate |-> candidate]
    /\ UNCHANGED <<step, host, probeResult, discovery, candidate, verified, saved>>

\* probe, which validateConnection lets pass.
Probe == step = 1 /\ Ask("host-key", None)

\* scanHostKey: the fingerprint of the key that the host shows first; the
\* connection goes no further.
Scanned(h) == KeyOf[h]

Probed ==
    /\ working # None /\ working.to = "host-key"
    /\ probeResult' = Scanned(working.host) /\ step' = 2 /\ working' = None
    /\ UNCHANGED <<host, discovery, candidate, verified, saved>>

\* confirmAndDiscover
ConfirmAndDiscover == step = 2 /\ probeResult # None /\ Ask("probe", probeResult)

\* applyCandidate
FormOf(found, i) == [unit |-> found.candidates[i], on |-> found.on,
                     complete |-> TRUE, caddyfile |-> TRUE]

\* mapDiscovery: what the page makes of a search.
Found(h) ==
    LET result == Discover(Machines[h])
    IN  [supported |-> result.supported, candidates |-> result.candidates,
         skipped |-> result.skipped, on |-> h]

\* connect: the host's own key must have the fingerprint that is pinned.
LetsIn(h, key) == key # None /\ KeyOf[h] = key

\* The API searches a host that lets it in with the key confirmed.
Discovered ==
    /\ working # None /\ working.to = "probe" /\ LetsIn(working.host, working.key)
    /\ discovery' = Found(working.host)
    /\ candidate' = IF discovery'.candidates = <<>> THEN candidate
                    ELSE FormOf(discovery', Preferred(discovery'.candidates, Standard))
    /\ verified' = verified \cup {<<working.host, working.key>>}
    /\ step' = 3 /\ working' = None
    /\ UNCHANGED <<host, probeResult, saved>>

\* Wrong variant of Back: the button stays enabled during a request.
BugBack ==
    /\ step \in {2, 3}
    /\ step' = 1
    /\ UNCHANGED <<host, working, probeResult, discovery, candidate, verified, saved>>

\* The buttons that go back.
Back ==
    /\ step \in {2, 3} /\ working = None
    /\ step' = 1
    /\ UNCHANGED <<host, working, probeResult, discovery, candidate, verified, saved>>

\* unitRows: the rows with a button, in the order of the candidates; those of
\* the units that were skipped have none.
Selectable == IF discovery = None THEN {} ELSE DOMAIN discovery.candidates

\* The user selects another candidate.
Select(i) ==
    /\ step = 3 /\ i \in Selectable
    /\ candidate' = FormOf(discovery, i)
    /\ UNCHANGED <<step, host, working, probeResult, discovery, verified, saved>>

\* The fields of step 3: one is emptied or filled, or the adapter, whose field
\* is then disabled.
Edit ==
    /\ step = 3
    /\ \/ candidate' = [candidate EXCEPT !.complete = ~@]
       \/ candidate.caddyfile /\ candidate' = [candidate EXCEPT !.caddyfile = FALSE]
    /\ UNCHANGED <<step, host, working, probeResult, discovery, verified, saved>>

\* The button of step 3 is enabled.
MaySave == step = 3 /\ discovery.supported /\ candidate.caddyfile

\* save
Save ==
    /\ MaySave
    /\ probeResult # None /\ candidate.complete
    /\ Ask("create", probeResult)

\* The API makes a row, unless the target has one; then the page is left, and
\* the next visit is new, or the answer is lost and the page stays.
Created(heard) ==
    /\ working # None /\ working.to = "create"
    /\ \A s \in saved : s.key = working.key => s.candidate.unit # working.candidate.unit
    /\ saved' = saved \cup
           {[host |-> working.host, key |-> working.key,
             candidate |-> working.candidate]}
    /\ IF heard
       THEN /\ step' = 1 /\ host' = None
            /\ probeResult' = None /\ discovery' = None
            /\ candidate' = EmptyForm
       ELSE UNCHANGED <<step, host, probeResult, discovery, candidate>>
    /\ working' = None
    /\ UNCHANGED verified

\* Any request fails, a search for another key among them.
WizardFails ==
    /\ working # None /\ working' = None
    /\ UNCHANGED <<step, host, probeResult, discovery, candidate, verified, saved>>

WizardNext ==
    \/ \E h \in Hosts \cup {None} : Fill(h)
    \/ Probe \/ Probed \/ ConfirmAndDiscover \/ Discovered \/ Back
    \/ \E i \in DOMAIN Names : Select(i)
    \/ Edit \/ Save \/ WizardFails
    \/ \E heard \in BOOLEAN : Created(heard)

-----------------------------------------------------------------------------
\* The API was let into every host that it saves with the key that it pins, and
\* the form that was saved began with a candidate of that host's search:
\* saving checks neither, so it is for the page to send nothing else, although
\* the form can be changed while an answer is on its way, and though the form
\* of step 3 keeps what an earlier host had filled in when a search finds
\* nothing.
SavedHostWasVerified ==
    \A s \in saved :
        /\ <<s.host, s.key>> \in verified
        /\ s.candidate.on = s.host
        /\ s.candidate.unit \in Range(Discover(Machines[s.host]).candidates)
=============================================================================
