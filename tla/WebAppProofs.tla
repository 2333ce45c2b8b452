---------------------------- MODULE WebAppProofs ----------------------------
(***************************************************************************)
(* Proofs, for any contents, numbers of submissions and captchas, hosts,   *)
(* and markers of heredocs, of what the pages of WebApp promise.  A step   *)
(* of one part leaves the variables of the others alone, so each part has  *)
(* an invariant of its own.                                                *)
(***************************************************************************)
EXTENDS WebApp, TextProofs, FiniteSetTheorems, SequenceTheorems, TLAPS

(* The page of a configuration. *)

\* What the page compares with is what it would send as the base, unless only
\* the base was read again.
ConfigInv ==
    /\ sent \in [Submissions -> Sent \cup {None}]
    /\ loops \in [Submissions -> {"off", "request", "timer"}] /\ running \subseteq Submissions
    /\ \A n \in Submissions : n \in running \/ loops[n] # "off" => n \in Submitted
    /\ {remote, baseline, content} \subseteq Contents
    /\ data \in Contents \cup {None} /\ chosen \in Revisions \cup {None}
    /\ renewed \in BOOLEAN
    /\ data # None => data = baseline \/ renewed
    /\ BaseWasShown

\* What else its types are.
ConfigRest ==
    /\ {timer, latest} \subseteq Submissions \cup {None}
    /\ edits \in 0..MaxEdits /\ busy \in {None, "validate", "apply", "restore"}
    /\ checks \subseteq BOOLEAN /\ {confirming, conflict} \subseteq BOOLEAN
    /\ succeeded \subseteq Submissions /\ readers \subseteq {"reloadData", "refresh"}

(* Signing in and out. *)

\* A captcha that submit could still send is one that it has not sent, and what
\* is typed was read from it.
SessionInv ==
    /\ given \in 0..MaxCaptchas /\ spent \subseteq 1..given
    /\ captchaId \in (1..given) \cup {None} /\ code \in Ids \cup {Unread, None}
    /\ login \in Login \cup {None}
    /\ {session, user} \subseteq BOOLEAN /\ missed \in Misses
    /\ "submit" \in fetching => login # None /\ login.at = "captcha"
    /\ captchaId # None =>
          /\ code \in {captchaId, None}
          /\ ~Answering => captchaId \notin spent
    /\ UserMatchesSession

\* What else the types are.
LiveCaptchas == [Ids -> (0..CaptchaTtl) \cup {None}]

SessionRest ==
    /\ page \in {"login", "app", "error"} /\ captchaLoading \in BOOLEAN
    /\ calls \subseteq Forms \cup {"signOut"} /\ fetching \subseteq {"user", "submit"}

(* Adding a server. *)

\* The form was filled from a candidate of a host that was let in.
FromHost(h, c) == c.on = h /\ c.unit \in Range(Discover(Machines[h]).candidates)

\* The fields of a form, so that one of them can be changed.
IsForm(c) == c = [unit |-> c.unit, on |-> c.on, complete |-> c.complete, caddyfile |-> c.caddyfile]

WizardInv ==
    /\ IsForm(candidate)
    /\ host \in Hosts \cup {None}
    /\ working # None /\ working.to = "probe" =>
          step = 2 /\ host \in Hosts /\ host = working.host /\ probeResult = working.key
    /\ working # None /\ working.to = "create" =>
          /\ <<working.host, working.key>> \in verified
          /\ FromHost(working.host, working.candidate)
    /\ step = 3 => /\ host \in Hosts /\ <<host, probeResult>> \in verified
                   /\ discovery = Found(host)
                   /\ discovery.supported => FromHost(host, candidate)
    /\ SavedHostWasVerified

\* What is shown of a search is what one has found.
WizardRest ==
    /\ step \in 1..3 /\ probeResult \in Hosts \cup {None}
    /\ working \in Request \cup {None}
    /\ discovery # None => \E h \in Hosts : discovery = Found(h)
    /\ candidate \in Candidate
    /\ verified \subseteq Hosts \X Hosts
    /\ saved \subseteq [host : Hosts, key : Hosts, candidate : Candidate]

\* How many places up to p are in a set of them.
UpTo(P, p) == {q \in P : q <= p}

(* Formatting a Caddyfile. *)

\* The variables of the loop that tell what was read, written and held back.
Kept == {"owed", "openBrace", "openBraceWritten", "comment", "escaped"}
IsLoop(g) == Kept \subseteq DOMAIN g

\* h differs from g in the layout alone, and perhaps in what is owed.
SameBut(g, h, owed) ==
    /\ IsLoop(h) /\ h.owed = owed
    /\ h.openBrace = g.openBrace /\ h.openBraceWritten = g.openBraceWritten
    /\ h.comment = g.comment /\ h.escaped = g.escaped

\* Neither a comment nor an escape begins while a brace is held back: what they
\* read is written at once.
FormatInv ==
    ~lost => /\ IsLoop(f)
             /\ f.comment \/ f.escaped => ~Held(f)
             /\ f.owed = IF Held(f) THEN <<LeftBrace>> ELSE <<>>

\* The variables of the loop, and their types.
Switches == {"space", "beginningOfLine", "openBrace", "openBraceWritten", "openBraceSpace",
             "openBraceOwnLine", "comment", "escaped", "afterImport", "heredocEscaped"}
Fields == Switches \cup {"last", "heredoc", "marker", "closing", "quotes", "newLines",
                         "nesting", "token", "first", "owed"}

Short(s, n) == s \in Seq(Characters) /\ Len(s) <= n

LoopOK(g) ==
    /\ Fields \subseteq DOMAIN g
    /\ g.last \in {Nothing, "a", Blank, NewLine, RightBrace, Less}
    /\ \A x \in Switches : g[x] \in BOOLEAN
    /\ g.heredoc \in {"closed", "opening", "opened"}
    /\ Short(g.marker, MaxMarker) /\ Short(g.closing, MaxMarker)
    /\ g.quotes \in {"none", "quote", "raw", "rawInQuote"}
    /\ g.newLines \in 0..3 /\ g.nesting \in 0..MaxNesting
    /\ g.token \in {Nothing, "a", "i"} /\ g.first \in {Nothing, "a", "i"}
    /\ Short(g.owed, 2)

-----------------------------------------------------------------------------
USE PageConstants, NoSent, ProtectionConstants, SessionConstants, NoLogin,
    WizardConstants
    DEF PageConstants, ProtectionConstants, SessionConstants, WizardConstants

\* Each part makes its own steps.
LEMMA Parts ==
    ASSUME [WebNext]_webVars
    PROVE  /\ [ConfigNext]_configVars /\ [SessionNext]_sessionVars
           /\ [WizardNext]_wizardVars /\ [DiffNext]_diffVars
           /\ [WordNext]_wordVars /\ [FormatNext]_formatVars
BY DEF WebNext, webVars, wizardToFormat

\* What the page of a configuration would send.
LEMMA ConfigKeeps ==
    ASSUME ConfigInv, [ConfigNext]_configVars
    PROVE  ConfigInv'
<1> USE DEF ConfigInv, BaseWasShown, Submitted, Sent, Send, Poll, Cleared,
            TickHears, TickFails, TimerFires, HandlerEnds, configVars,
            editingVars, remoteVars, editorVars, pollVars
<1>1. ASSUME NEW c \in Contents, OthersEdit(c)
      PROVE  ConfigInv'
  BY <1>1 DEF OthersEdit
<1>2. ASSUME NEW c \in Contents, Type(c)
      PROVE  ConfigInv'
  BY <1>2 DEF Type
<1>3. ASSUME NEW c \in Contents, FormatConfig(c)
      PROVE  ConfigInv'
  BY <1>3 DEF FormatConfig
<1>4. CASE \E n \in Submissions, replaces, good \in BOOLEAN : OperationEnds(n, replaces, good)
  BY <1>4 DEF OperationEnds
<1>5. CASE \E prepare \in BOOLEAN : Validate(prepare)
  BY <1>5 DEF Validate
<1>6. CASE \E prepare, valid \in BOOLEAN : Validated(prepare, valid)
  BY <1>6 DEF Validated
<1>7. ASSUME NEW r \in Revisions, ChooseRevision(r)
      PROVE  ConfigInv'
  BY <1>7 DEF ChooseRevision
<1>8. CASE Cancel
  BY <1>8 DEF Cancel
<1>9. CASE ApplyConfig
  BY <1>9 DEF ApplyConfig
<1>10. CASE Restore
  BY <1>10 DEF Restore
<1>11. ASSUME NEW n \in Submissions, Accepted(n)
      PROVE  ConfigInv'
  BY <1>11 DEF Accepted
<1>12. CASE \E n \in Submissions, accepted \in BOOLEAN : Refused(n, accepted)
  BY <1>12 DEF Refused
<1>13. ASSUME NEW n \in Submissions, Tick(n)
      PROVE  ConfigInv'
  BY <1>13 DEF Tick
<1>14. ASSUME NEW n \in Submissions, TickLost(n)
      PROVE  ConfigInv'
  BY <1>14 DEF TickLost
<1>15. ASSUME NEW n \in Submissions, NextTick(n)
      PROVE  ConfigInv'
  BY <1>15 DEF NextTick
<1>16. CASE ReloadData
  BY <1>16 DEF ReloadData
<1>17. CASE Refreshed
  BY <1>17, ZenonT(60) DEF Refreshed
<1>18. CASE RefreshFails
  BY <1>18 DEF RefreshFails
<1>19. CASE UNCHANGED configVars
  BY <1>19 DEF configVars
<1> QED
  BY <1>1, <1>2, <1>3, <1>4, <1>5, <1>6, <1>7, <1>8, <1>9, <1>10, <1>11, <1>12,
     <1>13, <1>14, <1>15, <1>16, <1>17, <1>18, <1>19 DEF ConfigNext

\* Its types.
LEMMA ConfigTypes ==
    ASSUME ConfigTypeOK, ConfigInv, ConfigInv', [ConfigNext]_configVars
    PROVE  ConfigTypeOK'
<1>1. ConfigRest
  BY DEF ConfigTypeOK, PollTypeOK, ConfigRest
<1> SUFFICES ConfigRest'
  BY DEF ConfigRest, ConfigTypeOK, PollTypeOK, ConfigInv
<1>2. running \subseteq Submissions
  BY DEF ConfigInv
<1> USE <1>1, <1>2 DEF ConfigRest, Send, Poll, TickHears, TickFails, TimerFires,
            HandlerEnds, configVars, editingVars, remoteVars, editorVars, pollVars
<1>3. ASSUME NEW c \in Contents, OthersEdit(c) \/ Type(c) \/ FormatConfig(c)
      PROVE  ConfigRest'
  BY <1>3 DEF OthersEdit, Type, FormatConfig
<1>4. CASE \E n \in Submissions, replaces, good \in BOOLEAN : OperationEnds(n, replaces, good)
  BY <1>4 DEF OperationEnds
<1>5. CASE \E prepare \in BOOLEAN : Validate(prepare)
  BY <1>5 DEF Validate
<1>6. CASE \E prepare, valid \in BOOLEAN : Validated(prepare, valid)
  BY <1>6 DEF Validated
<1>7. CASE Cancel \/ \E r \in Revisions : ChooseRevision(r)
  BY <1>7 DEF ChooseRevision, Cancel
<1>8. CASE ApplyConfig \/ Restore
  BY <1>8 DEF ApplyConfig, Restore
<1>9. ASSUME NEW n \in Submissions, Accepted(n)
      PROVE  ConfigRest'
  BY <1>9 DEF Accepted
<1>10. CASE \E n \in Submissions, accepted \in BOOLEAN : Refused(n, accepted)
  BY <1>10 DEF Refused
<1>11. ASSUME NEW n \in Submissions, Tick(n)
      PROVE  ConfigRest'
  BY <1>11 DEF Tick, Rereads
<1>12. ASSUME NEW n \in Submissions, TickLost(n) \/ NextTick(n)
      PROVE  ConfigRest'
  BY <1>12 DEF TickLost, NextTick
<1>13. CASE ReloadData \/ Refreshed \/ RefreshFails
  BY <1>13 DEF ReloadData, Refreshed, RefreshFails
<1>14. CASE UNCHANGED configVars
  BY <1>14
<1> QED
  BY <1>3, <1>4, <1>5, <1>6, <1>7, <1>8, <1>9, <1>10,
     <1>11, <1>12, <1>13, <1>14 DEF ConfigNext

\* What the sign-in page would send, and who is signed in.
LEMMA SessionKeeps ==
    ASSUME SessionInv, [SessionNext]_sessionVars
    PROVE  SessionInv'
<1> USE DEF SessionInv, UserMatchesSession, Answering, Login, Ids, Unread,
            sessionVars, formVars, apiVars, Refresh, Fetched, Land, NoForm,
            NewForm, Call, FormsFree, Forms, LoggedOut, Become, Misses
<1>1. CASE CaptchasGrowOld
  BY <1>1 DEF CaptchasGrowOld
<1>2. CASE TypeCode
  BY <1>2 DEF TypeCode
<1>3. CASE AskCaptcha
  BY <1>3 DEF AskCaptcha
<1>4. CASE Submit
  BY <1>4 DEF Submit
<1>5. CASE LoggedIn
  BY <1>5 DEF LoggedIn
<1>6. CASE LoginLimited
  BY <1>6 DEF LoginLimited
<1>7. ASSUME NEW who \in fetching, CaptchaComes(who)
      PROVE  SessionInv'
  BY <1>7 DEF CaptchaComes
<1>8. ASSUME NEW who \in fetching, CaptchaFails(who)
      PROVE  SessionInv'
  BY <1>8 DEF CaptchaFails
<1>9. ASSUME NEW made \in BOOLEAN, LoginFails(made)
      PROVE  SessionInv'
  BY <1>9 DEF LoginFails
<1>10. ASSUME NEW made \in BOOLEAN, PasswordFails(made)
      PROVE  SessionInv'
  BY <1>10 DEF PasswordFails
<1>11. CASE SessionEnds
  BY <1>11 DEF SessionEnds
<1>12. CASE PasswordChanged
  BY <1>12 DEF PasswordChanged
<1>13. CASE NameChanged
  BY <1>13 DEF NameChanged
<1>14. CASE Renamed
  BY <1>14 DEF Renamed
<1>15. CASE RenameFails
  BY <1>15 DEF RenameFails
<1>16. CASE \E to \in {"login", "app"} : Navigate(to)
  BY <1>16 DEF Navigate
<1>17. ASSUME NEW answered \in BOOLEAN, Reload(answered)
      PROVE  SessionInv'
  <2>1. CASE answered /\ session
    BY <1>17, <2>1 DEF Reload
  <2>2. CASE answered /\ ~session
    <3>1. /\ captchaId' = None /\ code' = None /\ login' = None /\ "submit" \notin fetching'
      BY <1>17, <2>2 DEF Reload
    <3>2. /\ UNCHANGED <<session, given, spent>> /\ user' = session
          /\ missed' = "nothing"
      BY <1>17, <2>2 DEF Reload
    <3>3. {session', user'} \subseteq BOOLEAN
      BY <3>2
    <3> QED
      BY <3>1, <3>2, <3>3
  <2>3. CASE ~answered
    BY <1>17, <2>3 DEF Reload
  <2> QED
    BY <1>17, <2>1, <2>2, <2>3
<1>18. CASE SignOut
  BY <1>18 DEF SignOut
<1>19. CASE UpdateAccount
  BY <1>19 DEF UpdateAccount
<1>20. CASE UpdatePassword
  BY <1>20 DEF UpdatePassword
<1>21. CASE \E what \in {"signOut", "signOff"} : SignedOut(what)
  <2>1. /\ session' = FALSE /\ user' = FALSE /\ page' = "login"
        /\ UNCHANGED <<given, spent>> /\ missed' = "nothing"
    BY <1>21 DEF SignedOut
  <2>2. CASE page = "login"
    BY <1>21, <2>1, <2>2 DEF SignedOut
  <2>3. CASE page # "login"
    <3>1. /\ captchaId' = None /\ code' = None /\ login' = None /\ "submit" \notin fetching'
      BY <1>21, <2>1, <2>3 DEF SignedOut
    <3> QED
      BY <2>1, <3>1
  <2> QED
    BY <2>2, <2>3
<1>22. CASE \E what \in {"signOut", "signOff"}, done \in BOOLEAN : SignOutFails(what, done)
  BY <1>22 DEF SignOutFails
<1>23. CASE UNCHANGED sessionVars
  BY <1>23 DEF sessionVars
<1> QED
  BY <1>1, <1>2, <1>3, <1>4, <1>5, <1>6, <1>7, <1>8, <1>9, <1>10, <1>11, <1>12,
     <1>13, <1>14, <1>15, <1>16, <1>17, <1>18, <1>19, <1>20, <1>21, <1>22, <1>23
     DEF SessionNext

\* The API's captchas and their issues stay what they are.
LEMMA CaptchasStay ==
    ASSUME live \in LiveCaptchas, issued \in Issues
    PROVE  /\ CaptchasAge(live) \in LiveCaptchas
           /\ \A id \in Ids : /\ Issue(live, id) \in LiveCaptchas
                              /\ Consume(live, id) \in LiveCaptchas
           /\ IssueNoted(issued) \in Issues /\ IssuesAge(issued) \in Issues
<1>1. CaptchasAge(live) \in LiveCaptchas
  BY DEF CaptchasAge, LiveCaptchas
<1>2. IssueNoted(issued) \in Issues
  <2>1. \A n \in 1..MaxPerMinute : n # 1 => n - 1 \in 1..MaxPerMinute
    OBVIOUS
  <2>2. 0 \in 0..(Minute - 1)
    OBVIOUS
  <2> QED
    BY <2>1, <2>2 DEF IssueNoted, Issues
<1>3. IssuesAge(issued) \in Issues
  <2>1. ASSUME NEW n \in 1..MaxPerMinute, issued[n] # None, issued[n] # Minute - 1
        PROVE  issued[n] + 1 \in 0..(Minute - 1)
    BY <2>1 DEF Issues
  <2> QED
    BY <2>1 DEF IssuesAge, Issues
<1> QED
  BY <1>1, <1>2, <1>3 DEF Issue, Consume, LiveCaptchas

\* The types of the rest.
LEMMA SessionTypes ==
    ASSUME SessionTypeOK, SessionInv, SessionInv', [SessionNext]_sessionVars
    PROVE  SessionTypeOK'
<1>0. live \in LiveCaptchas /\ issued \in Issues /\ SessionRest
  BY DEF SessionTypeOK, LiveCaptchas, SessionRest
<1> SUFFICES live' \in LiveCaptchas /\ issued' \in Issues /\ SessionRest'
  BY DEF SessionTypeOK, SessionInv, Ids, LiveCaptchas, SessionRest
<1>r. given' \in 0..MaxCaptchas /\ (login # None => login.id \in Ids)
  BY DEF SessionInv, Login
<1>1. live' \in LiveCaptchas /\ issued' \in Issues
  <2>1. \/ UNCHANGED <<live, issued>>
        \/ live' = CaptchasAge(live) /\ issued' = IssuesAge(issued)
        \/ given' = given + 1 /\ live' = Issue(live, given') /\ issued' = IssueNoted(issued)
        \/ login # None /\ live' = Consume(live, login.id) /\ issued' = issued
    <3> USE DEF apiVars, sessionVars
    <3>1. CASE LoggedIn \/ \E made \in BOOLEAN : LoginFails(made)
      BY <3>1 DEF LoggedIn, LoginFails, Answering
    <3>2. CASE \E who \in fetching : CaptchaComes(who) \/ CaptchaFails(who)
      BY <3>2 DEF CaptchaComes, CaptchaFails
    <3> QED
      BY <3>1, <3>2 DEF SessionNext, CaptchasGrowOld, TypeCode, AskCaptcha, Submit,
          LoginLimited, PasswordFails, SessionEnds, PasswordChanged, NameChanged, Renamed,
          RenameFails, Navigate, Reload, SignOut, UpdateAccount, UpdatePassword, Call,
          SignedOut, SignOutFails, LoggedOut
  <2>2. given' = given + 1 => given' \in Ids
    BY <1>r DEF SessionInv, Ids
  <2>3. /\ CaptchasAge(live) \in LiveCaptchas /\ IssueNoted(issued) \in Issues
        /\ IssuesAge(issued) \in Issues
        /\ \A id \in Ids : Issue(live, id) \in LiveCaptchas /\ Consume(live, id) \in LiveCaptchas
    BY <1>0, CaptchasStay
  <2> QED
    BY <1>0, <1>r, <2>1, <2>2, <2>3
<1>2. SessionRest'
  <2> SUFFICES SessionRest'
    OBVIOUS
  <2> USE <1>0 DEF SessionRest, sessionVars, formVars, apiVars, Refresh, Fetched, NoForm,
            NewForm, Call, FormsFree, Forms, LoggedOut
  <2>1. CASE CaptchasGrowOld \/ TypeCode \/ AskCaptcha \/ Submit
    BY <2>1 DEF CaptchasGrowOld, TypeCode, AskCaptcha, Submit
  <2>2. CASE LoggedIn \/ LoginLimited \/ \E made \in BOOLEAN : LoginFails(made)
    BY <2>2 DEF LoggedIn, LoginLimited, LoginFails
  <2>3. CASE \E who \in fetching : CaptchaComes(who) \/ CaptchaFails(who)
    BY <2>3 DEF CaptchaComes, CaptchaFails
  <2>4. CASE SessionEnds \/ PasswordChanged \/ NameChanged \/ Renamed \/ RenameFails
             \/ \E made \in BOOLEAN : PasswordFails(made)
    BY <2>4 DEF SessionEnds, PasswordChanged, NameChanged, Renamed, RenameFails, PasswordFails
  <2>5. ASSUME NEW to \in {"login", "app"}, NEW known, Land(to, known)
        PROVE  /\ page' \in {"login", "app"} /\ captchaLoading' \in BOOLEAN
               /\ fetching' \subseteq {"user", "submit"}
    BY <2>5 DEF Land
  <2>6. CASE \E to \in {"login", "app"} : Navigate(to)
    BY <2>5, <2>6 DEF Navigate
  <2>7. CASE \E answered \in BOOLEAN : Reload(answered)
    BY <2>7 DEF Reload
  <2>8. CASE SignOut \/ UpdateAccount \/ UpdatePassword
    BY <2>8 DEF SignOut, UpdateAccount, UpdatePassword
  <2>9. CASE \E what \in {"signOut", "signOff"} : SignedOut(what)
    BY <2>5, <2>9 DEF SignedOut
  <2>10. CASE \E what \in {"signOut", "signOff"}, done \in BOOLEAN : SignOutFails(what, done)
    BY <2>10 DEF SignOutFails
  <2>11. CASE UNCHANGED sessionVars
    BY <2>11
  <2> QED
    BY <2>1, <2>2, <2>3, <2>4, <2>6, <2>7, <2>8, <2>9, <2>10, <2>11 DEF SessionNext
<1> QED
  BY <1>1, <1>2

\* Of the places in a set, one is the i-th.
LEMMA PlacesCount ==
    ASSUME NEW P \in SUBSET (1..4), NEW i \in 1..Cardinality(P)
    PROVE  \E p \in P : Cardinality(UpTo(P, p)) = i
<1>1. IsFiniteSet(1..4) /\ IsFiniteSet(P) /\ Cardinality(P) \in Nat
  <2>1. 1 \in Int /\ 4 \in Int
    OBVIOUS
  <2>2. IsFiniteSet(1..4)
    BY <2>1, FS_Interval, Zenon
  <2> QED
    BY <2>2, FS_Subset, FS_CardinalityType
<1> DEFINE C(p) == Cardinality(UpTo(P, p))
<1>2. \A p \in 0..4 : IsFiniteSet(UpTo(P, p)) /\ C(p) \in Nat
  BY <1>1, FS_Subset, FS_CardinalityType DEF UpTo
<1>3. C(0) = 0 /\ C(4) = Cardinality(P)
  <2>1. UpTo(P, 0) = {} /\ UpTo(P, 4) = P
    BY DEF UpTo
  <2> QED
    BY <2>1, FS_EmptySet
<1>4. ASSUME NEW p \in 0..3
      PROVE  (p + 1 \in P /\ C(p + 1) = C(p) + 1) \/ C(p + 1) = C(p)
  <2>1. CASE p + 1 \in P
    <3>1. UpTo(P, p + 1) = UpTo(P, p) \cup {p + 1} /\ p + 1 \notin UpTo(P, p)
      <4>1. \A q \in P : q <= p + 1 <=> q <= p \/ q = p + 1
        OBVIOUS
      <4>2. p \in Int /\ ~(p + 1 <= p)
        OBVIOUS
      <4> QED
        BY ONLY <2>1, <4>1, <4>2 DEF UpTo
    <3> HIDE DEF UpTo
    <3>2. IsFiniteSet(UpTo(P, p))
      BY <1>2
    <3> QED
      BY <2>1, <3>1, <3>2, FS_AddElement
  <2>2. CASE p + 1 \notin P
    <3>1. UpTo(P, p + 1) = UpTo(P, p)
      BY <2>2 DEF UpTo
    <3> QED
      BY <3>1
  <2> QED
    BY <2>1, <2>2
<1> HIDE DEF C
<1>5. /\ C(0) \in Nat /\ C(1) \in Nat /\ C(2) \in Nat /\ C(3) \in Nat /\ C(4) \in Nat
  BY <1>2
<1>6. /\ (1 \in P /\ C(1) = C(0) + 1) \/ C(1) = C(0)
      /\ (2 \in P /\ C(2) = C(1) + 1) \/ C(2) = C(1)
      /\ (3 \in P /\ C(3) = C(2) + 1) \/ C(3) = C(2)
      /\ (4 \in P /\ C(4) = C(3) + 1) \/ C(4) = C(3)
  <2>1. /\ 0 + 1 = 1 /\ 1 + 1 = 2 /\ 2 + 1 = 3 /\ 3 + 1 = 4 /\ {0, 1, 2, 3} \subseteq 0..3
    OBVIOUS
  <2>2. \A p \in 0..3 : (p + 1 \in P /\ C(p + 1) = C(p) + 1) \/ C(p + 1) = C(p)
    BY <1>4
  <2> QED
    BY <2>1, <2>2
<1>7. i \in Nat /\ i > 0 /\ i <= C(4)
  BY <1>1, <1>3
<1>8. \/ 1 \in P /\ C(1) = i
      \/ 2 \in P /\ C(2) = i
      \/ 3 \in P /\ C(3) = i
      \/ 4 \in P /\ C(4) = i
  BY <1>3, <1>5, <1>6, <1>7
<1> QED
  BY <1>8 DEF C

\* Names that are sorted are the ones that were given, and one is preferred.
LEMMA SortedIs ==
    ASSUME NEW S \in SUBSET Range(Names), S # {}
    PROVE  /\ Sorted(S) # <<>> /\ Range(Sorted(S)) \subseteq S
           /\ Preferred(Sorted(S), Standard) \in DOMAIN Sorted(S)
<1> DEFINE P == {p \in DOMAIN Names : Names[p] \in S}
<1>1. DOMAIN Names = 1..4
  BY DEF Names
<1>2. IsFiniteSet(P) /\ Cardinality(P) \in Nat
  <2>1. 1 \in Int /\ 4 \in Int
    OBVIOUS
  <2>2. IsFiniteSet(1..4)
    BY <2>1, FS_Interval, Zenon
  <2> QED
    BY <1>1, <2>2, FS_Subset, FS_CardinalityType
<1>3. IsFiniteSet(S) /\ Cardinality(S) \in Nat /\ Cardinality(S) <= Cardinality(P)
  <2> DEFINE g == [p \in P |-> Names[p]]
  <2>1. \A name \in S : \E p \in P : name = Names[p]
    BY DEF Range
  <2>2. g \in [P -> S]
    OBVIOUS
  <2>3. g \in Surjection(P, S)
    BY <2>1, <2>2 DEF Surjection
  <2> HIDE DEF g, P
  <2> QED
    BY <1>2, <2>3, FS_Surjection, FS_CardinalityType
<1>4. Cardinality(S) # 0
  BY <1>3, FS_EmptySet
<1> DEFINE At(i) == CHOOSE p \in P : Cardinality(UpTo(P, p)) = i
<1>5. \A i \in 1..Cardinality(S) : At(i) \in P
  <2>1. P \in SUBSET (1..4)
    BY <1>1
  <2> HIDE DEF P
  <2>2. \A i \in 1..Cardinality(S) : \E p \in P : Cardinality(UpTo(P, p)) = i
    BY <1>2, <1>3, <2>1, PlacesCount
  <2> QED
    BY <2>2
<1>6. Sorted(S) = [i \in 1..Cardinality(S) |-> Names[At(i)]]
  BY DEF Sorted, UpTo
<1> HIDE DEF At
<1>7. Range(Sorted(S)) \subseteq S /\ DOMAIN Sorted(S) = 1..Cardinality(S)
  <2>1. DOMAIN Sorted(S) = 1..Cardinality(S)
    BY <1>6
  <2>2. \A i \in 1..Cardinality(S) : Sorted(S)[i] = Names[At(i)] /\ At(i) \in P
    BY <1>5, <1>6
  <2>3. \A i \in 1..Cardinality(S) : Sorted(S)[i] \in S
    BY <2>2
  <2> QED
    BY <2>1, <2>3 DEF Range
<1> DEFINE cs == Sorted(S)
<1> HIDE DEF cs
<1>8. 1 \in DOMAIN cs
  BY <1>3, <1>4, <1>7 DEF cs
<1>9. cs # <<>>
  BY <1>8
<1>10. \E i \in DOMAIN cs :
        \/ cs[i] = Standard
        \/ (\A j \in DOMAIN cs : cs[j] # Standard) /\ i = 1
  BY <1>8
<1>11. Preferred(cs, Standard) \in DOMAIN cs
  BY <1>10 DEF Preferred
<1> QED
  BY <1>7, <1>9, <1>11 DEF cs

\* What a search tells, and of which host.
LEMMA SearchIs ==
    ASSUME NEW h \in Hosts
    PROVE  /\ Found(h).on = h /\ Found(h).supported \in BOOLEAN
           /\ Found(h).candidates = Discover(Machines[h]).candidates
           /\ Found(h).supported = Discover(Machines[h]).supported
           /\ Found(h).supported => Found(h).candidates # <<>>
           /\ Range(Found(h).candidates) \subseteq Range(Names)
           /\ Found(h).candidates # <<>> =>
                  Preferred(Found(h).candidates, Standard) \in DOMAIN Found(h).candidates
<1> DEFINE m == Machines[h]
           fit == {name \in DOMAIN m.units : Supported(name, m.units[name])}
           cs == Discover(m).candidates
<1>1. IsMachine(m)
  OBVIOUS
<1>2. fit \in SUBSET Range(Names) /\ m.sudo \in BOOLEAN
  BY <1>1 DEF IsMachine
<1>3. /\ cs = <<>> \/ (fit # {} /\ cs = Sorted(fit))
      /\ Discover(m).supported \in BOOLEAN
      /\ Discover(m).supported => fit # {} /\ cs = Sorted(fit)
  BY <1>2 DEF Discover, Unsupported
<1>4. fit # {} => /\ Sorted(fit) # <<>> /\ Range(Sorted(fit)) \subseteq fit
                  /\ Preferred(Sorted(fit), Standard) \in DOMAIN Sorted(fit)
  <2> HIDE DEF fit
  <2> QED
    BY <1>2, SortedIs
<1>5. Range(<<>>) = {}
  <2>1. DOMAIN <<>> = {}
    OBVIOUS
  <2> QED
    BY <2>1 DEF Range
<1>6. /\ Found(h).on = h /\ Found(h).candidates = cs /\ Found(h).supported = Discover(m).supported
  BY DEF Found
<1> HIDE DEF fit, cs, m
<1> QED
  BY <1>2, <1>3, <1>4, <1>5, <1>6 DEF cs, m

\* What the page that adds a server would save.
LEMMA WizardKeeps ==
    ASSUME WizardInv, [WizardNext]_wizardVars
    PROVE  WizardInv'
<1> USE DEF WizardInv, SavedHostWasVerified, FromHost, IsForm, Ask, LetsIn,
            wizardVars
<1>1. ASSUME NEW h \in Hosts \cup {None}, Fill(h)
      PROVE  WizardInv'
  BY <1>1 DEF Fill
<1>2. CASE Probe
  BY <1>2 DEF Probe
<1>3. CASE Probed
  BY <1>3 DEF Probed
<1>4. CASE ConfirmAndDiscover
  BY <1>4 DEF ConfirmAndDiscover
<1>5. CASE Discovered
  <2> DEFINE h == working.host
  <2>1. /\ step' = 3 /\ host' = h /\ h \in Hosts /\ probeResult' = working.key
        /\ working' = None /\ verified' = verified \cup {<<h, working.key>>}
        /\ discovery' = Found(h) /\ UNCHANGED saved
    BY <1>5 DEF Discovered
  <2>2. IsForm(candidate') /\ (discovery'.supported => FromHost(h, candidate'))
    <3>1. CASE discovery'.candidates = <<>>
      <4>1. ~discovery'.supported
        BY <2>1, <3>1, SearchIs
      <4>2. candidate' = candidate
        BY <1>5, <3>1 DEF Discovered
      <4> QED
        BY <4>1, <4>2
    <3>2. CASE discovery'.candidates # <<>>
      <4>1. candidate' = FormOf(discovery', Preferred(discovery'.candidates, Standard))
        BY <1>5, <3>2 DEF Discovered
      <4>2. /\ discovery'.on = h /\ discovery'.candidates = Discover(Machines[h]).candidates
            /\ discovery'.supported = Discover(Machines[h]).supported
        BY <2>1, SearchIs
      <4>3. discovery'.supported =>
              Preferred(discovery'.candidates, Standard) \in DOMAIN discovery'.candidates
        BY <2>1, <3>2, <4>2, SearchIs
      <4> QED
        BY <4>1, <4>2, <4>3 DEF FormOf, Range
    <3> QED
      BY <3>1, <3>2
  <2> QED
    BY <2>1, <2>2
<1>6. CASE Back
  BY <1>6 DEF Back
<1>7. ASSUME NEW i \in DOMAIN Names, Select(i)
      PROVE  WizardInv'
  <2>1. /\ step = 3 /\ candidate' = FormOf(discovery, i) /\ i \in DOMAIN discovery.candidates
        /\ UNCHANGED <<step, host, working, probeResult, discovery, verified, saved>>
    BY <1>7 DEF Select, Selectable
  <2>2. /\ host \in Hosts /\ discovery.on = host
        /\ discovery.candidates = Discover(Machines[host]).candidates
    BY <2>1, SearchIs
  <2>3. IsForm(candidate') /\ FromHost(host, candidate')
    BY <2>1, <2>2 DEF FormOf, Range
  <2> QED
    BY <2>1, <2>3
<1>8. CASE Edit
  <2>1. /\ IsForm(candidate')
        /\ candidate'.unit = candidate.unit /\ candidate'.on = candidate.on
    BY <1>8 DEF Edit
  <2>2. UNCHANGED <<step, host, working, probeResult, discovery, verified, saved>>
    BY <1>8 DEF Edit
  <2> QED
    BY <2>1, <2>2
<1>9. CASE Save
  <2>1. /\ step = 3 /\ discovery.supported
        /\ UNCHANGED <<step, host, probeResult, discovery, candidate, verified, saved>>
        /\ working' = [to |-> "create", host |-> host, key |-> probeResult, candidate |-> candidate]
    BY <1>9 DEF Save, MaySave
  <2>2. /\ <<host, probeResult>> \in verified /\ FromHost(host, candidate)
    BY <2>1
  <2>3. working'.to = "create" /\ working'.host = host /\ working'.key = probeResult
        /\ working'.candidate = candidate
    BY <2>1
  <2> QED
    BY <2>1, <2>2, <2>3
<1>10. CASE WizardFails
  BY <1>10 DEF WizardFails
<1>11. ASSUME NEW heard \in BOOLEAN, Created(heard)
      PROVE  WizardInv'
  <2>1. CASE heard
    BY <1>11, <2>1 DEF Created, EmptyForm
  <2>2. CASE ~heard
    BY <1>11, <2>2 DEF Created
  <2> QED
    BY <2>1, <2>2
<1>12. CASE UNCHANGED wizardVars
  BY <1>12 DEF wizardVars
<1> QED
  BY <1>1, <1>2, <1>3, <1>4, <1>5, <1>6, <1>7, <1>8, <1>9, <1>10, <1>11, <1>12 DEF
     WizardNext

\* A form is filled from a candidate.
LEMMA FormIs ==
    ASSUME NEW h \in Hosts, NEW i \in DOMAIN Found(h).candidates
    PROVE  FormOf(Found(h), i) \in Candidate
<1>1. Found(h).candidates[i] \in Range(Names)
  <2>1. \A cs : \A j \in DOMAIN cs : cs[j] \in Range(cs)
    BY DEF Range
  <2>2. Range(Found(h).candidates) \subseteq Range(Names)
    BY SearchIs
  <2> HIDE DEF Found
  <2> QED
    BY <2>1, <2>2, Zenon
<1>2. Found(h).on = h
  BY SearchIs
<1> HIDE DEF Found
<1> QED
  BY <1>1, <1>2 DEF FormOf, Candidate

\* The types of the page that adds a server.
LEMMA WizardTypes ==
    ASSUME WizardRest, WizardInv, [WizardNext]_wizardVars
    PROVE  WizardRest'
<1> USE DEF WizardRest, Ask, wizardVars
<1>h. host \in Hosts \cup {None}
  BY DEF WizardInv
<1>r. working # None =>
          working.to \in {"host-key", "probe", "create"} /\ working.host \in Hosts
          /\ working.key \in Hosts \cup {None} /\ working.candidate \in Candidate
  BY DEF Request
<1>1. CASE \E h \in Hosts \cup {None} : Fill(h)
  BY <1>1 DEF Fill
<1>2. CASE Probe
  BY <1>2, <1>h DEF Probe, Request
<1>3. CASE Probed
  BY <1>3, <1>r DEF Probed, Scanned
<1>4. CASE ConfirmAndDiscover
  BY <1>4, <1>h DEF ConfirmAndDiscover, Request
<1>5. CASE Discovered
  <2>1. /\ working # None /\ LetsIn(working.host, working.key)
        /\ discovery' = Found(working.host) /\ step' = 3 /\ working' = None
        /\ verified' = verified \cup {<<working.host, working.key>>}
        /\ UNCHANGED <<probeResult, saved>>
        /\ \/ candidate' = candidate
           \/ /\ Found(working.host).candidates # <<>>
              /\ candidate' = FormOf(Found(working.host),
                                     Preferred(Found(working.host).candidates, Standard))
    BY <1>5 DEF Discovered
  <2>2. working.host \in Hosts /\ working.key \in Hosts
    BY <1>r, <2>1 DEF LetsIn
  <2>3. candidate' \in Candidate
    BY <2>1, <2>2, SearchIs, FormIs
  <2> HIDE DEF Found
  <2> QED
    BY <2>1, <2>2, <2>3
<1>6. CASE Back
  BY <1>6 DEF Back
<1>7. CASE \E i \in DOMAIN Names : Select(i)
  <2>1. PICK i \in DOMAIN Names : Select(i)
    BY <1>7
  <2>2. discovery # None /\ i \in DOMAIN discovery.candidates /\ candidate' = FormOf(discovery, i)
    BY <2>1 DEF Select, Selectable
  <2>3. candidate' \in Candidate
    BY <2>2, FormIs
  <2> QED
    BY <2>1, <2>3 DEF Select
<1>8. CASE Edit
  BY <1>8 DEF Edit, Candidate
<1>9. CASE Save
  BY <1>9, <1>h DEF Save, Request
<1>10. CASE WizardFails
  BY <1>10 DEF WizardFails
<1>11. ASSUME NEW heard \in BOOLEAN, Created(heard)
      PROVE  WizardRest'
  <2>1. EmptyForm \in Candidate
    BY DEF EmptyForm, Candidate
  <2>2. working # None /\ working.to = "create" /\ <<working.host, working.key>> \in verified
    BY <1>11 DEF Created, WizardInv
  <2>3. working.key \in Hosts
    BY <2>2
  <2>4. saved' \subseteq [host : Hosts, key : Hosts, candidate : Candidate]
    BY <1>11, <1>r, <2>2, <2>3 DEF Created
  <2> QED
    BY <1>11, <2>1, <2>4 DEF Created
<1>12. CASE UNCHANGED wizardVars
  BY <1>12 DEF wizardVars
<1> QED
  BY <1>1, <1>2, <1>3, <1>4, <1>5, <1>6, <1>7, <1>8, <1>9, <1>10, <1>11, <1>12 DEF
     WizardNext

LEMMA WizardTypesHold == WizardRest /\ WizardInv => WizardTypeOK
BY SearchIs DEF WizardRest, WizardInv, WizardTypeOK

-----------------------------------------------------------------------------
(* Formatting: what each step of the formatter writes. *)

\* Blanks are layout.
LEMMA BlankWritten ==
    ASSUME NEW g, IsLoop(g), NEW c \in {Blank, NewLine}
    PROVE  SameBut(g, Write(g, c), g.owed)
BY DEF Write, SameBut, IsLoop, Kept

\* What is owed next is written, and no longer owed.
LEMMA OwedWritten ==
    ASSUME NEW g, IsLoop(g), NEW c \in Characters \ {Blank, NewLine},
           g.owed # <<>>, Head(g.owed) = c
    PROVE  SameBut(g, Write(g, c), Tail(g.owed))
BY DEF Write, SameBut, IsLoop, Kept

\* A change of the layout changes nothing else.
LEMMA Layout ==
    ASSUME NEW g, IsLoop(g)
    PROVE  /\ SameBut(g, Indent(g), g.owed) /\ SameBut(g, Outdent(g), g.owed)
           /\ SameBut(g, NextLine(g), g.owed) /\ SameBut(g, EmptyLine(g), g.owed)
           /\ SameBut(g, FinishToken(g), g.owed) /\ SameBut(g, FinishLine(g), g.owed)
           /\ SameBut(g, Closed(g), g.owed)
<1>1. SameBut(g, Indent(g), g.owed)
  <2>1. SameBut(g, g, g.owed)
    BY DEF SameBut
  <2> QED
    BY <2>1, BlankWritten DEF Indent
<1>2. \A h : IsLoop(h) => SameBut(h, NextLine(h), h.owed)
  <2> SUFFICES ASSUME NEW h, IsLoop(h)
               PROVE  SameBut(h, NextLine(h), h.owed)
    OBVIOUS
  <2>1. SameBut(h, Write(h, NewLine), h.owed)
    BY BlankWritten
  <2> HIDE DEF Write
  <2> QED
    BY <2>1 DEF NextLine, SameBut, IsLoop, Kept
<1>3. SameBut(g, EmptyLine(g), g.owed)
  <2>1. SameBut(g, g, g.owed)
    BY DEF SameBut
  <2>2. SameBut(g, NextLine(NextLine(g)), g.owed)
    <3>1. SameBut(g, NextLine(g), g.owed) /\ IsLoop(NextLine(g))
      BY <1>2 DEF SameBut
    <3>2. SameBut(NextLine(g), NextLine(NextLine(g)), NextLine(g).owed)
      BY <1>2, <3>1
    <3> QED
      BY <3>1, <3>2 DEF SameBut
  <2> QED
    BY <2>1, <2>2 DEF EmptyLine
<1>4. SameBut(g, Outdent(g), g.owed) /\ SameBut(g, Closed(g), g.owed)
  BY DEF Outdent, Closed, SameBut, IsLoop, Kept
<1>5. \A h : IsLoop(h) => SameBut(h, FinishToken(h), h.owed)
  BY DEF FinishToken, SameBut, IsLoop, Kept
<1>6. SameBut(g, FinishLine(g), g.owed)
  <2> DEFINE h == FinishToken(g)
  <2>1. SameBut(g, h, g.owed)
    BY <1>5
  <2>2. FinishLine(g) = [h EXCEPT !.first = Nothing,
                  !.afterImport =
                      IF h.first # Nothing THEN h.nesting = 0 /\ h.first = "i"
                      ELSE @ /\ Held(h) /\ h.openBraceOwnLine]
    BY DEF FinishLine
  <2> HIDE DEF h
  <2> QED
    BY <2>1, <2>2 DEF SameBut, IsLoop, Kept
<1> QED
  BY <1>1, <1>2, <1>3, <1>4, <1>5, <1>6

\* The brace that was held back is written, ...
LEMMA BraceWritten ==
    ASSUME NEW g, IsLoop(g), g.owed # <<>>, Head(g.owed) = LeftBrace
    PROVE  LET h == WriteBrace(g)
           IN  /\ IsLoop(h) /\ h.owed = Tail(g.owed) /\ ~Held(h)
               /\ h.comment = g.comment /\ h.escaped = g.escaped
<1> DEFINE h == [EmptyLine(g) EXCEPT !.openBrace = FALSE]
           line == IF h.last # NewLine THEN NextLine(h) ELSE h
           at == IF h.openBraceOwnLine /\ h.afterImport
                 THEN Indent(line)
                 ELSE IF h.beginningOfLine THEN Indent(h)
                 ELSE IF ~h.openBraceSpace \/ h.last \notin {Blank, NewLine}
                      THEN Write(h, Blank) ELSE h
           end == NextLine(Write(at, LeftBrace))
<1>1. /\ IsLoop(h) /\ h.owed = g.owed
      /\ h.comment = g.comment /\ h.escaped = g.escaped
  <2>1. SameBut(g, EmptyLine(g), g.owed)
    BY Layout
  <2> QED
    BY <2>1 DEF SameBut, IsLoop, Kept
<1>2. WriteBrace(g) = [end EXCEPT
            !.openBraceWritten = TRUE, !.openBraceOwnLine = FALSE, !.newLines = 0,
            !.nesting = IF @ < MaxNesting THEN @ + 1 ELSE @]
  BY DEF WriteBrace
<1> HIDE DEF h
<1>3. SameBut(h, line, g.owed)
  BY <1>1, Layout DEF SameBut
<1>4. SameBut(h, at, g.owed)
  <2>1. SameBut(h, Indent(line), g.owed)
    <3>1. SameBut(line, Indent(line), line.owed)
      BY <1>3, Layout DEF SameBut
    <3> HIDE DEF line
    <3> QED
      BY <1>3, <3>1 DEF SameBut
  <2>2. SameBut(h, Indent(h), g.owed) /\ SameBut(h, Write(h, Blank), g.owed)
    BY <1>1, Layout, BlankWritten
  <2>3. SameBut(h, h, g.owed)
    BY <1>1 DEF SameBut
  <2> HIDE DEF line
  <2> QED
    BY <2>1, <2>2, <2>3
<1> HIDE DEF at
<1>5. SameBut(h, Write(at, LeftBrace), Tail(g.owed))
  <2>1. LeftBrace \in Characters \ {Blank, NewLine}
    BY DEF Characters, Blank, NewLine, LeftBrace
  <2>2. SameBut(at, Write(at, LeftBrace), Tail(at.owed))
    BY <1>4, <2>1, OwedWritten DEF SameBut
  <2> QED
    BY <1>4, <2>2 DEF SameBut
<1>6. SameBut(h, end, Tail(g.owed))
  <2>1. SameBut(Write(at, LeftBrace), end, Write(at, LeftBrace).owed)
    BY <1>5, Layout DEF SameBut
  <2> HIDE DEF end
  <2> QED
    BY <1>5, <2>1 DEF SameBut
<1> HIDE DEF end
<1> QED
  BY <1>1, <1>2, <1>6 DEF SameBut, IsLoop, Kept, Held

\* ... where no blank comes before what follows it, too.
LEMMA GluedWritten ==
    ASSUME NEW g, IsLoop(g), Held(g), g.owed # <<>>, Head(g.owed) = LeftBrace
    PROVE  LET h == GluedBrace(g)
           IN  /\ IsLoop(h) /\ h.owed = Tail(g.owed) /\ ~Held(h)
               /\ h.comment = g.comment /\ h.escaped = g.escaped
<1>1. LeftBrace \in Characters \ {Blank, NewLine}
  BY DEF Characters, Blank, NewLine, LeftBrace
<1>2. SameBut(g, Write(g, LeftBrace), Tail(g.owed))
  BY <1>1, OwedWritten
<1> HIDE DEF Write
<1> QED
  BY <1>2 DEF GluedBrace, SameBut, IsLoop, Kept, Held

\* What is owed at most: a brace, and what has just been read.
LEMMA TwoAreOwed ==
    ASSUME NEW c \in Characters
    PROVE  /\ Append(<<>>, c) = <<c>> /\ <<c>> # <<>> /\ Head(<<c>>) = c /\ Tail(<<c>>) = <<>>
           /\ LET two == Append(<<LeftBrace>>, c)
              IN  two # <<>> /\ Head(two) = LeftBrace /\ Tail(two) = <<c>>
<1>1. Append(<<>>, c) = <<c>> /\ <<c>> # <<>> /\ Head(<<c>>) = c
  OBVIOUS
<1>2. Tail(<<c>>) = <<>>
  OBVIOUS
<1>3. <<LeftBrace>> \in Seq(Characters) /\ <<LeftBrace>> # <<>>
  BY DEF Characters
<1>4. Head(<<LeftBrace>>) = LeftBrace /\ Tail(<<LeftBrace>>) = <<>>
  OBVIOUS
<1>5. Append(<<LeftBrace>>, c) # <<>>
  BY <1>3, AppendProperties
<1>6. /\ Head(Append(<<LeftBrace>>, c)) = LeftBrace
      /\ Tail(Append(<<LeftBrace>>, c)) = Append(<<>>, c)
  <2>1. /\ Head(Append(<<LeftBrace>>, c)) =
              IF <<LeftBrace>> = <<>> THEN c ELSE Head(<<LeftBrace>>)
        /\ Tail(Append(<<LeftBrace>>, c)) =
              IF <<LeftBrace>> = <<>> THEN <<>> ELSE Append(Tail(<<LeftBrace>>), c)
    BY <1>3, HeadTailAppend, Zenon
  <2> QED
    BY <1>3, <1>4, <2>1, Zenon
<1> QED
  BY <1>1, <1>2, <1>5, <1>6

\* A character has come.
LEMMA GotIs ==
    ASSUME FormatInv, ~lost, NEW c \in Characters
    PROVE  LET owed == IF c \in {Blank, NewLine} THEN f.owed
                       ELSE IF Held(f) THEN Append(<<LeftBrace>>, c) ELSE <<c>>
           IN  SameBut(f, Got(c), owed)
BY TwoAreOwed DEF FormatInv, SameBut, IsLoop, Kept, Got

\* While nothing is held back it is written where it belongs.
LEMMA GotWritten ==
    ASSUME FormatInv, ~lost, ~Held(f), NEW c \in Characters
    PROVE  /\ SameBut(f, Write(Got(c), c), <<>>)
           /\ c \notin {Blank, NewLine} =>
                 SameBut(f, Write(Write(Got(c), Blank), c), <<>>)
<1>1. SameBut(f, Got(c), IF c \in {Blank, NewLine} THEN <<>> ELSE <<c>>)
  BY GotIs DEF FormatInv
<1>2. SameBut(f, Write(Got(c), c), <<>>)
  <2>1. CASE c \in {Blank, NewLine}
    <3>1. SameBut(Got(c), Write(Got(c), c), Got(c).owed)
      BY <1>1, <2>1, BlankWritten DEF SameBut
    <3> HIDE DEF Got, Write
    <3> QED
      BY <1>1, <2>1, <3>1 DEF SameBut
  <2>2. CASE c \notin {Blank, NewLine}
    <3>1. SameBut(Got(c), Write(Got(c), c), Tail(Got(c).owed))
      BY <1>1, <2>2, TwoAreOwed, OwedWritten DEF SameBut
    <3> HIDE DEF Got, Write
    <3> QED
      BY <1>1, <2>2, <3>1, TwoAreOwed DEF SameBut
  <2> QED
    BY <2>1, <2>2
<1>3. ASSUME c \notin {Blank, NewLine}
      PROVE  SameBut(f, Write(Write(Got(c), Blank), c), <<>>)
  <2> DEFINE g == Write(Got(c), Blank)
  <2>1. SameBut(Got(c), g, Got(c).owed)
    BY <1>1, BlankWritten DEF SameBut
  <2>2. SameBut(f, g, <<c>>)
    <3> HIDE DEF g, Got
    <3> QED
      BY <1>1, <1>3, <2>1 DEF SameBut
  <2> HIDE DEF g
  <2>3. SameBut(g, Write(g, c), Tail(g.owed))
    BY <1>3, <2>2, TwoAreOwed, OwedWritten DEF SameBut
  <2> HIDE DEF Write
  <2>4. SameBut(f, Write(g, c), <<>>)
    BY <2>2, <2>3, TwoAreOwed DEF SameBut
  <2> QED
    BY <2>4 DEF g
<1> QED
  BY <1>2, <1>3

\* After a blank the brace has been written before what follows.
LEMMA SeenIs ==
    ASSUME FormatInv, ~lost, NEW c \in Characters \ {Blank, NewLine}
    PROVE  LET g == Seen(c)
           IN  /\ IsLoop(g) /\ g.escaped = f.escaped /\ g.comment = (c = "#")
               /\ g.owed = IF Held(g) THEN Append(<<LeftBrace>>, c) ELSE <<c>>
               /\ (Held(f) => SpacePrior) => ~Held(g)
<1> DEFINE g == [Got(c) EXCEPT !.space = FALSE, !.quotes = Quoted(c), !.comment = (c = "#")]
<1>1. /\ IsLoop(g) /\ g.escaped = f.escaped /\ g.comment = (c = "#") /\ (Held(g) <=> Held(f))
      /\ g.owed = IF Held(g) THEN Append(<<LeftBrace>>, c) ELSE <<c>>
  <2>1. SameBut(f, Got(c), IF Held(f) THEN Append(<<LeftBrace>>, c) ELSE <<c>>)
    BY GotIs
  <2> HIDE DEF Got
  <2> QED
    BY <2>1 DEF SameBut, IsLoop, Kept, Held
<1>2. Seen(c) = Flushed(g, SpacePrior)
  BY DEF Seen
<1> HIDE DEF g
<1>3. CASE Held(g) /\ SpacePrior
  <2>1. LET h == WriteBrace(g)
        IN  /\ IsLoop(h) /\ h.owed = Tail(g.owed) /\ ~Held(h)
            /\ h.comment = g.comment /\ h.escaped = g.escaped
    BY <1>1, <1>3, TwoAreOwed, BraceWritten
  <2>2. Seen(c) = WriteBrace(g)
    BY <1>2, <1>3 DEF Flushed
  <2> HIDE DEF WriteBrace
  <2> QED
    BY <1>1, <1>3, <2>1, <2>2, TwoAreOwed
<1>4. CASE ~(Held(g) /\ SpacePrior)
  <2>1. Seen(c) = g
    BY <1>2, <1>4 DEF Flushed
  <2> QED
    BY <1>1, <1>4, <2>1
<1> QED
  BY <1>3, <1>4

\* Formatting changes blanks alone.
LEMMA FormatKeeps ==
    ASSUME FormatInv, [FormatNext]_formatVars
    PROVE  FormatInv'
<1> USE DEF FormatInv, SameBut, IsLoop, Kept, Held
<1>1. ASSUME NEW c \in Characters, ReadComment(c)
      PROVE  FormatInv'
  <2> SUFFICES ASSUME ~lost'
               PROVE  FormatInv'
    OBVIOUS
  <2>1. ~lost /\ ~Held(f)
    BY <1>1 DEF ReadComment, Reads
  <2>2. SameBut(f, Write(Got(c), c), <<>>)
    BY <2>1, GotWritten
  <2>3. SameBut(f, NextLine(f), <<>>)
    BY <2>1, Layout
  <2> HIDE DEF Got, Write, NextLine
  <2> QED
    BY <1>1, <2>1, <2>2, <2>3 DEF ReadComment
<1>2. ASSUME NEW c \in Characters, ReadBackslash(c)
      PROVE  FormatInv'
  <2> SUFFICES ASSUME ~lost'
               PROVE  FormatInv'
    OBVIOUS
  <2>1. ~lost /\ ~Held(f)
    BY <1>2 DEF ReadBackslash, Reads
  <2> DEFINE g == Write(Write(Got(c), Blank), c)
  <2>2. /\ SameBut(f, Write(Got(c), c), <<>>)
        /\ c = Backslash => SameBut(f, g, <<>>)
    BY <2>1, GotWritten DEF Backslash, Blank, NewLine
  <2>3. \E h \in {Write(Got(c), c), g} :
          /\ h = g => c = Backslash \/ h = Write(Got(c), c)
          /\ f' = [h EXCEPT !.space = FALSE, !.escaped = TRUE]
    BY <1>2 DEF ReadBackslash
  <2> HIDE DEF Got, Write, g
  <2> QED
    BY <2>1, <2>2, <2>3
<1>3. ASSUME NEW c \in Characters, ReadEscaped(c)
      PROVE  FormatInv'
  <2> SUFFICES ASSUME ~lost'
               PROVE  FormatInv'
    OBVIOUS
  <2>1. ~lost /\ ~Held(f)
    BY <1>3 DEF ReadEscaped, Reads
  <2>2. SameBut(f, Write(Got(c), c), <<>>)
    BY <2>1, GotWritten
  <2> HIDE DEF Got, Write
  <2> QED
    BY <1>3, <2>1, <2>2 DEF ReadEscaped
<1>4. ASSUME NEW c \in Characters, ReadQuoted(c)
      PROVE  FormatInv'
  <2> SUFFICES ASSUME ~lost'
               PROVE  FormatInv'
    OBVIOUS
  <2>1. ~lost /\ ~Held(f)
    BY <1>4 DEF ReadQuoted, Reads
  <2>2. SameBut(f, Write(Got(c), c), <<>>)
    BY <2>1, GotWritten
  <2> HIDE DEF Got, Write
  <2> QED
    BY <1>4, <2>1, <2>2 DEF ReadQuoted
<1>5. ASSUME NEW c \in Characters, ReadHeredoc(c)
      PROVE  FormatInv'
  <2> SUFFICES ASSUME ~lost'
               PROVE  FormatInv'
    OBVIOUS
  <2>1. ~lost /\ ~Held(f)
    BY <1>5 DEF ReadHeredoc, Reads
  <2>2. SameBut(f, Write(Got(c), c), <<>>)
    BY <2>1, GotWritten
  <2> HIDE DEF Got, Write
  <2> QED
    BY <1>5, <2>1, <2>2 DEF ReadHeredoc
<1>6. ASSUME NEW c \in Characters, ReadMarker(c)
      PROVE  FormatInv'
  <2> SUFFICES ASSUME ~lost'
               PROVE  FormatInv'
    OBVIOUS
  <2>1. ~lost /\ ~Held(f)
    BY <1>6 DEF ReadMarker, Reads
  <2>2. SameBut(f, Write(Got(c), c), <<>>)
    BY <2>1, GotWritten
  <2> HIDE DEF Got, Write
  <2> QED
    BY <1>6, <2>1, <2>2 DEF ReadMarker
<1>7. ASSUME NEW c \in Characters, MarkerEnds(c)
      PROVE  FormatInv'
  <2> SUFFICES ASSUME ~lost'
               PROVE  FormatInv'
    OBVIOUS
  <2>1. ~lost /\ ~Held(f) /\ c = NewLine
    BY <1>7 DEF MarkerEnds, Reads
  <2>2. SameBut(f, Write(Got(c), c), <<>>)
    BY <2>1, GotWritten
  <2>3. SameBut(f, NextLine(Closed(Got(c))), <<>>)
    <3>1. SameBut(f, Got(c), <<>>)
      BY <2>1, GotIs
    <3> HIDE DEF Got
    <3>2. SameBut(f, Closed(Got(c)), <<>>)
      BY <3>1, Layout
    <3> HIDE DEF Closed
    <3> QED
      BY <3>2, Layout
  <2> HIDE DEF Got, Write, Closed, NextLine
  <2> QED
    BY <1>7, <2>1, <2>2, <2>3 DEF MarkerEnds
<1>8. ASSUME NEW c \in Characters, ReadBody(c)
      PROVE  FormatInv'
  <2> SUFFICES ASSUME ~lost'
               PROVE  FormatInv'
    OBVIOUS
  <2>1. ~lost /\ ~Held(f)
    BY <1>8 DEF ReadBody, Reads
  <2>2. SameBut(f, Write(Got(c), c), <<>>)
    BY <2>1, GotWritten
  <2> HIDE DEF Got, Write
  <2> QED
    BY <1>8, <2>1, <2>2 DEF ReadBody
<1>9. ASSUME NEW c \in Characters, ReadRaw(c)
      PROVE  FormatInv'
  <2> SUFFICES ASSUME ~lost'
               PROVE  FormatInv'
    OBVIOUS
  <2>1. ~lost /\ ~Held(f)
    BY <1>9 DEF ReadRaw, Reads
  <2> DEFINE g == Write(Write(Got(c), Blank), c)
  <2>2. /\ SameBut(f, Write(Got(c), c), <<>>)
        /\ c = Backtick => SameBut(f, g, <<>>)
    BY <2>1, GotWritten DEF Backtick, Blank, NewLine
  <2>3. \E h \in {Write(Got(c), c), g} :
          /\ h = g => c = Backtick \/ h = Write(Got(c), c)
          /\ f' = [h EXCEPT !.space = FALSE, !.quotes = Quoted(c)]
    BY <1>9 DEF ReadRaw
  <2> HIDE DEF Got, Write, g
  <2> QED
    BY <2>1, <2>2, <2>3
<1>10. ASSUME NEW c \in Characters, ReadBlank(c)
      PROVE  FormatInv'
  <2> SUFFICES ASSUME ~lost'
               PROVE  FormatInv'
    OBVIOUS
  <2> DEFINE g == [FinishToken(Closed(f)) EXCEPT !.space = TRUE, !.heredocEscaped = FALSE]
  <2>1. ~lost /\ c \in {Blank, NewLine}
    BY <1>10 DEF ReadBlank, Reads
  <2>2. SameBut(f, g, f.owed)
    <3>1. SameBut(f, Closed(f), f.owed)
      BY <2>1, Layout
    <3>2. SameBut(f, FinishToken(Closed(f)), f.owed)
      <4> HIDE DEF Closed
      <4> QED
        BY <3>1, Layout
    <3> HIDE DEF Closed, FinishToken
    <3> QED
      BY <3>2
  <2>3. SameBut(f, FinishLine(g), f.owed)
    <3> HIDE DEF g
    <3> QED
      BY <2>2, Layout
  <2>4. \/ f' = g
        \/ \E n : f' = [FinishLine(g) EXCEPT !.newLines = n]
    BY <1>10 DEF ReadBlank
  <2> HIDE DEF g, FinishLine
  <2> QED
    BY <2>1, <2>2, <2>3, <2>4
<1>11. ASSUME NEW c \in Characters, ReadOpening(c)
      PROVE  FormatInv'
  <2> SUFFICES ASSUME ~lost'
               PROVE  FormatInv'
    OBVIOUS
  <2> DEFINE g == FinishToken(Seen(c))
           apart == SpacePrior /\ ~g.beginningOfLine
           h == IF apart /\ g.newLines = 0 THEN Write(g, Blank) ELSE g
  <2>1. ~lost /\ c = LeftBrace /\ (Held(f) => SpacePrior)
    BY <1>11 DEF ReadOpening, Reads
  <2>2. /\ IsLoop(Seen(c)) /\ Seen(c).escaped = f.escaped /\ Seen(c).comment = FALSE
        /\ Seen(c).owed = <<LeftBrace>>
    <3>1. c \in Characters \ {Blank, NewLine} /\ (c = "#") = FALSE
      BY <2>1 DEF LeftBrace, Blank, NewLine
    <3>2. /\ IsLoop(Seen(c)) /\ Seen(c).escaped = f.escaped /\ Seen(c).comment = (c = "#")
          /\ Seen(c).owed = IF Held(Seen(c)) THEN Append(<<LeftBrace>>, c) ELSE <<c>>
          /\ ~Held(Seen(c))
      BY <2>1, <3>1, SeenIs
    <3> HIDE DEF Seen
    <3> QED
      BY <2>1, <3>1, <3>2
  <2>3. SameBut(Seen(c), g, <<LeftBrace>>)
    <3> HIDE DEF Seen
    <3> QED
      BY <2>2, Layout
  <2>4. SameBut(Seen(c), h, <<LeftBrace>>)
    <3>1. SameBut(g, Write(g, Blank), <<LeftBrace>>)
      BY <2>3, BlankWritten
    <3> HIDE DEF g, Write, Seen
    <3> QED
      BY <2>3, <3>1
  <2>5. f' = [h EXCEPT !.openBrace = TRUE, !.openBraceSpace = apart,
                       !.openBraceOwnLine = g.newLines > 0, !.openBraceWritten = FALSE]
    BY <1>11 DEF ReadOpening
  <2>6. ~f.escaped
    BY <1>11 DEF ReadOpening, Plain, Unescaped
  <2> HIDE DEF h, g, Seen
  <2>7. IsLoop(f') /\ f'.owed = <<LeftBrace>> /\ ~f'.comment /\ ~f'.escaped /\ Held(f')
    BY <2>2, <2>4, <2>5, <2>6
  <2> QED
    BY <2>7
<1>12. ASSUME NEW c \in Characters, ReadClosing(c)
      PROVE  FormatInv'
  <2> SUFFICES ASSUME ~lost'
               PROVE  FormatInv'
    OBVIOUS
  <2> DEFINE g == FinishToken(Seen(c))
           line == IF g.last # NewLine THEN NextLine(g) ELSE g
           h == Indent(Outdent(line))
  <2>1. ~lost /\ c = RightBrace /\ (Held(f) => SpacePrior)
    BY <1>12 DEF ReadClosing, Closes, Reads
  <2>2. /\ IsLoop(Seen(c)) /\ Seen(c).escaped = f.escaped
        /\ Seen(c).owed = <<c>> /\ ~Held(Seen(c))
    <3>1. c \in Characters \ {Blank, NewLine}
      BY <2>1 DEF RightBrace, Blank, NewLine
    <3>2. /\ IsLoop(Seen(c)) /\ Seen(c).escaped = f.escaped
          /\ Seen(c).owed = IF Held(Seen(c)) THEN Append(<<LeftBrace>>, c) ELSE <<c>>
          /\ ~Held(Seen(c))
      BY <2>1, <3>1, SeenIs
    <3> HIDE DEF Seen
    <3> QED
      BY <3>2
  <2>3. SameBut(Seen(c), g, <<c>>)
    <3> HIDE DEF Seen
    <3> QED
      BY <2>2, Layout
  <2>4. SameBut(Seen(c), line, <<c>>)
    <3>1. SameBut(g, NextLine(g), <<c>>)
      BY <2>3, Layout
    <3> HIDE DEF g, NextLine, Seen
    <3> QED
      BY <2>3, <3>1
  <2>5. SameBut(Seen(c), h, <<c>>)
    <3> HIDE DEF line, Seen
    <3>1. SameBut(Seen(c), Outdent(line), <<c>>)
      <4>1. SameBut(line, Outdent(line), <<c>>)
        BY <2>4, Layout
      <4> HIDE DEF Outdent
      <4> QED
        BY <2>4, <4>1
    <3>2. SameBut(Outdent(line), h, <<c>>)
      <4> HIDE DEF Outdent
      <4> QED
        BY <3>1, Layout
    <3> HIDE DEF h, Outdent
    <3> QED
      BY <3>1, <3>2
  <2>6. SameBut(h, Write(h, c), <<>>)
    <3>1. c \in Characters \ {Blank, NewLine}
      BY <2>1 DEF RightBrace, Blank, NewLine
    <3> HIDE DEF h
    <3>2. SameBut(h, Write(h, c), Tail(h.owed))
      BY <2>5, <3>1, TwoAreOwed, OwedWritten
    <3> HIDE DEF Write
    <3> QED
      BY <2>5, <3>2, TwoAreOwed
  <2>7. f' = [Write(h, c) EXCEPT !.newLines = 0]
    BY <1>12 DEF ReadClosing
  <2> HIDE DEF h, Write, Seen
  <2>8. IsLoop(f') /\ f'.owed = <<>> /\ ~Held(f')
    BY <2>2, <2>5, <2>6, <2>7
  <2> QED
    BY <2>8
<1>13. ASSUME NEW c \in Characters, ReadText(c)
      PROVE  FormatInv'
  <2> SUFFICES ASSUME ~lost'
               PROVE  FormatInv'
    OBVIOUS
  <2> DEFINE g == Seen(c)
           lines == IF g.newLines = 0 THEN g ELSE NextLine(g)
           line == IF lines.beginningOfLine THEN EmptyLine(Indent(lines)) ELSE lines
           place == IF ~line.beginningOfLine /\ SpacePrior THEN Write(line, Blank) ELSE line
           owed == IF Held(g) THEN Append(<<LeftBrace>>, c) ELSE <<c>>
  <2>1. ~lost /\ c \in Characters \ {Blank, NewLine}
    BY <1>13 DEF ReadText, Reads
  <2>2. IsLoop(g) /\ g.owed = owed
    BY <2>1, SeenIs
  <2> HIDE DEF owed
  <2>3. SameBut(g, lines, owed)
    <3>1. SameBut(g, g, owed) /\ SameBut(g, NextLine(g), owed)
      <4> HIDE DEF g
      <4> QED
        BY <2>2, Layout
    <3> HIDE DEF g, NextLine
    <3> QED
      BY <3>1
  <2>4. SameBut(g, line, owed)
    <3> HIDE DEF lines, g
    <3>1. SameBut(lines, Indent(lines), owed)
      BY <2>3, Layout
    <3>2. SameBut(Indent(lines), EmptyLine(Indent(lines)), owed)
      <4> HIDE DEF Indent
      <4> QED
        BY <3>1, Layout
    <3> HIDE DEF Indent, EmptyLine
    <3> QED
      BY <2>3, <3>1, <3>2
  <2>5. SameBut(g, place, owed)
    <3> HIDE DEF line, g
    <3>1. SameBut(line, Write(line, Blank), owed)
      BY <2>4, BlankWritten
    <3> HIDE DEF Write
    <3> QED
      BY <2>4, <3>1
  <2> HIDE DEF place, g
  <2>6. LET h == GluedBrace(place)
        IN  IsLoop(h) /\ h.owed = <<c>> /\ ~Held(h)
    <3>1. CASE Held(g)
      <4>1. Held(place) /\ place.owed = Append(<<LeftBrace>>, c) /\ IsLoop(place)
        BY <2>5, <3>1 DEF owed
      <4> QED
        BY <2>1, <4>1, TwoAreOwed, GluedWritten
    <3>2. CASE ~Held(g)
      <4>1. ~Held(place) /\ place.owed = <<c>> /\ IsLoop(place)
        BY <2>5, <3>2 DEF owed
      <4> QED
        BY <4>1 DEF GluedBrace
    <3> QED
      BY <3>1, <3>2
  <2> DEFINE h == GluedBrace(place)
             token == IF g.token = Nothing /\ c = "i" THEN c ELSE "a"
  <2> HIDE DEF h
  <2>7. SameBut(h, Write(h, c), <<>>)
    <3>1. SameBut(h, Write(h, c), Tail(h.owed))
      BY <2>1, <2>6, TwoAreOwed, OwedWritten DEF h
    <3> HIDE DEF Write
    <3> QED
      BY <2>1, <2>6, <3>1, TwoAreOwed DEF h
  <2>8. f' = [Write(h, c) EXCEPT
                    !.newLines = 0, !.beginningOfLine = FALSE, !.token = token,
                    !.space = SpacePrior /\ c = Less]
    BY <1>13 DEF ReadText, h, place, line, lines, g
  <2> HIDE DEF Write, token
  <2>9. IsLoop(f') /\ f'.owed = <<>> /\ ~Held(f')
    BY <2>6, <2>7, <2>8 DEF h
  <2> QED
    BY <2>9
<1>14. CASE UNCHANGED formatVars
  BY <1>14 DEF formatVars
<1> QED
  BY <1>1, <1>2, <1>3, <1>4, <1>5, <1>6, <1>7, <1>8, <1>9, <1>10, <1>11, <1>12,
     <1>13, <1>14 DEF FormatNext

-----------------------------------------------------------------------------
(* Formatting: the types of the loop. *)

USE FormatConstants DEF FormatConstants

\* Short sequences, and what becomes of them.
LEMMA NoneIsShort == \A n \in Nat : Short(<<>>, n)
<1>1. Len(<<>>) = 0
  OBVIOUS
<1> QED
  BY <1>1 DEF Short

LEMMA ShortIs ==
    ASSUME NEW n \in Nat, NEW s, Short(s, n), NEW c \in Characters
    PROVE  /\ Len(s) \in 0..n
           /\ s # <<>> => Short(Tail(s), n)
           /\ \A m \in Nat : n + 1 <= m => Short(Append(s, c), m)
           /\ Short(Tail(Append(s, c)), n)
           /\ Append(s, c) \in Seq(Characters)
<1>1. s \in Seq(Characters) /\ Len(s) \in Nat /\ Len(s) <= n
  BY DEF Short
<1>2. ASSUME s # <<>>
      PROVE  Short(Tail(s), n)
  <2>1. Tail(s) \in Seq(Characters) /\ Len(Tail(s)) = Len(s) - 1
    BY <1>1, <1>2, HeadTailProperties
  <2> QED
    BY <1>1, <2>1 DEF Short
<1> DEFINE t == Append(s, c)
<1>3. t \in Seq(Characters) /\ Len(t) = Len(s) + 1 /\ t # <<>>
  BY <1>1, AppendProperties
<1> HIDE DEF t
<1>4. Tail(t) \in Seq(Characters) /\ Len(Tail(t)) = Len(t) - 1
  BY <1>3, HeadTailProperties
<1>5. Short(Tail(t), n) /\ \A m \in Nat : n + 1 <= m => Short(t, m)
  BY <1>1, <1>3, <1>4 DEF Short
<1> QED
  BY <1>1, <1>2, <1>3, <1>5 DEF t

\* Writing, whatever is owed, keeps the types, ...
LEMMA WriteOK ==
    ASSUME NEW g, LoopOK(g), NEW c \in Characters
    PROVE  LoopOK(Write(g, c))
<1> USE DEF LoopOK, Fields, Switches
<1>1. CASE c \in {Blank, NewLine}
  BY <1>1 DEF Write
<1>2. CASE c \notin {Blank, NewLine}
  <2>1. Short(Wrong, 2)
    <3>1. "a" \in Characters
      BY DEF Characters
    <3>2. Wrong \in Seq(Characters) /\ Len(Wrong) = 2
      BY <3>1 DEF Wrong
    <3> QED
      BY <3>2 DEF Short
  <2> DEFINE last == IF c \in {RightBrace, Less} THEN c ELSE "a"
             owed == IF g.owed # <<>> /\ Head(g.owed) = c THEN Tail(g.owed) ELSE Wrong
  <2>2. Short(owed, 2)
    BY <2>1, ShortIs DEF LoopOK
  <2>3. last \in {"a", RightBrace, Less}
    OBVIOUS
  <2>4. Write(g, c) = [g EXCEPT !.last = last, !.owed = owed]
    BY <1>2 DEF Write
  <2> HIDE DEF last, owed
  <2> QED
    BY <2>2, <2>3, <2>4
<1> QED
  BY <1>1, <1>2

\* ... and so do the changes of the layout, ...
LEMMA LayoutOK ==
    ASSUME NEW g, LoopOK(g)
    PROVE  /\ LoopOK(Indent(g)) /\ LoopOK(Outdent(g)) /\ LoopOK(NextLine(g))
           /\ LoopOK(EmptyLine(g)) /\ LoopOK(FinishToken(g)) /\ LoopOK(FinishLine(g))
           /\ LoopOK(Closed(g))
<1>c. Blank \in Characters /\ NewLine \in Characters
  BY DEF Characters
<1>1. LoopOK(Indent(g))
  BY <1>c, WriteOK DEF Indent
<1>2. \A h : LoopOK(h) => LoopOK(NextLine(h))
  <2> SUFFICES ASSUME NEW h, LoopOK(h)
               PROVE  LoopOK(NextLine(h))
    OBVIOUS
  <2>1. LoopOK(Write(h, NewLine))
    BY <1>c, WriteOK
  <2> HIDE DEF Write
  <2> QED
    BY <2>1 DEF NextLine, LoopOK, Fields, Switches
<1>3. LoopOK(EmptyLine(g))
  BY <1>2 DEF EmptyLine
<1>4. LoopOK(Outdent(g))
  BY DEF Outdent, LoopOK, Fields, Switches
<1>5. LoopOK(FinishToken(g))
  BY DEF FinishToken, LoopOK, Fields, Switches
<1>6. LoopOK(FinishLine(g))
  <2> DEFINE h == FinishToken(g)
  <2>1. FinishLine(g) = [h EXCEPT !.first = Nothing,
                  !.afterImport =
                      IF h.first # Nothing THEN h.nesting = 0 /\ h.first = "i"
                      ELSE @ /\ Held(h) /\ h.openBraceOwnLine]
    BY DEF FinishLine
  <2> HIDE DEF h
  <2>2. LoopOK(h)
    BY <1>5 DEF h
  <2> QED
    BY <2>1, <2>2, ZenonT(60) DEF LoopOK, Fields, Switches
<1>7. LoopOK(Closed(g))
  <2>1. Short(<<>>, MaxMarker)
    BY NoneIsShort
  <2> QED
    BY <2>1 DEF Closed, LoopOK, Fields, Switches
<1> QED
  BY <1>1, <1>2, <1>3, <1>4, <1>5, <1>6, <1>7

\* ... the brace that was held back, ...
LEMMA BraceOK ==
    ASSUME NEW g, LoopOK(g)
    PROVE  LoopOK(WriteBrace(g)) /\ LoopOK(GluedBrace(g))
<1>c. {Blank, NewLine, LeftBrace} \subseteq Characters
  BY DEF Characters
<1>1. LoopOK(WriteBrace(g))
  <2> DEFINE h == [EmptyLine(g) EXCEPT !.openBrace = FALSE]
             line == IF h.last # NewLine THEN NextLine(h) ELSE h
             at == IF h.openBraceOwnLine /\ h.afterImport THEN Indent(line)
                   ELSE IF h.beginningOfLine THEN Indent(h)
                   ELSE IF ~h.openBraceSpace \/ h.last \notin {Blank, NewLine}
                        THEN Write(h, Blank) ELSE h
             end == NextLine(Write(at, LeftBrace))
  <2>1. LoopOK(h)
    <3>1. LoopOK(EmptyLine(g))
      BY LayoutOK
    <3> HIDE DEF EmptyLine
    <3> QED
      BY <3>1 DEF LoopOK, Fields, Switches
  <2>2. WriteBrace(g) = [end EXCEPT
            !.openBraceWritten = TRUE, !.openBraceOwnLine = FALSE, !.newLines = 0,
            !.nesting = IF @ < MaxNesting THEN @ + 1 ELSE @]
    BY DEF WriteBrace
  <2> HIDE DEF h
  <2>3. LoopOK(line)
    BY <2>1, LayoutOK
  <2> HIDE DEF line
  <2>4. LoopOK(at)
    BY <1>c, <2>1, <2>3, LayoutOK, WriteOK
  <2> HIDE DEF at
  <2>5. LoopOK(end)
    BY <1>c, <2>4, LayoutOK, WriteOK
  <2> HIDE DEF end
  <2> QED
    BY <2>2, <2>5 DEF LoopOK, Fields, Switches
<1>2. LoopOK(GluedBrace(g))
  <2>1. LoopOK(Write(g, LeftBrace))
    BY <1>c, WriteOK
  <2> HIDE DEF Write
  <2> QED
    BY <2>1, ZenonT(60) DEF GluedBrace, LoopOK, Fields, Switches
<1> QED
  BY <1>1, <1>2

\* Of a quote and a backtick, what they make of quotes.
LEMMA QuotesOK ==
    ASSUME LoopOK(f), NEW c \in Characters
    PROVE  {Ticked(c), Quoted(c)} \subseteq {"none", "quote", "raw", "rawInQuote"}
BY DEF Ticked, Quoted, LoopOK, Fields, Switches

\* ... a character that has come, be it written at once or after a blank, ...
LEMMA GotOK ==
    ASSUME LoopOK(f), FormatInv, ~lost, NEW c \in Characters
    PROVE  /\ LoopOK(Got(c)) /\ LoopOK(Write(Got(c), c)) /\ LoopOK(Write(Write(Got(c), Blank), c))
           /\ Got(c).marker = f.marker /\ Write(Got(c), c).marker = f.marker
           /\ Write(Got(c), c).closing = f.closing
<1>1. Short(f.owed, 1)
  <2>1. LeftBrace \in Characters
    BY DEF Characters
  <2>2. <<LeftBrace>> \in Seq(Characters) /\ Len(<<LeftBrace>>) = 1
    BY <2>1
  <2>3. Short(<<LeftBrace>>, 1)
    BY <2>2 DEF Short
  <2>4. Short(<<>>, 1)
    BY NoneIsShort
  <2> QED
    BY <2>3, <2>4 DEF FormatInv
<1>2. Short(Append(f.owed, c), 2)
  <2>1. 1 \in Nat /\ 2 \in Nat /\ 1 + 1 <= 2
    OBVIOUS
  <2>2. \A m \in Nat : 1 + 1 <= m => Short(Append(f.owed, c), m)
    BY <1>1, <2>1, ShortIs
  <2> QED
    BY <2>1, <2>2
<1>3. SpacePrior \in BOOLEAN
  BY DEF SpacePrior
<1>4. LoopOK(Got(c)) /\ Got(c).marker = f.marker /\ Got(c).closing = f.closing
  <2> DEFINE owed == IF c \in {Blank, NewLine} THEN f.owed ELSE Append(f.owed, c)
  <2>1. Short(owed, 2)
    BY <1>2 DEF LoopOK
  <2>2. Got(c) = [f EXCEPT !.owed = owed, !.space = SpacePrior]
    BY DEF Got
  <2> HIDE DEF owed
  <2> QED
    BY <1>3, <2>1, <2>2 DEF LoopOK, Fields, Switches
<1> HIDE DEF Got
<1>5. Blank \in Characters
  BY DEF Characters
<1>6. /\ Fields \subseteq DOMAIN Got(c)
      /\ LoopOK(Write(Got(c), c)) /\ LoopOK(Write(Write(Got(c), Blank), c))
  BY <1>4, <1>5, WriteOK DEF LoopOK
<1>7. \A g : Fields \subseteq DOMAIN g =>
          Write(g, c).marker = g.marker /\ Write(g, c).closing = g.closing
  BY DEF Write, Fields
<1> QED
  BY <1>4, <1>6, <1>7

\* ... or looked at after the brace.
LEMMA SeenOK ==
    ASSUME LoopOK(f), FormatInv, ~lost, NEW c \in Characters
    PROVE  LoopOK(Seen(c))
<1> DEFINE g == [Got(c) EXCEPT !.space = FALSE, !.quotes = Quoted(c), !.comment = (c = "#")]
<1>1. LoopOK(g)
  <2>1. LoopOK(Got(c)) /\ Quoted(c) \in {"none", "quote", "raw", "rawInQuote"}
    BY GotOK, QuotesOK
  <2> HIDE DEF Got, Quoted
  <2> QED
    BY <2>1 DEF LoopOK, Fields, Switches
<1>2. Seen(c) = Flushed(g, SpacePrior)
  BY DEF Seen
<1> HIDE DEF g
<1> QED
  BY <1>1, <1>2, BraceOK DEF Flushed

\* Each way through the loop: what it makes of f.
LEMMA FormatTypes ==
    ASSUME LoopOK(f), lost \in BOOLEAN, FormatInv, [FormatNext]_formatVars
    PROVE  LoopOK(f') /\ lost' \in BOOLEAN
<1> DEFINE got(c) == Got(c)
           put(c) == Write(Got(c), c)
           apart(c) == Write(Write(Got(c), Blank), c)
<1> USE DEF LoopOK, Fields, Switches
<1>g. ASSUME NEW c \in Characters, ~lost
      PROVE  /\ LoopOK(got(c)) /\ LoopOK(put(c)) /\ LoopOK(apart(c))
             /\ got(c).marker = f.marker /\ put(c).marker = f.marker
             /\ put(c).closing = f.closing
  <2> HIDE DEF LoopOK
  <2> QED
    BY <1>g, GotOK
<1>l. ASSUME NEW c \in Characters, NEW looks, Reads(c, looks)
      PROVE  ~lost /\ lost' \in BOOLEAN
  BY <1>l DEF Reads
<1>1. ASSUME NEW c \in Characters, ReadComment(c)
      PROVE  LoopOK(f') /\ lost' \in BOOLEAN
  <2>1. ~lost /\ lost' \in BOOLEAN
    BY <1>1, <1>l DEF ReadComment
  <2>2. LoopOK(NextLine(f)) /\ LoopOK(put(c))
    <3> HIDE DEF LoopOK
    <3> QED
      BY <1>g, <2>1, LayoutOK
  <2>3. \/ f' = [NextLine(f) EXCEPT !.comment = FALSE, !.space = TRUE]
        \/ f' = put(c)
    BY <1>1 DEF ReadComment
  <2> HIDE DEF put, NextLine
  <2> QED
    BY <2>1, <2>2, <2>3, ZenonT(60)
<1>2. ASSUME NEW c \in Characters, ReadBackslash(c) \/ ReadEscaped(c)
      PROVE  LoopOK(f') /\ lost' \in BOOLEAN
  <2>1. ~lost /\ lost' \in BOOLEAN
    BY <1>2, <1>l DEF ReadBackslash, ReadEscaped
  <2>2. LoopOK(put(c)) /\ LoopOK(apart(c))
    BY <1>g, <2>1
  <2>3. \E h \in {put(c), apart(c)} :
           \/ f' = [h EXCEPT !.space = FALSE, !.escaped = TRUE]
           \/ f' = [h EXCEPT !.escaped = FALSE, !.heredocEscaped = @ \/ c = Less]
    <3> HIDE DEF LoopOK
    <3> QED
      BY <1>2 DEF ReadBackslash, ReadEscaped
  <2> HIDE DEF put, apart
  <2>4. PICK h \in {put(c), apart(c)} :
           \/ f' = [h EXCEPT !.space = FALSE, !.escaped = TRUE]
           \/ f' = [h EXCEPT !.escaped = FALSE, !.heredocEscaped = @ \/ c = Less]
    BY <2>3
  <2>5. LoopOK(h)
    BY <2>2, <2>4
  <2>6. CASE f' = [h EXCEPT !.space = FALSE, !.escaped = TRUE]
    BY <2>1, <2>5, <2>6
  <2>7. CASE f' = [h EXCEPT !.escaped = FALSE, !.heredocEscaped = @ \/ c = Less]
    BY <2>1, <2>5, <2>7
  <2> QED
    BY <2>4, <2>6, <2>7
<1>3. ASSUME NEW c \in Characters, ReadQuoted(c) \/ ReadHeredoc(c)
      PROVE  LoopOK(f') /\ lost' \in BOOLEAN
  <2>1. ~lost /\ lost' \in BOOLEAN
    BY <1>3, <1>l DEF ReadQuoted, ReadHeredoc
  <2>2. LoopOK(put(c))
    BY <1>g, <2>1
  <2>3. \/ f' = [put(c) EXCEPT !.quotes = IF c = Quote THEN "none" ELSE "quote"]
        \/ f' = [put(c) EXCEPT !.heredoc = "opening", !.space = FALSE]
    BY <1>3 DEF ReadQuoted, ReadHeredoc
  <2> HIDE DEF put
  <2> QED
    BY <2>1, <2>2, <2>3, ZenonT(60)
<1>4. ASSUME NEW c \in Characters, ReadMarker(c)
      PROVE  LoopOK(f') /\ lost' \in BOOLEAN
  <2>1. ~lost /\ lost' \in BOOLEAN /\ Len(f.marker) < MaxMarker
    BY <1>4, <1>l DEF ReadMarker
  <2>2. LoopOK(put(c)) /\ put(c).marker = f.marker
    BY <1>g, <2>1
  <2>3. f' = [put(c) EXCEPT !.marker = Append(@, c)]
    BY <1>4 DEF ReadMarker
  <2>4. Short(Append(f.marker, c), MaxMarker)
    <3>1. PICK n \in Nat : n = MaxMarker - 1
      BY <2>1 DEF Short
    <3>2. Short(f.marker, n)
      BY <2>1, <3>1 DEF Short
    <3>3. \A m \in Nat : n + 1 <= m => Short(Append(f.marker, c), m)
      BY <3>2, ShortIs
    <3> QED
      BY <3>1, <3>3
  <2> HIDE DEF put
  <2> QED
    BY <2>1, <2>2, <2>3, <2>4
<1>5. ASSUME NEW c \in Characters, MarkerEnds(c)
      PROVE  LoopOK(f') /\ lost' \in BOOLEAN
  <2>1. ~lost /\ lost' \in BOOLEAN
    BY <1>5, <1>l DEF MarkerEnds
  <2>2. LoopOK(put(c)) /\ LoopOK(got(c))
    BY <1>g, <2>1
  <2>3. f' = [put(c) EXCEPT !.heredoc = "opened"] \/ f' = NextLine(Closed(got(c)))
    BY <1>5 DEF MarkerEnds
  <2>4. LoopOK(NextLine(Closed(got(c))))
    <3> HIDE DEF got, LoopOK
    <3>1. LoopOK(Closed(got(c)))
      BY <2>2, LayoutOK
    <3> QED
      BY <3>1, LayoutOK
  <2> HIDE DEF put
  <2> QED
    BY <2>1, <2>2, <2>3, <2>4
<1>6. ASSUME NEW c \in Characters, ReadBody(c)
      PROVE  LoopOK(f') /\ lost' \in BOOLEAN
  <2> DEFINE window == Append(f.closing, c)
             closing == IF c = NewLine THEN <<>>
                        ELSE IF Len(window) > Len(f.marker) THEN Tail(window) ELSE window
  <2>1. ~lost /\ lost' \in BOOLEAN
    BY <1>6, <1>l DEF ReadBody
  <2>2. LoopOK(put(c))
    BY <1>g, <2>1
  <2>3. f' = [put(c) EXCEPT !.closing = closing]
    BY <1>6 DEF ReadBody
  <2>4. Short(closing, MaxMarker)
    <3>1. Short(<<>>, MaxMarker) /\ Short(Tail(window), MaxMarker)
      BY NoneIsShort, ShortIs
    <3>2. Len(window) <= Len(f.marker) => Short(window, MaxMarker)
      <4>1. window \in Seq(Characters) /\ Len(f.marker) <= MaxMarker /\ Len(f.marker) \in Nat
        BY AppendProperties DEF Short
      <4> HIDE DEF window
      <4>2. Len(window) \in Nat
        BY <4>1
      <4> QED
        BY <4>1, <4>2 DEF Short
    <3>3. Len(window) \in Nat /\ Len(f.marker) \in Nat
      BY AppendProperties DEF Short
    <3> HIDE DEF window
    <3> QED
      BY <3>1, <3>2, <3>3
  <2> HIDE DEF put, closing
  <2> QED
    BY <2>1, <2>2, <2>3, <2>4
<1>7. ASSUME NEW c \in Characters, ReadRaw(c)
      PROVE  LoopOK(f') /\ lost' \in BOOLEAN
  <2>1. ~lost /\ lost' \in BOOLEAN
    BY <1>7, <1>l DEF ReadRaw
  <2>2. LoopOK(put(c)) /\ LoopOK(apart(c))
    BY <1>g, <2>1
  <2>3. \E h \in {put(c), apart(c)} : f' = [h EXCEPT !.space = FALSE, !.quotes = Quoted(c)]
    BY <1>7 DEF ReadRaw
  <2>4. Quoted(c) \in {"none", "quote", "raw", "rawInQuote"}
    BY QuotesOK
  <2> HIDE DEF put, apart, Quoted
  <2> QED
    BY <2>1, <2>2, <2>3, <2>4
<1>8. ASSUME NEW c \in Characters, ReadBlank(c)
      PROVE  LoopOK(f') /\ lost' \in BOOLEAN
  <2> DEFINE h == FinishToken(Closed(f))
             g == [h EXCEPT !.space = TRUE, !.heredocEscaped = FALSE]
             line == FinishLine(g)
  <2>1. ~lost /\ lost' \in BOOLEAN
    BY <1>8, <1>l DEF ReadBlank
  <2>2. LoopOK(h)
    <3> HIDE DEF LoopOK
    <3>1. LoopOK(Closed(f))
      BY LayoutOK
    <3> QED
      BY <3>1, LayoutOK
  <2>3. f' = g \/ f' = [line EXCEPT !.newLines = IF @ < 3 THEN @ + 1 ELSE @]
    BY <1>8 DEF ReadBlank
  <2> HIDE DEF h
  <2>4. LoopOK(g)
    BY <2>2
  <2> HIDE DEF g
  <2>5. LoopOK(line)
    <3> HIDE DEF LoopOK
    <3> QED
      BY <2>4, LayoutOK
  <2> HIDE DEF line
  <2> QED
    BY <2>1, <2>3, <2>4, <2>5
<1>9. ASSUME NEW c \in Characters, ReadOpening(c)
      PROVE  LoopOK(f') /\ lost' \in BOOLEAN
  <2> DEFINE g == FinishToken(Seen(c))
             apartNow == SpacePrior /\ ~g.beginningOfLine
             h == IF apartNow /\ g.newLines = 0 THEN Write(g, Blank) ELSE g
  <2>1. ~lost /\ lost' \in BOOLEAN
    BY <1>9, <1>l DEF ReadOpening
  <2>2. f' = [h EXCEPT !.openBrace = TRUE, !.openBraceSpace = apartNow,
                       !.openBraceOwnLine = g.newLines > 0, !.openBraceWritten = FALSE]
    BY <1>9 DEF ReadOpening
  <2>3. LoopOK(g)
    <3> HIDE DEF LoopOK
    <3>1. LoopOK(Seen(c))
      BY <2>1, SeenOK
    <3> QED
      BY <3>1, LayoutOK
  <2> HIDE DEF g
  <2>4. LoopOK(h)
    <3>1. Blank \in Characters
      BY DEF Characters
    <3> HIDE DEF LoopOK
    <3> QED
      BY <2>3, <3>1, WriteOK
  <2>5. apartNow \in BOOLEAN /\ (g.newLines > 0) \in BOOLEAN
    BY <2>3
  <2> HIDE DEF h, apartNow
  <2> QED
    BY <2>1, <2>2, <2>4, <2>5
<1>10. ASSUME NEW c \in Characters, ReadClosing(c)
      PROVE  LoopOK(f') /\ lost' \in BOOLEAN
  <2> DEFINE g == FinishToken(Seen(c))
             line == IF g.last # NewLine THEN NextLine(g) ELSE g
             h == Write(Indent(Outdent(line)), c)
  <2>1. ~lost /\ lost' \in BOOLEAN
    BY <1>10, <1>l DEF ReadClosing
  <2>2. f' = [h EXCEPT !.newLines = 0]
    BY <1>10 DEF ReadClosing
  <2>3. LoopOK(h)
    <3> HIDE DEF LoopOK
    <3>1. LoopOK(Seen(c))
      BY <2>1, SeenOK
    <3>2. LoopOK(g)
      BY <3>1, LayoutOK
    <3> HIDE DEF g
    <3>3. LoopOK(line)
      BY <3>2, LayoutOK
    <3> HIDE DEF line
    <3>4. LoopOK(Outdent(line))
      BY <3>3, LayoutOK
    <3>5. LoopOK(Indent(Outdent(line)))
      BY <3>4, LayoutOK
    <3> QED
      BY <3>5, WriteOK
  <2> HIDE DEF h
  <2> QED
    BY <2>1, <2>2, <2>3
<1>11. ASSUME NEW c \in Characters, ReadText(c)
      PROVE  LoopOK(f') /\ lost' \in BOOLEAN
  <2> DEFINE g == Seen(c)
             lines == IF g.newLines = 0 THEN g ELSE NextLine(g)
             line == IF lines.beginningOfLine THEN EmptyLine(Indent(lines)) ELSE lines
             place == IF ~line.beginningOfLine /\ SpacePrior THEN Write(line, Blank) ELSE line
             h == Write(GluedBrace(place), c)
             token == IF g.token = Nothing /\ c = "i" THEN c ELSE "a"
             space == SpacePrior /\ c = Less
  <2>1. ~lost /\ lost' \in BOOLEAN
    BY <1>11, <1>l DEF ReadText
  <2>2. f' = [h EXCEPT !.newLines = 0, !.beginningOfLine = FALSE, !.token = token,
                       !.space = space]
    BY <1>11 DEF ReadText
  <2>3. LoopOK(h)
    <3> HIDE DEF LoopOK
    <3>b. Blank \in Characters
      BY DEF Characters
    <3>1. LoopOK(g)
      BY <2>1, SeenOK
    <3> HIDE DEF g
    <3>2. LoopOK(lines)
      BY <3>1, LayoutOK
    <3> HIDE DEF lines
    <3>3. LoopOK(line)
      <4>1. LoopOK(Indent(lines))
        BY <3>2, LayoutOK
      <4> QED
        BY <3>2, <4>1, LayoutOK
    <3> HIDE DEF line
    <3>4. LoopOK(place)
      BY <3>b, <3>3, WriteOK
    <3> HIDE DEF place
    <3>5. LoopOK(GluedBrace(place))
      BY <3>4, BraceOK
    <3> QED
      BY <3>5, WriteOK
  <2>4. token \in {"a", "i"} /\ space \in BOOLEAN
    OBVIOUS
  <2> HIDE DEF h, token, space
  <2> QED
    BY <2>1, <2>2, <2>3, <2>4
<1>12. CASE UNCHANGED formatVars
  BY <1>12 DEF formatVars
<1> QED
  BY <1>1, <1>2, <1>3, <1>4, <1>5, <1>6, <1>7, <1>8, <1>9, <1>10, <1>11, <1>12
     DEF FormatNext

LEMMA FormatTypesHold == LoopOK(f) /\ lost \in BOOLEAN => FormatTypeOK
<1> SUFFICES ASSUME LoopOK(f), lost \in BOOLEAN
             PROVE  FormatTypeOK
  OBVIOUS
<1>1. Blank \in Characters /\ 2 \in Nat
  BY DEF Characters
<1>2. {Len(f.marker), Len(f.closing)} \subseteq 0..MaxMarker /\ Len(f.owed) <= 2
  <2>1. Len(f.marker) \in 0..MaxMarker /\ Len(f.closing) \in 0..MaxMarker
    BY <1>1, ShortIs DEF LoopOK
  <2>2. Len(f.owed) \in 0..2
    BY <1>1, ShortIs DEF LoopOK
  <2>3. \A n \in 0..2 : n <= 2
    OBVIOUS
  <2>4. Len(f.owed) <= 2
    BY <2>2, <2>3
  <2> QED
    BY <2>1, <2>4
<1> QED
  BY <1>2 DEF FormatTypeOK, LoopOK, Fields, Switches

LEMMA FormatTypesStart == FormatInit => LoopOK(f) /\ lost \in BOOLEAN
<1>1. Short(<<>>, MaxMarker) /\ Short(<<>>, 2)
  BY NoneIsShort
<1> SUFFICES ASSUME FormatInit
             PROVE  LoopOK(f) /\ lost \in BOOLEAN
  OBVIOUS
<1>2. /\ Fields \subseteq DOMAIN f /\ \A x \in Switches : f[x] \in BOOLEAN
  BY DEF FormatInit, Fields, Switches
<1>3. /\ lost = FALSE /\ f.last = Nothing /\ f.heredoc = "closed" /\ f.marker = <<>>
      /\ f.closing = <<>> /\ f.quotes = "none" /\ f.newLines = 0 /\ f.nesting = 0
      /\ f.token = Nothing /\ f.first = Nothing /\ f.owed = <<>>
  BY DEF FormatInit
<1>4. Short(f.marker, MaxMarker) /\ Short(f.closing, MaxMarker) /\ Short(f.owed, 2)
  BY <1>1, <1>3, Zenon
<1>5. f.newLines \in 0..3 /\ f.nesting \in 0..MaxNesting
  BY <1>3
<1> HIDE DEF FormatInit
<1> QED
  BY <1>2, <1>3, <1>4, <1>5 DEF LoopOK

-----------------------------------------------------------------------------
(* Theorems. *)

LEMMA InvInit ==
    ASSUME WebInit
    PROVE  ConfigInv /\ SessionInv /\ WizardInv /\ DiffInv /\ WordInv /\ FormatInv
<1> USE DEF WebInit
<1>1. ConfigInv
  BY DEF ConfigInit, PollInit, ConfigInv, BaseWasShown, Submitted
<1>2. SessionInv
  <2>1. /\ given = 0 /\ spent = {} /\ captchaId = None /\ code = None /\ login = None
        /\ fetching = {"user"} /\ session = FALSE /\ user = FALSE /\ missed = "nothing"
    BY DEF SessionInit
  <2>2. {session, user} \subseteq BOOLEAN /\ missed \in Misses /\ UserMatchesSession
    BY <2>1 DEF UserMatchesSession, Misses
  <2>3. given \in 0..MaxCaptchas /\ "submit" \notin fetching
    BY <2>1
  <2> QED
    BY <2>1, <2>2, <2>3 DEF SessionInv
<1>3. WizardInv
  BY DEF WizardInit, WizardInv, EmptyForm, IsForm, SavedHostWasVerified
<1>4. DiffInv
  BY DiffStarts
<1>5. WordInv
  BY WordsStart
<1>6. FormatInv
  BY DEF FormatInit, FormatInv, IsLoop, Kept, Held
<1> QED
  BY <1>1, <1>2, <1>3, <1>4, <1>5, <1>6

\* The types of all parts, beside those that the invariants tell.
TypesInv == /\ ConfigTypeOK /\ SessionTypeOK /\ WizardRest
            /\ LoopOK(f) /\ lost \in BOOLEAN

LEMMA TypesStart ==
    ASSUME WebInit
    PROVE  TypesInv
<1> USE DEF WebInit
<1>0. ConfigInv /\ SessionInv
  BY InvInit
<1>1. ConfigTypeOK
  <2>1. timer = None /\ latest = None /\ edits = 0 /\ busy = None /\ checks = {}
    BY DEF ConfigInit, PollInit
  <2>2. confirming = FALSE /\ conflict = FALSE /\ succeeded = {} /\ readers = {}
    BY DEF ConfigInit
  <2> HIDE DEF WebInit
  <2>3. ConfigRest
    <3>1. {confirming, conflict} \subseteq BOOLEAN
      BY <2>2
    <3>2. {timer, latest} \subseteq Submissions \cup {None} /\ edits \in 0..MaxEdits
      BY <2>1
    <3> QED
      BY <2>1, <2>2, <3>1, <3>2 DEF ConfigRest
  <2> QED
    BY <1>0, <2>3 DEF ConfigRest, ConfigTypeOK, PollTypeOK, ConfigInv
<1>2. SessionTypeOK
  <2>1. /\ live = [id \in Ids |-> None] /\ issued = [n \in 1..MaxPerMinute |-> None] /\ given = 0
        /\ session = FALSE /\ user = FALSE /\ calls = {} /\ missed = "nothing"
        /\ page = "login" /\ captchaId = None /\ captchaLoading = TRUE /\ code = None
        /\ fetching = {"user"} /\ login = None /\ spent = {}
    BY DEF SessionInit
  <2> HIDE DEF WebInit
  <2>2. live \in [Ids -> (0..CaptchaTtl) \cup {None}] /\ issued \in Issues
    BY <2>1 DEF Issues
  <2>3. SessionRest
    BY <2>1 DEF SessionRest
  <2> QED
    BY <1>0, <2>2, <2>3 DEF SessionTypeOK, SessionInv, SessionRest, Ids
<1>3. WizardRest
  BY DEF WizardInit, WizardRest, EmptyForm, Candidate
<1> QED
  BY <1>1, <1>2, <1>3, FormatTypesStart DEF TypesInv

LEMMA WordTypesHold == WordInv => WordTypeOK
<1> SUFFICES ASSUME WordInv
             PROVE  WordTypeOK
  OBVIOUS
<1>1. ASSUME NEW T, NEW s \in Seq(T)
      PROVE  Range(s) \subseteq T
  <2>1. \A i \in DOMAIN s : s[i] \in T
    OBVIOUS
  <2> QED
    BY <2>1 DEF Range
<1>2. Range(argv) \subseteq Words /\ Range(unread) \subseteq Chars /\ Range(value) \subseteq Chars
  BY <1>1 DEF WordInv
<1>3. \A i \in DOMAIN words : words[i] # <<>>
  <2>1. words \in Seq(Seq(Chars) \ {<<>>})
    BY DEF WordInv
  <2> QED
    BY <2>1
<1> QED
  BY <1>2, <1>3 DEF WordInv, WordTypeOK, Styles

\* Every reachable state satisfies the invariants of the parts, the properties
\* of the pages among them.
THEOREM Inductive ==
    WebSpec => [](ConfigInv /\ SessionInv /\ WizardInv /\ DiffInv /\ WordInv /\ FormatInv)
<1> DEFINE I == ConfigInv /\ SessionInv /\ WizardInv /\ DiffInv /\ WordInv /\ FormatInv
<1>1. WebInit => I
  BY InvInit
<1>2. I /\ [WebNext]_webVars => I'
  BY Parts, ConfigKeeps, SessionKeeps, WizardKeeps, DiffKeeps, WordsKeep, FormatKeeps
<1> QED
  BY <1>1, <1>2, PTL DEF WebSpec

\* All variables of all parts have their types: so no counter passes its bound,
\* no more is owed than two characters, and what is shown is what was found.
THEOREM TypeCorrect == WebSpec => []TypeOK
<1> DEFINE I == ConfigInv /\ SessionInv /\ WizardInv /\ DiffInv /\ WordInv /\ FormatInv
<1>1. WebInit => TypesInv
  BY TypesStart
<1>2. ASSUME I, I', TypesInv, [WebNext]_webVars
      PROVE  TypesInv'
  <2>1. /\ [ConfigNext]_configVars /\ [SessionNext]_sessionVars
        /\ [WizardNext]_wizardVars /\ [FormatNext]_formatVars
    BY <1>2, Parts
  <2>2. ConfigTypeOK'
    BY <1>2, <2>1, ConfigTypes DEF TypesInv
  <2>3. SessionTypeOK'
    BY <1>2, <2>1, SessionTypes DEF TypesInv
  <2>4. WizardRest'
    BY <1>2, <2>1, WizardTypes DEF TypesInv
  <2>5. LoopOK(f)' /\ (lost \in BOOLEAN)'
    BY <1>2, <2>1, FormatTypes DEF TypesInv
  <2> QED
    BY <2>2, <2>3, <2>4, <2>5 DEF TypesInv
<1>3. I /\ TypesInv => TypeOK
  BY WizardTypesHold, WordTypesHold, FormatTypesHold DEF TypesInv, TypeOK, DiffInv
<1>4. WebSpec => []I
  BY Inductive
<1> HIDE DEF I
<1> QED
  BY <1>1, <1>2, <1>3, <1>4, PTL DEF WebSpec

\* The base of an apply or a restore is what the page showed as the remote
\* version, unless it was read again after a failure, for any number of handlers
\* and readers that overlap.
THEOREM BaseIsShown == WebSpec => []BaseWasShown
<1>1. ConfigInv => BaseWasShown
  BY DEF ConfigInv
<1> QED
  BY <1>1, Inductive, PTL

\* The application shows a session that is over only when it ended by itself, when
\* the answer to a change of the password was lost, or when that to a change of name
\* came late, and denies one that lives only when the answer to a login was lost or
\* a sign-out failed.
THEOREM UserIsRight == WebSpec => []UserMatchesSession
<1>1. SessionInv => UserMatchesSession
  BY DEF SessionInv
<1> QED
  BY <1>1, Inductive, PTL

\* submit sends a captcha once, and with the code that was read from it, however
\* many captchas there are.
THEOREM CaptchaIsFresh == WebSpec => FreshCaptchaSent
<1>1. ASSUME SessionInv, [SessionNext]_sessionVars
      PROVE  [login = None /\ login' # None
                => login'.id \notin spent /\ code = login'.id]_sessionVars
  <2> SUFFICES ASSUME SessionNext, login = None, login' # None
               PROVE  login'.id \notin spent /\ code = login'.id
    BY <1>1
  <2>1. CASE Submit
    <3>1. captchaId # None /\ code # None /\ login' = [id |-> captchaId, at |-> "answer"]
      BY <2>1 DEF Submit
    <3> QED
      BY <1>1, <3>1 DEF SessionInv, Answering
  <2>2. CASE ~Submit
    <3>1. ASSUME NEW who \in fetching, CaptchaComes(who) \/ CaptchaFails(who)
          PROVE  FALSE
      BY <3>1 DEF CaptchaComes, CaptchaFails, Fetched
    <3>2. ~LoggedIn /\ ~LoginLimited /\ \A made \in BOOLEAN : ~LoginFails(made)
      BY DEF LoggedIn, LoginLimited, LoginFails, Answering
    <3>3. \A to \in {"login", "app"} : ~Navigate(to)
      BY DEF Navigate, Land, NoForm, NewForm, formVars
    <3>4. \A answered \in BOOLEAN : ~Reload(answered)
      BY DEF Reload, NoForm, NewForm
    <3>5. \A what \in {"signOut", "signOff"} : ~SignedOut(what)
      BY DEF SignedOut, Land, NoForm, NewForm, formVars
    <3>6. UNCHANGED login
      BY <2>2, <3>1, <3>2, <3>3, <3>4, <3>5
         DEF SessionNext, CaptchasGrowOld, TypeCode, AskCaptcha, PasswordFails,
             SessionEnds, PasswordChanged, NameChanged, Renamed, RenameFails,
             SignOut, UpdateAccount, UpdatePassword, Call, SignOutFails, formVars
    <3> QED
      BY <3>6
  <2> QED
    BY <2>1, <2>2
<1>2. ASSUME SessionInv, [WebNext]_webVars
      PROVE  [login = None /\ login' # None
                => login'.id \notin spent /\ code = login'.id]_sessionVars
  BY <1>1, <1>2, Parts
<1> QED
  BY <1>2, Inductive, PTL DEF WebSpec, FreshCaptchaSent

\* A server is saved with the key under which its host was searched, and with a
\* form that began with a candidate of that search.
THEOREM HostIsVerified == WebSpec => []SavedHostWasVerified
<1>1. WizardInv => SavedHostWasVerified
  BY DEF WizardInv
<1> QED
  BY <1>1, Inductive, PTL

\* A comparison shows both texts whole, each line with its number, and the table
\* leaves out no lines in common, however long the texts are.
THEOREM TextsAreShown == WebSpec => []DiffShowsBothTexts
<1>1. DiffInv => DiffShowsBothTexts
  BY DEF DiffInv
<1> QED
  BY <1>1, Inductive, PTL

\* A command line is read as the words that were quoted, but for empty ones,
\* however many they are, however long, and in whichever style each is quoted.
THEOREM WordsAreRead == WebSpec => []QuotedWordsAreRead
<1>1. WordInv => QuotedWordsAreRead
  BY DEF WordInv
<1> QED
  BY <1>1, Inductive, PTL

\* The formatter writes what it has read but for blanks, however long and deeply
\* nested the text is.
THEOREM TextIsKept == WebSpec => []FormatKeepsText
<1>1. FormatInv => FormatKeepsText
  BY DEF FormatInv, FormatKeepsText
<1> QED
  BY <1>1, Inductive, PTL
=============================================================================
