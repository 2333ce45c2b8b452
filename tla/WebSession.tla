----------------------------- MODULE WebSession -----------------------------
(***************************************************************************)
(* Signing in and out in a browser: the sign-in page (login.vue) with its  *)
(* captchas, which LoginProtectionService issues; what the application     *)
(* remembers of the session (useAuth, auth.global.ts); the sign-out button *)
(* of the layout and the forms for name and password (account.vue).  The   *)
(* API is what the browser can tell of it: AuthSessions has the rest.  Any *)
(* page that needs a session is "app".                                     *)
(***************************************************************************)
EXTENDS LoginProtection

CONSTANTS MaxCaptchas \* bound: captchas issued

ASSUME SessionConstants == MaxCaptchas \in Nat /\ None \notin 0..MaxCaptchas

Ids == 1..MaxCaptchas

VARIABLES
    \* the API
    live, issued, \* captchas and their issues, as in LoginProtection
    given,        \* how many captchas were issued
    session,      \* the browser's cookie names a session
    \* useAuth and the router; `initialized' is true whenever a page is shown
    page,         \* "login", "app" or "error"
    user,         \* whether user.value is set
    calls,        \* calls of sign-out and of the account page under way
    missed,       \* why user and session differ, where they do (history)
    \* login.vue
    captchaId, captchaLoading,
    code,         \* the captcha that the user read the code from; Unread, None
    fetching,     \* calls of refreshCaptcha under way, by who made them
    login,        \* the captcha that submit sent and what it waits for, or None
    spent         \* captchas sent so far (history)

formVars == <<captchaId, captchaLoading, code, fetching, login>>
sessionVars == <<live, issued, given, session, page, user, calls, missed, formVars, spent>>

Unread == 0 \* typed while no picture was shown

\* Calls of the account page: updatePassword, and its logout; updateAccount, and
\* its answer.
Forms == {"password", "signOff", "name", "named"}

Login == [id : Ids, at : {"answer", "captcha"}]

\* What makes `user' and the session differ: the session ended and nothing told this
\* browser, or a rename was answered after it had ended; the answer to a login was
\* lost; a sign-out failed, which forgets `user' and leaves the session.
Misses == {"nothing", "ended", "renamed", "begun", "kept"}

ASSUME NoLogin == None \notin Login

SessionTypeOK ==
    /\ live \in [Ids -> (0..CaptchaTtl) \cup {None}]
    /\ issued \in Issues /\ given \in 0..MaxCaptchas
    /\ page \in {"login", "app", "error"}
    /\ {session, user, captchaLoading} \subseteq BOOLEAN /\ missed \in Misses
    /\ calls \subseteq Forms \cup {"signOut"}
    /\ captchaId \in Ids \cup {None} /\ code \in Ids \cup {Unread, None}
    /\ fetching \subseteq {"user", "submit"}
    /\ login \in Login \cup {None}
    /\ spent \subseteq Ids

\* The form of a page that is not shown, and of one that is: onMounted.
NoForm == /\ captchaId' = None /\ captchaLoading' = FALSE /\ code' = None
          /\ fetching' = {} /\ login' = None
NewForm == /\ captchaId' = None /\ captchaLoading' = TRUE /\ code' = None
           /\ fetching' = {"user"} /\ login' = None

\* Where the middleware lets somebody go, and the form there.
Land(to, known) ==
    /\ page' = IF to = "login" /\ known THEN "app"
               ELSE IF to = "app" /\ ~known THEN "login" ELSE to
    /\ IF page' # "login" THEN NoForm
       ELSE IF page = "login" THEN UNCHANGED formVars ELSE NewForm

\* The sign-in page of a browser without a session.
SessionInit ==
    /\ live = [id \in Ids |-> None] /\ issued = [n \in 1..MaxPerMinute |-> None]
    /\ given = 0
    /\ session = FALSE /\ user = FALSE /\ calls = {} /\ missed = "nothing"
    /\ page = "login"
    /\ captchaId = None /\ captchaLoading = TRUE /\ code = None
    /\ fetching = {"user"}
    /\ login = None /\ spent = {}

apiVars == <<live, issued, given>>

\* What becomes of `user' and of the session, and why they differ then.
Become(known, there, why) ==
    /\ user' = known /\ session' = there
    /\ missed' = IF known = there THEN "nothing" ELSE why

\* Time passes at the API.
CaptchasGrowOld ==
    /\ live' = CaptchasAge(live) /\ issued' = IssuesAge(issued)
    /\ UNCHANGED <<given, session, page, user, calls, missed, formVars, spent>>

-----------------------------------------------------------------------------
(* The sign-in page. *)

\* Typing, while a request is under way as well.
TypeCode ==
    /\ page = "login"
    /\ code' = IF captchaId = None THEN Unread ELSE captchaId
    /\ UNCHANGED <<apiVars, session, page, user, calls, missed, captchaId,
                   captchaLoading, fetching, login, spent>>

\* refreshCaptcha, up to its request.
Refresh(who) ==
    /\ captchaId' = None /\ captchaLoading' = TRUE
    /\ fetching' = fetching \cup {who}

\* The button; bound: one of its calls under way.
AskCaptcha ==
    /\ page = "login" /\ ~captchaLoading /\ "user" \notin fetching
    /\ Refresh("user")
    /\ UNCHANGED <<apiVars, session, page, user, calls, missed, code, login, spent>>

\* The rest of it; submit waits for the one that it asked for.
Fetched(who) ==
    /\ who \in fetching
    /\ fetching' = fetching \ {who} /\ captchaLoading' = FALSE
    /\ login' = IF who = "submit" THEN None ELSE login
    /\ UNCHANGED <<session, page, user, calls, missed, spent>>

\* Wrong variant of CaptchaComes: what was typed stays.
BugCaptchaComes(who) ==
    /\ Fetched(who)
    /\ MayIssue(issued) /\ given < MaxCaptchas
    /\ given' = given + 1 /\ captchaId' = given'
    /\ live' = Issue(live, given') /\ issued' = IssueNoted(issued)
    /\ UNCHANGED code

\* A captcha comes, ...
CaptchaComes(who) ==
    /\ Fetched(who)
    /\ MayIssue(issued) /\ given < MaxCaptchas
    /\ given' = given + 1 /\ captchaId' = given'
    /\ live' = Issue(live, given') /\ issued' = IssueNoted(issued)
    /\ code' = None

\* ... or an error: there were too many, or the request is lost.
CaptchaFails(who) ==
    /\ Fetched(who)
    /\ UNCHANGED <<apiVars, captchaId, code>>

\* submit, up to its request.
Submit ==
    /\ page = "login" /\ login = None
    /\ code # None /\ captchaId # None
    /\ login' = [id |-> captchaId, at |-> "answer"]
    /\ spent' = spent \cup {captchaId}
    /\ UNCHANGED <<apiVars, session, page, user, calls, missed, captchaId,
                   captchaLoading, code, fetching>>

Answering == login # None /\ login.at = "answer"

\* It is right: the session is new, and submit goes to the application.
LoggedIn ==
    /\ Answering /\ Usable(live, login.id)
    /\ live' = Consume(live, login.id)
    /\ Become(TRUE, TRUE, missed)
    /\ page' = "app" /\ NoForm
    /\ UNCHANGED <<issued, given, calls, spent>>

\* LOGIN_RATE_LIMITED comes before the captcha is looked at.
LoginLimited ==
    /\ Answering
    /\ captchaId' = None /\ login' = None
    /\ UNCHANGED <<apiVars, session, page, user, calls, missed, captchaLoading, code,
                   fetching, spent>>

\* INVALID_CAPTCHA, wrong credentials, or no answer: with or without a session.
LoginFails(made) ==
    /\ Answering
    /\ made => Usable(live, login.id)
    /\ live' = Consume(live, login.id)
    /\ Become(user, session \/ made, IF made THEN "begun" ELSE missed)
    /\ login' = [login EXCEPT !.at = "captcha"]
    /\ Refresh("submit")
    /\ UNCHANGED <<issued, given, page, calls, code, spent>>

-----------------------------------------------------------------------------
(* The session. *)

\* It expires, or the password is changed elsewhere.
SessionEnds ==
    /\ session /\ Become(user, FALSE, "ended")
    /\ UNCHANGED <<apiVars, page, calls, formVars, spent>>

\* A link: load() finds `initialized' and asks nobody; bound: not while submit
\* waits.
Navigate(to) ==
    /\ page # "error" /\ to # page
    /\ login = None
    /\ Land(to, user)
    /\ UNCHANGED <<apiVars, session, user, calls, missed, spent>>

\* A page is loaded from the server, whose load() asks the API or fails (503);
\* bound: not while a call is under way.
Reload(answered) ==
    /\ calls = {} /\ login = None
    /\ IF answered
       THEN /\ Become(session, session, missed)
            /\ page' = IF session THEN "app" ELSE "login"
            /\ IF session THEN NoForm ELSE NewForm
       ELSE page' = "error" /\ NoForm /\ UNCHANGED <<session, user, missed>>
    /\ UNCHANGED <<apiVars, calls, spent>>

\* No form of the account page waits; bound: of another visit to it neither.
FormsFree == calls \cap Forms = {}

\* A handler, up to its first request.
Call(what) ==
    /\ page = "app" /\ what \notin calls
    /\ calls' = calls \cup {what}
    /\ UNCHANGED <<apiVars, session, page, user, missed, formVars, spent>>

SignOut == Call("signOut")

\* Behind their forms.
UpdateAccount == FormsFree /\ Call("name")
UpdatePassword == FormsFree /\ Call("password")

\* The name is changed, ...
NameChanged ==
    /\ "name" \in calls /\ session
    /\ calls' = (calls \ {"name"}) \cup {"named"}
    /\ UNCHANGED <<apiVars, session, page, user, missed, formVars, spent>>

\* ... and the answer is the new `user': when the session ended in between, of one
\* that is over.
Renamed ==
    /\ "named" \in calls
    /\ calls' = calls \ {"named"}
    /\ Become(TRUE, session, IF user THEN missed ELSE "renamed")
    /\ UNCHANGED <<apiVars, page, formVars, spent>>

\* It is not, or the answer is lost.
RenameFails ==
    /\ calls \cap {"name", "named"} # {}
    /\ calls' = calls \ {"name", "named"}
    /\ UNCHANGED <<apiVars, session, page, user, missed, formVars, spent>>

\* The password is changed, and with it all sessions end (AuthSessions has the
\* time in between): updatePassword signs out.
PasswordChanged ==
    /\ "password" \in calls /\ session
    /\ Become(user, FALSE, missed)
    /\ calls' = (calls \ {"password"}) \cup {"signOff"}
    /\ UNCHANGED <<apiVars, page, formVars, spent>>

\* It is not, or the answer is lost.
PasswordFails(changed) ==
    /\ "password" \in calls
    /\ changed => session
    /\ Become(user, session /\ ~changed, IF changed THEN "ended" ELSE missed)
    /\ calls' = calls \ {"password"}
    /\ UNCHANGED <<apiVars, page, formVars, spent>>

\* logout, for signOut or updatePassword, is answered or fails.
LoggedOut(what) ==
    /\ what \in calls \cap {"signOut", "signOff"}
    /\ calls' = calls \ {what}
    /\ UNCHANGED <<apiVars, spent>>

\* When it succeeds the sign-in page comes.
SignedOut(what) ==
    /\ LoggedOut(what)
    /\ Become(FALSE, FALSE, missed)
    /\ Land("login", FALSE)

\* Wrong variant of SignOutFails: `user' is forgotten behind the request, and not
\* in its finally.
BugSignOutFails(what, done) ==
    /\ LoggedOut(what)
    /\ Become(user, session /\ ~done, missed)
    /\ UNCHANGED <<page, formVars>>

\* When it fails, `user' is forgotten as well, though the session lives on unless
\* only the answer was lost.
SignOutFails(what, done) ==
    /\ LoggedOut(what)
    /\ Become(FALSE, session /\ ~done, "kept")
    /\ UNCHANGED <<page, formVars>>

SessionNext ==
    \/ CaptchasGrowOld \/ TypeCode \/ AskCaptcha \/ Submit \/ LoggedIn \/ LoginLimited
    \/ \E who \in fetching : CaptchaComes(who) \/ CaptchaFails(who)
    \/ \E made \in BOOLEAN : LoginFails(made) \/ PasswordFails(made)
    \/ SessionEnds \/ PasswordChanged \/ NameChanged \/ Renamed \/ RenameFails
    \/ \E to \in {"login", "app"} : Navigate(to)
    \/ \E answered \in BOOLEAN : Reload(answered)
    \/ SignOut \/ UpdateAccount \/ UpdatePassword
    \/ \E what \in {"signOut", "signOff"} :
           \/ SignedOut(what)
           \/ \E done \in BOOLEAN : SignOutFails(what, done)

-----------------------------------------------------------------------------
(* Properties. *)

\* submit sends a captcha at most once and never with a code that was read
\* from another picture or typed before there was one, however the answers of
\* the refreshes overlap: the API forgets a captcha at its first use, so
\* sending it again would count as a failed login against the lockout.
FreshCaptchaSent ==
    [][login = None /\ login' # None
        => login'.id \notin spent /\ code = login'.id]_sessionVars

\* Whatever is under way, but for the sign-out that follows a change of the
\* password, `user' and the session agree, with the exceptions that Misses names.
\* The application shows a session that is over only when it ended by itself, by a
\* change of the password whose answer was lost, or when the answer of a change of
\* name came after its end: never after a sign-out alone, also one that failed.
\* It denies a session that lives only when the answer to a login was lost, or when
\* a sign-out failed: logout forgets `user' then and leaves the page, although the
\* cookie still names the session.  Nothing corrects `user' but a sign-out, a
\* sign-in or a reload, as `initialized' stays true.
UserMatchesSession ==
    "signOff" \notin calls /\ page # "error" =>
        /\ user /\ ~session => missed \in {"ended", "renamed"}
        /\ session /\ ~user => missed \in {"begun", "kept"}
=============================================================================
