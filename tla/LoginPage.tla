----------------------------- MODULE LoginPage -----------------------------
(***************************************************************************)
(* One tab of a browser with the login pages: what the script of the pages *)
(* keeps in sessionStorage (of the tab) and localStorage (of the browser), *)
(* which elements of a page it shows, and where a click leads.             *)
(*                                                                         *)
(* A page is a request: the parameters of its URL, the form the server     *)
(* rendered for it and the message in it.  The steps of a page are the     *)
(* evaluation of the script, its onload, the answer to its search for the  *)
(* organisation, which comes when it comes or never, the clicks, and the   *)
(* timers the clicks start.                                                *)
(***************************************************************************)
EXTENDS LoginForms, PasswordForm, FiniteSets

CONSTANTS
    Docks,         \* the redirect_uris of the dock portals
    MaxPages,      \* bound: pages of a tab
    MaxSteps,      \* bound: pages, clicks and changes of focus of a tab
    EditPages      \* bound: the pages of a tab on which passwords are edited

ASSUME BoundsAssumption == MaxPages \in Nat /\ MaxSteps \in Nat

VARIABLES
    session,       \* sessionStorage, session_url excepted
    session_url,   \* the URL that the redirects go back to
    local,         \* localStorage
    page,          \* the page that is open
    visits,        \* history: the pages of this tab so far, whether onload is done,
                   \* automerge was looked up, the browser was merging otherwise
    asked          \* history: the mergeaccountprocess this browser last asked for

vars == <<session, session_url, local, page, form, visits, asked>>

----------------------------------------------------------------------------
\* Parameters and items of the storages.

\* renderingType remembers where the last value that was looked up came from.
NewSession ==
    [k \in DOMAIN EmptySession \cup {"renderingType"} |->
        IF k = "renderingType" THEN None ELSE EmptySession[k]]

\* b is the browser in the middle of a handler: its storages and its page.
Value(b, k) == IF b.page.q[k] # None THEN b.page.q[k] ELSE b.session[k]

\* (Mutant: what the URL does not give is stored too.)
storeAlways(b, k) ==
    [b EXCEPT !.session[k] = IF b.page.q[k] # None THEN b.page.q[k] ELSE Null,
              !.session.renderingType = "queryParams"]

\* A parameter of the URL is stored.
getValueFromSession(b, k) ==
    IF b.page.q[k] # None
    THEN [b EXCEPT !.session[k] = b.page.q[k], !.session.renderingType = "queryParams"]
    ELSE IF b.session[k] # None
         THEN [b EXCEPT !.session.renderingType = "sessionStorage"]
         ELSE b

----------------------------------------------------------------------------
\* Elements of the pages.

Has(b, e) == e \in Elements(b.page.q)
hideElement(b, es)   == [b EXCEPT !.page.hidden = @ \cup (es \cap Elements(b.page.q))]
unHideElement(b, es) == [b EXCEPT !.page.hidden = @ \ es]

Shown(e) == ShownOn(page, e)

----------------------------------------------------------------------------
\* The evaluation of the script.

\* Without a client_id, and with a pdata of the app that is not JSON, the script
\* throws before it has started the search and set onload and the handlers.
Evaluates(q) == q.client_id # None /\ (q.client_id = "android" => q.pdata # "broken")

\* (Mutant: every page becomes the one to go back to.)
initializeAgain(b) ==
    [getValueFromSession(b, "redirect_uri") EXCEPT !.session_url = b.page.q]

initialize(b) ==
    LET c == getValueFromSession(b, "redirect_uri")
    IN  IF c.session_url = None THEN [c EXCEPT !.session_url = b.page.q] ELSE c

NewPage(q) ==
    [q |-> q, alive |-> Evaluates(q), loaded |-> FALSE,
     orgInfo |-> IF Evaluates(q) THEN "asked" ELSE "never",
     hidden |-> InitiallyHidden \cap Elements(q),
     signIn |-> "login", goBack |-> None, forgotVersion |-> None,
     unClickable |-> FALSE, threw |-> FALSE, disabled |-> FALSE,
     submitting |-> 0, leaving |-> 0,   \* timers: of doLogin, of the forgot link
     clicks |-> IF page = None THEN 0 ELSE page.clicks,   \* history: of the tab
     submits |-> 0, early |-> 0,          \* submits, and clicks before the first
     to |-> None]

Browser(p) == [session |-> session, session_url |-> session_url, local |-> local, page |-> p]

\* The browser at the end of a handler.
Commit(end) ==
    \E b \in {end} :
        /\ session' = b.session /\ session_url' = b.session_url
        /\ local' = b.local /\ page' = b.page

----------------------------------------------------------------------------
\* onload.  A step that throws leaves the rest of onload undone.

Unless(b, c) == IF b.page.threw THEN b ELSE c
Throw(b)     == [b EXCEPT !.page.threw = TRUE]

addVersionToURL(b, version) ==
    LET c == IF AtLeast(version, 1) THEN unHideElement(b, {"selfSingUp"}) ELSE b
    IN  IF AtLeast(version, 2) THEN unHideElement(c, {"stateButton"}) ELSE c

toggleGoogleSignInBtn(b) ==
    IF b.page.q.ios /\ b.page.q.client_id \in {"android", "ios"}
    THEN hideElement(b, {"googleSignInBtn"}) ELSE b

ShowMessage(b) ==
    LET m == b.page.q.message     \* the element of error_message or success_message
    IN  IF m = None THEN b ELSE IF Has(b, m) THEN unHideElement(b, {m}) ELSE Throw(b)

\* (Mutant: the comparison with 4 is strict.)
ShowForgotAfter(b, version) ==
    IF AtLeast(version, 5) THEN unHideElement(b, {"fgtPortalFlow"})
    ELSE IF Has(b, "fgtKeycloakFlow")
         THEN [unHideElement(b, {"fgtKeycloakFlow"}) EXCEPT !.page.forgotVersion = Stored(version)]
         ELSE b

\* (The branch for a page without version, 2749-2755, asks for a version too.)
ShowForgot(b, version) ==
    IF AtLeast(version, 4) THEN unHideElement(b, {"fgtPortalFlow"})
    ELSE IF Has(b, "fgtKeycloakFlow")
         THEN [unHideElement(b, {"fgtKeycloakFlow"}) EXCEPT !.page.forgotVersion = Stored(version)]
         ELSE b

SetLabel(b) == IF Has(b, "signIn") THEN [b EXCEPT !.page.signIn = "merge"] ELSE b

\* Without the link back, its href cannot be set.
MergeAccount(b, merge, version, fromLocal) ==
    LET q == b.page.q
        c == unHideElement(SetLabel(hideElement(b,
                 {"kc-registration", "stateButton", "fgtKeycloakFlow", "fgtPortalFlow"})),
                 {"goBack"})
    IN  CASE merge # "1"       -> b
          [] merge = "1" /\ ~Has(b, "goBack") -> Throw(c)
          [] merge = "1" /\ Has(b, "goBack") /\ fromLocal ->
                [c EXCEPT !.page.goBack = b.local.redirectUrl]
          [] merge = "1" /\ Has(b, "goBack") /\ ~fromLocal ->
                unHideElement(
                  [c EXCEPT !.page.goBack = q.goBackUrl,
                            !.local = [mergeaccountprocess |-> merge,
                                       version |-> Stored(version),
                                       redirectUrl |-> Stored(q.goBackUrl)]],
                  {"mergeAccountMessage"})

\* (Mutant: the first wrong password is the last.)
failAtOnce(b) ==
    [getValueFromSession(b, "identifierValue")
        EXCEPT !.session.passwordFailCount = @ + 1,
               !.page.to = To(b.page.q.host, "/sign-in/sso/auth?status=error", None)]

handlePasswordFailure(b) ==
    LET c == [b EXCEPT !.session.passwordFailCount = @ + 1]
    IN  IF c.session.passwordFailCount >= 2
        THEN [getValueFromSession(c, "identifierValue") EXCEPT
                !.page.to = To(b.page.q.host, "/sign-in/sso/auth?status=error", None)]
        ELSE c

decoratePage(b, error) ==
    LET c1 == getValueFromSession(getValueFromSession(b, "identifierValue"), "goBackUrl")
        c2 == unHideElement(SetLabel(c1), {"migrateAccountMessage", "goBack"})
        c3 == IF Has(b, "goBack") THEN [c2 EXCEPT !.page.goBack = Value(b, "goBackUrl")] ELSE c2
        kept  == c3.session.renderingType = "sessionStorage"
        wrong == kept /\ error = "wrong"
        c4 == IF kept THEN unHideElement(c3, {"selfSingUp"}) ELSE c3
        c5 == IF wrong THEN handlePasswordFailure(unHideElement(c4, {"inCorrectPasswordError"}))
              ELSE c4
    IN  hideElement(c5, {"kc-registration", "stateButton", "fgtKeycloakFlow",
                         "fgtPortalFlow", "usernameLabel", "usernameLabelPlaceholder",
                         "username"} \cup (IF kept THEN {"error-summary"} ELSE {}))

Keep(b, k) ==
    LET v == Value(b, k)
    IN  [getValueFromSession(b, k) EXCEPT !.session[k] = Stored(v)]

\* (Mutant: the link back is not stored.)
storeWithoutGoBack(b) == Keep(Keep(b, "automerge"), "identifierValue")

storeValueForMigration(b) == Keep(Keep(Keep(b, "automerge"), "goBackUrl"), "identifierValue")

\* (Mutant: only a URL with automerge merges, not the retry after it.)
AutoMergeOfUrl(b, error) ==
    IF b.page.q.automerge # "1" THEN b
    ELSE storeValueForMigration(decoratePage(
            initialize([getValueFromSession(b, "automerge") EXCEPT !.session_url = None]), error))

AutoMerge(b, error) ==
    LET c == getValueFromSession(b, "automerge")
        d == IF b.page.q.automerge # None THEN initialize([c EXCEPT !.session_url = None]) ELSE c
    IN  IF Value(b, "automerge") # "1" THEN c
        ELSE storeValueForMigration(decoratePage(d, error))

onload(b) ==
    LET q         == b.page.q
        merge     == IF q.mergeaccountprocess # None THEN q.mergeaccountprocess
                     ELSE b.local.mergeaccountprocess
        fromLocal == q.mergeaccountprocess = None /\ merge = "1"
        version   == IF fromLocal /\ Value(b, "version") = None THEN b.local.version
                     ELSE Value(b, "version")
        error     == IF fromLocal /\ q.error # None THEN "to merge" ELSE q.error
        b1 == getValueFromSession(b, "version")
        b2 == IF q.mergeaccountprocess # None THEN [b1 EXCEPT !.local = EmptyLocal] ELSE b1
        b3 == IF fromLocal THEN hideElement(b2, {"mergeAccountMessage"}) ELSE b2
        b4 == ShowMessage(toggleGoogleSignInBtn(addVersionToURL(b3, version)))
        b5 == Unless(b4, MergeAccount(ShowForgot(b4, version), merge, version, fromLocal))
    IN  Unless(b5, AutoMerge(b5, error))

----------------------------------------------------------------------------
\* Where a click leads.  The query of the first page of the tab goes with it,
\* and the host is that of the latest redirect_uri.

uri(b) == Value(b, "redirect_uri")

Leave(b, dest) == [b EXCEPT !.page.to = dest]

redirectToLib(b) == Leave(b, To(b.page.q.host, "/resource", None))

\* The common part of the five functions below: apps take the first of two
\* destinations, all others the second.
Redirected(b, app, other) ==
    LET c == getValueFromSession(b, "redirect_uri")
    IN  IF b.session_url = None \/ uri(b) = None THEN redirectToLib(c)
        ELSE Leave(c, IF b.page.q.client_id \in apps THEN app ELSE other)

\* (Mutant: the query of the page goes along, not that of the first.)
redirectHere(b, path) ==
    Redirected(b, To(b.session_url.host, path, b.page.q), To(uri(b), path, b.page.q))

redirect(b, path) ==
    Redirected(b, To(b.session_url.host, path, b.session_url), To(uri(b), path, b.session_url))

forgetPassword(b, path) == redirect(b, path)

handleSsoEvent(b) ==
    Redirected(b, With(To(uri(b), "?ssoUrl=", None), b.session_url.host),
                  To(uri(b), "/sign-in/sso/select-org", None))

handleGoogleAuthEvent(b) ==
    Redirected(b, With(To(uri(b), "?googleRedirectUrl=", b.session_url),
                       PlainHost(b.session_url.host)),
                  To(uri(b), "/google/auth", b.session_url))

\* The dock portals have no page to select an organisation.
redirectToPortal(b, path) ==
    LET docked == /\ b.page.q.client_id = "portal"
                  /\ path = "/sign-in/sso/select-org"
                  /\ uri(b) \in Docks
        home   == To(b.session_url.host, path, b.session_url)
    IN  Redirected(b, home, IF docked THEN home ELSE To(uri(b), path, b.session_url))

\* logInteractEvent reads orgInfo.hashTagId: without orgInfo it throws.
Logs == page.orgInfo = "known"

navigate(b, type) ==
    LET c == getValueFromSession(b, "version")
        v == Value(b, "version")
    IN  IF ~Logs THEN c
        ELSE IF v \in {1, 2} /\ type = "state" THEN handleSsoEvent(c)
        ELSE IF v \in {1, 2} THEN redirect(c, urlMap[type])
        ELSE IF ~AtLeastText3(v) THEN c
        ELSE IF type = "google" THEN handleGoogleAuthEvent(c)
        ELSE redirectToPortal(c, urlMap[type])

----------------------------------------------------------------------------
\* The steps of a page.

Opened(b) == IF b.page.alive THEN initialize(b) ELSE b

\* A page is opened in the tab: by the user, or by an answer of the server.
Open(q) ==
    /\ Len(visits) < MaxPages
    /\ page # None => Len(visits) + page.clicks < MaxSteps
    /\ Commit(Opened(Browser(NewPage(q))))
    /\ form' = NewForm
    /\ visits' = Append(visits, [q |-> q, alive |-> Evaluates(q), done |-> FALSE,
                                 looked |-> FALSE, merging |-> FALSE])
    /\ UNCHANGED asked

\* Another tab: sessionStorage is its own, localStorage is the browser's.
NewTab ==
    /\ page # None
    /\ session' = NewSession /\ session_url' = None /\ page' = None
    /\ form' = NewForm /\ visits' = <<>>
    /\ UNCHANGED <<local, asked>>

Onload ==
    /\ page # None /\ page.alive /\ ~page.loaded
    /\ Commit(onload(Browser([page EXCEPT !.loaded = TRUE])))
    /\ LET here == page.q.mergeaccountprocess
       IN  /\ visits' = [visits EXCEPT ![Len(visits)].done = ~page'.threw,
                                       ![Len(visits)].looked = @ \/ ~page'.threw,
                                       ![Len(visits)].merging = here = None /\ asked = "1"]
           /\ asked' = IF here # None THEN here ELSE asked
    /\ UNCHANGED form

\* The answer to getOrgInfo.  With an answer that is not OK, or that holds no
\* organisation, the telemetry starts but orgInfo stays undefined; without an
\* answer nothing happens.
OrgAnswered(found) ==
    /\ page # None /\ page.orgInfo = "asked"
    /\ page' = [page EXCEPT !.orgInfo = IF found THEN "known" ELSE "undefined"]
    /\ UNCHANGED <<session, session_url, local, form, visits, asked>>

\* A handler that may change the storages and the page.
Handler(b) == Commit(b) /\ UNCHANGED <<form, visits, asked>>

\* A click, which ends where it throws.
Click(b) ==
    /\ Len(visits) + page.clicks < MaxSteps
    /\ Handler([b EXCEPT !.page.clicks = @ + 1])

\* The login button; Enter in a field clicks it too.
doLogin ==
    /\ page # None /\ page.q.form = "login" /\ ~page.disabled
    /\ Click(IF ~Logs THEN Browser(page)
             ELSE [Browser(page) EXCEPT !.page.submitting = @ + 1, !.page.early = @ + (IF page.submits = 0 THEN 1 ELSE 0)])

\* (Mutant: the submitted form does not disable the button.)
SubmitEnabled ==
    /\ page # None /\ page.submitting > 0
    /\ Handler([Browser(page) EXCEPT !.page.submitting = @ - 1, !.page.submits = @ + 1,
                                     !.page.to = To("login", "loginAction", None)])

\* 500 ms later the form is submitted, whose onsubmit disables the button.
Submit ==
    /\ page # None /\ page.submitting > 0
    /\ Handler([Browser(page) EXCEPT !.page.submitting = @ - 1, !.page.submits = @ + 1,
                                     !.page.disabled = TRUE,
                                     !.page.to = To("login", "loginAction", None)])

Navigate(e, type) ==
    /\ Shown(e) /\ page.alive
    /\ Click(navigate(Browser(page), type))

ForgotPortal ==
    LET b == [Browser(page) EXCEPT !.page.unClickable = TRUE]
    IN  /\ Shown("fgtPortalFlow")
        /\ Click(IF Logs THEN forgetPassword(b, "/recover/identify/account") ELSE b)

\* storeForgotPasswordLocation keeps the URL, and leaves 100 ms later.
ForgotKeycloak ==
    LET b == [Browser(page) EXCEPT !.page.unClickable = TRUE, !.session.url = page.q]
    IN  /\ Shown("fgtKeycloakFlow")
        /\ Click(IF Logs THEN [b EXCEPT !.page.leaving = @ + 1] ELSE b)

LeaveForgot ==
    /\ page # None /\ page.leaving > 0
    /\ Handler([Browser(page) EXCEPT !.page.leaving = @ - 1,
                    !.page.to = With(To("login", "loginResetCredentials", None), page.forgotVersion)])

GoBack ==
    /\ Shown("goBack")
    /\ Click(Leave(Browser(page), To(page.goBack, "", None)))

\* The buttons of the other forms are submitted whether or not the handler
\* throws, which it does before it makes the page unclickable.
makeDivUnclickable ==
    /\ page # None /\ page.q.form \in {"reset", "update"} /\ page.alive
    /\ page.q.form = "update" => ~form.disabled
    /\ Click([Browser(page) EXCEPT !.page.unClickable = @ \/ Logs,
                                   !.page.to = To("login", "loginAction", None)])

\* The focus, which a page may have before its onload, stores automerge: the
\* labels of a field change, unless the page merges accounts.
inputBoxFocus(in) ==
    LET b     == getValueFromSession(Browser(page), "automerge")
        shown == IF in THEN "usernameLabelPlaceholder" ELSE "usernameLabel"
        other == IF in THEN "usernameLabel" ELSE "usernameLabelPlaceholder"
    IN  /\ page # None /\ page.alive
        /\ "username" \in Elements(page.q) \ page.hidden
        /\ other \notin page.hidden
        /\ Len(visits) + page.clicks < MaxSteps
        /\ Commit([IF Value(Browser(page), "automerge") = "1" THEN b
                   ELSE hideElement(unHideElement(b, {shown}), {other})
                      EXCEPT !.page.clicks = @ + 1])
        /\ visits' = [visits EXCEPT ![Len(visits)].looked = TRUE]
        /\ UNCHANGED <<form, asked>>

UpdatePassword ==
    /\ page # None /\ page.q.form = "update" /\ page.alive
    /\ Len(visits) <= EditPages
    /\ EditForm
    /\ UNCHANGED <<session, session_url, local, page, visits, asked>>

----------------------------------------------------------------------------
Init ==
    /\ session = NewSession /\ session_url = None /\ local = EmptyLocal
    /\ page = None /\ form = NewForm /\ visits = <<>> /\ asked = None

Clicks ==
    \/ doLogin
    \/ Navigate("kc-registration", "self")
    \/ Navigate("googleSignInBtn", "google")
    \/ Navigate("stateButton", "state")
    \/ ForgotPortal \/ ForgotKeycloak \/ GoBack \/ makeDivUnclickable
    \/ \E in \in BOOLEAN : inputBoxFocus(in)

Next ==
    \/ \E q \in Requests : Open(q)
    \/ NewTab \/ Onload \/ \E found \in BOOLEAN : OrgAnswered(found)
    \/ Clicks \/ Submit \/ LeaveForgot \/ UpdatePassword

Spec == Init /\ [][Next]_vars

----------------------------------------------------------------------------
\* What is relied on.

Given(k) == {q[k] : q \in Requests} \cup {None, Null}

PageType(p) ==
    /\ p.q \in Requests
    /\ p.alive \in BOOLEAN /\ p.loaded \in BOOLEAN /\ p.threw \in BOOLEAN
    /\ p.disabled \in BOOLEAN /\ p.unClickable \in BOOLEAN
    /\ p.orgInfo \in {"never", "asked", "known", "undefined"}
    /\ p.hidden \subseteq Elements(p.q)
    /\ p.signIn \in {"login", "merge"} /\ p.goBack \in Given("goBackUrl")
    /\ p.forgotVersion \in Given("version")
    /\ p.submitting \in 0..MaxSteps /\ p.leaving \in 0..MaxSteps
    /\ p.clicks \in 0..MaxSteps /\ p.submits \in 0..MaxSteps /\ p.early \in 0..MaxSteps
    /\ p.threw => p.loaded
    /\ p.loaded => p.alive

\* The storages hold parameters that some page was given, or "null" in their
\* place, and never "null" for what only getValueFromSession stores; onload
\* runs, and throws, only where the script was evaluated.
TypeOK ==
    /\ \A k \in {"version", "redirect_uri"} : session[k] \in Given(k) \ {Null}
    /\ \A k \in {"automerge", "goBackUrl", "identifierValue"} : session[k] \in Given(k)
    /\ session.renderingType \in {None, "queryParams", "sessionStorage"}
    /\ session.url \in Requests \cup {None}
    /\ session.passwordFailCount \in 0..MaxPages
    /\ session_url \in Requests \cup {None}
    /\ local.mergeaccountprocess \in {None, "1"}
    /\ local.version \in Given("version") /\ local.redirectUrl \in Given("goBackUrl")
    /\ page = None \/ PageType(page)

\* The first page of the tab whose script ran, or the last that was opened to
\* merge accounts and came to the end of its onload.
Last(S)  == CHOOSE i \in S : \A j \in S : j <= i
First(S) == CHOOSE i \in S : \A j \in S : i <= j

Entry ==
    LET merges == {i \in DOMAIN visits : visits[i].done /\ visits[i].q.automerge = "1"}
        alive  == {i \in DOMAIN visits : visits[i].alive}
    IN  IF merges # {} THEN visits[Last(merges)].q
        ELSE IF alive # {} THEN visits[First(alive)].q ELSE None

LatestUri ==
    LET given == {i \in DOMAIN visits : visits[i].alive /\ visits[i].q.redirect_uri # None}
    IN  IF given = {} THEN None ELSE visits[Last(given)].q.redirect_uri

\* SessionUrlIsEntry: a page that is opened later in the tab, be it a retry
\* without parameters or another application's, does not change what the
\* redirects go back to, although it may change the host they go to.
SessionUrlIsEntry == session_url = Entry

\* RedirectsOfEntry: a click that leaves with the query of a page leaves with
\* that of the tab's entry, and for the host of the latest redirect_uri or of
\* the entry, whatever pages, retries and clicks came between.
RedirectsOfEntry ==
    [][(page' # None /\ page'.to # None /\ page'.to.query \in Requests)
         => \/ page # None /\ page.to = page'.to
            \/ page'.to.query = Entry /\ page'.to.host \in {LatestUri, Entry.host}]_vars

\* MergingIsAsked: a page that was loaded offers to merge accounts when the
\* browser was last asked to, in whatever tab, or this tab was, and only then;
\* it then offers neither another account nor a new password.
AutoMerging ==
    LET given == {i \in DOMAIN visits : visits[i].looked /\ visits[i].q.automerge # None}
    IN  given # {} /\ visits[Last(given)].q.automerge = "1"

MergingIsAsked ==
    page # None /\ page.loaded /\ ~page.threw /\ page.q.form = "login" =>
        LET merging == asked = "1" \/ AutoMerging
        IN  /\ page.signIn = "merge" <=> merging
            /\ merging => /\ Shown("goBack")
                          /\ \A e \in {"kc-registration", "stateButton", "fgtKeycloakFlow",
                                        "fgtPortalFlow"} : ~Shown(e)

\* OneForgotLink: a loaded login page that does not merge offers one of the two
\* ways to a new password, the portal's from version 4 of the tab on.
OneForgotLink ==
    page # None /\ page.loaded /\ ~page.threw /\ page.q.form = "login"
      /\ page.signIn = "login" =>
        /\ Shown("fgtPortalFlow") <=> ~Shown("fgtKeycloakFlow")
        /\ Shown("fgtPortalFlow") <=> AtLeast(session.version, 4)

\* FailuresCounted: the user is sent away as failed on the second page with a
\* wrong password, and the count is that of such pages since the tab opened:
\* retries of an automerge, whose URL brings no value of its own, unless the
\* browser merges the other way too, which changes the message.
Failed ==
    {i \in DOMAIN visits :
        /\ visits[i].done /\ ~visits[i].merging /\ visits[i].q.error = "wrong"
        /\ visits[i].q.automerge = None /\ visits[i].q.identifierValue = None
        /\ visits[i].q.goBackUrl = None
        /\ \E j \in 1..(i - 1) :
              /\ visits[j].looked /\ visits[j].q.automerge = "1"
              /\ \A k \in (j + 1)..(i - 1) : visits[k].looked => visits[k].q.automerge = None}

FailuresCounted ==
    /\ session.passwordFailCount = Cardinality(Failed)
    /\ page # None /\ page.to # None /\ page.to.path = "/sign-in/sso/auth?status=error"
         => Cardinality(Failed) >= 2

\* NoLateSubmit: the form is submitted once per click at most, and by the
\* clicks before the first submit only: the timers of a double click both
\* submit, but onsubmit stops the third.
NoLateSubmit == page # None => page.submits <= page.early

\* ImplementsPlain: what the pages do with the storages, which elements they
\* show and where they lead is what login.js did, and every page, retry, click
\* and timer is a step of it or none; but for a click that is lost while the
\* organisation is not known, and for the way to register that the dock portals
\* lack.  (The button that iOS hides is left out.)
PlainSession == [k \in DOMAIN EmptySession |-> session[k]]

PlainPage ==
    IF page = None THEN None
    ELSE [q |-> page.q, runs |-> page.alive, loaded |-> page.loaded,
          hidden |-> page.hidden \ {"googleSignInBtn"}, signIn |-> page.signIn,
          goBack |-> page.goBack, forgotVersion |-> page.forgotVersion, to |-> page.to]

Plain == INSTANCE LoginPlain WITH session <- PlainSession, page <- PlainPage

LostClick ==
    /\ page # None /\ ~Logs
    /\ PlainSession' = Plain!LookedUp({"version"})
    /\ UNCHANGED <<session_url, local, PlainPage>>

DockClick ==
    /\ page # None /\ page.q.client_id = "portal" /\ uri(Browser(page)) \in Docks
    /\ Plain!LeaveFor(To(session_url.host, urlMap["state"], session_url))
    /\ PlainSession' = Plain!LookedUp({"version", "redirect_uri"})

ImplementsPlain ==
    Plain!Init /\ [][Plain!Next \/ LostClick \/ DockClick]_(Plain!plain)

=============================================================================
