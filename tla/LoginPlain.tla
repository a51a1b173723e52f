----------------------------- MODULE LoginPlain -----------------------------
(***************************************************************************)
(* The login pages with the script login.js, which has no telemetry: what   *)
(* the browser's storages and a page hold after each step, as a function of *)
(* what they held before, without the lookups and the order in which the    *)
(* script comes to it.  The script of a page runs, or could not be loaded.  *)
(***************************************************************************)
EXTENDS LoginForms, Sequences

VARIABLES session, session_url, local, page

plain == <<session, session_url, local, page>>

\* A parameter of the URL wins over the item of the tab, and becomes it.
getValueFromSession(k) == IF page.q[k] # None THEN page.q[k] ELSE session[k]

LookedUp(keys) ==
    [k \in DOMAIN session |-> IF k \in keys THEN getValueFromSession(k) ELSE session[k]]

Has(e)   == e \in Elements(page.q)
Shown(e) == ShownOn(page, e)

NewPage(q, runs) ==
    [q |-> q, runs |-> runs, loaded |-> FALSE,
     hidden |-> InitiallyHidden \cap Elements(q),
     signIn |-> "login", goBack |-> None, forgotVersion |-> None, to |-> None]

\* The script keeps the redirect_uri, and the first URL of the tab.
initialize(q) ==
    /\ session' = [session EXCEPT !.redirect_uri = IF q.redirect_uri # None
                                                   THEN q.redirect_uri ELSE @]
    /\ session_url' = IF session_url = None THEN q ELSE session_url

Open(q) ==
    /\ UNCHANGED local
    /\ \/ page' = NewPage(q, TRUE) /\ initialize(q)
       \/ page' = NewPage(q, FALSE) /\ UNCHANGED <<session, session_url>>

NewTab ==
    /\ session' = EmptySession /\ session_url' = None /\ page' = None
    /\ UNCHANGED local

----------------------------------------------------------------------------
\* onload.

\* The merge page shows what the tab was given earlier: of the values that it
\* looks up, the last that is there is not from its own URL.
LookUps ==
    <<"automerge">> \o (IF page.q.automerge # None THEN <<"redirect_uri">> ELSE <<>>)
                    \o <<"identifierValue", "goBackUrl">>

decoratePage ==
    \E i \in DOMAIN LookUps :
        /\ page.q[LookUps[i]] = None /\ session[LookUps[i]] # None
        /\ \A j \in DOMAIN LookUps : j > i =>
              page.q[LookUps[j]] = None /\ session[LookUps[j]] = None

\* What a page uncovers, for a version from 1 and from 4 on, while it merges
\* (by a value of its own or the browser's) and while it merges automatically.
addVersionToURL(version) == IF AtLeast(version, 1) THEN {"selfSingUp"} ELSE {}

unHideElement(version, merges, fromLocal, auto, kept, wrong) ==
    (IF AtLeast(version, 4) THEN {"fgtPortalFlow"} ELSE {"fgtKeycloakFlow"})
      \cup (IF merges \/ auto THEN {"goBack"} ELSE {})
      \cup (IF merges /\ ~fromLocal THEN {"mergeAccountMessage"} ELSE {})
      \cup (IF auto THEN {"migrateAccountMessage"} ELSE {})
      \cup (IF kept THEN {"selfSingUp"} ELSE {})
      \cup (IF wrong THEN {"inCorrectPasswordError"} ELSE {})

hideElement(merges, auto, kept) ==
    (IF merges \/ auto
     THEN {"kc-registration", "stateButton", "fgtKeycloakFlow", "fgtPortalFlow"} ELSE {})
      \cup (IF auto THEN {"usernameLabel", "usernameLabelPlaceholder", "username"} ELSE {})
      \cup (IF kept THEN {"error-summary"} ELSE {})

storeValueForMigration ==
    [LookedUp({"version", "automerge", "goBackUrl", "identifierValue"})
        EXCEPT !.automerge = Stored(@), !.goBackUrl = Stored(@), !.identifierValue = Stored(@)]

handlePasswordFailure(s, wrong) ==
    IF wrong THEN [s EXCEPT !.passwordFailCount = @ + 1] ELSE s

\* onload ends early where the page lacks the element of its message (unshown)
\* or the link back of a merge.
onload ==
    LET q         == page.q
        here      == q.mergeaccountprocess
        merge     == IF here # None THEN here ELSE local.mergeaccountprocess
        fromLocal == here = None /\ merge = "1"
        looked    == getValueFromSession("version")
        version   == IF fromLocal /\ looked = None THEN local.version ELSE looked
        unshown   == q.message # None /\ ~Has(q.message)
        merges    == merge = "1" /\ ~unshown
        ends      == unshown \/ (merges /\ ~Has("goBack"))
        auto      == getValueFromSession("automerge") = "1" /\ ~ends
        kept      == auto /\ decoratePage
        wrong     == kept /\ q.error = "wrong" /\ ~fromLocal
        uncovered == addVersionToURL(version)
                       \cup (IF q.message # None THEN {q.message} ELSE {})
                       \cup (IF unshown THEN {} ELSE
                             unHideElement(version, merges, fromLocal, auto, kept, wrong))
        covered   == hideElement(merges, auto, kept)
    IN  /\ page # None /\ page.runs /\ ~page.loaded
        /\ session' = handlePasswordFailure(
               IF auto THEN storeValueForMigration
               ELSE LookedUp({"version"} \cup IF ends THEN {} ELSE {"automerge"}), wrong)
        /\ session_url' = IF auto /\ q.automerge # None THEN q ELSE session_url
        /\ local' = IF here = None THEN local
                    ELSE IF merges /\ ~ends
                         THEN [mergeaccountprocess |-> here, version |-> Stored(version),
                               redirectUrl |-> Stored(q.goBackUrl)]
                         ELSE EmptyLocal
        /\ page' = [page EXCEPT
               !.loaded = TRUE,
               !.hidden = (@ \ uncovered) \cup (covered \cap Elements(q)),
               !.signIn = IF (merges \/ auto) /\ Has("signIn") THEN "merge" ELSE @,
               !.goBack = IF ~Has("goBack") \/ ~(merges \/ auto) THEN @
                          ELSE IF auto THEN getValueFromSession("goBackUrl")
                          ELSE IF fromLocal THEN local.redirectUrl ELSE q.goBackUrl,
               !.forgotVersion = IF unshown \/ AtLeast(version, 4) \/ ~Has("fgtKeycloakFlow")
                                 THEN @ ELSE Stored(version),
               !.to = IF wrong /\ session.passwordFailCount >= 1
                      THEN To(q.host, "/sign-in/sso/auth?status=error", None) ELSE @]

----------------------------------------------------------------------------
\* Clicks.  The query of the tab's first page goes with those that redirect.

uri == getValueFromSession("redirect_uri")

LeaveFor(dest) ==
    /\ page' = [page EXCEPT !.to = dest]
    /\ UNCHANGED <<session_url, local>>

redirectToLib == To(page.q.host, "/resource", None)

Redirected(app, other) ==
    IF session_url = None \/ uri = None THEN redirectToLib
    ELSE IF page.q.client_id \in apps THEN app ELSE other

redirect(path) ==
    Redirected(To(session_url.host, path, session_url), To(uri, path, session_url))

handleSsoEvent ==
    Redirected(With(To(uri, "?ssoUrl=", None), session_url.host),
               To(uri, "/sign-in/sso/select-org", None))

handleGoogleAuthEvent ==
    Redirected(With(To(uri, "?googleRedirectUrl=", session_url), PlainHost(session_url.host)),
               To(uri, "/google/auth", session_url))

redirectToPortal(path) == redirect(path)

\* What a click on a way to register looks up whether or not it leads anywhere.
Clicked(v) ==
    session' = LookedUp({"version"} \cup IF v \in {1, 2} \/ AtLeastText3(v)
                                         THEN {"redirect_uri"} ELSE {})

navigate(type) ==
    LET v == getValueFromSession("version")
    IN  /\ page # None /\ page.runs
        /\ Clicked(v)
        /\ \/ v \in {1, 2} /\ type = "state" /\ LeaveFor(handleSsoEvent)
           \/ v \in {1, 2} /\ type # "state" /\ LeaveFor(redirect(urlMap[type]))
           \/ AtLeastText3(v) /\ type = "google" /\ LeaveFor(handleGoogleAuthEvent)
           \/ AtLeastText3(v) /\ type # "google" /\ LeaveFor(redirectToPortal(urlMap[type]))
           \/ v \notin {1, 2} /\ ~AtLeastText3(v) /\ UNCHANGED <<session_url, local, page>>

forgetPassword ==
    /\ Shown("fgtPortalFlow")
    /\ session' = LookedUp({"redirect_uri"})
    /\ LeaveFor(redirect("/recover/identify/account"))

storeLocation ==
    /\ Shown("fgtKeycloakFlow")
    /\ session' = [session EXCEPT !.url = page.q]
    /\ UNCHANGED <<session_url, local, page>>

\* The link itself, to which onload has added the version.
FollowForgot ==
    /\ Shown("fgtKeycloakFlow") /\ session.url = page.q
    /\ LeaveFor(With(To("login", "loginResetCredentials", None), page.forgotVersion))
    /\ UNCHANGED session

GoBack ==
    /\ Shown("goBack")
    /\ LeaveFor(To(page.goBack, "", None))
    /\ UNCHANGED session

Submit ==
    /\ page # None
    /\ LeaveFor(To("login", "loginAction", None))
    /\ UNCHANGED session

\* A field that has the focus shows the placeholder in the place of its label,
\* unless the tab merges accounts.
inputBoxFocus(shown, other) ==
    /\ page # None /\ page.runs
    /\ session' = LookedUp({"automerge"})
    /\ page' = IF getValueFromSession("automerge") = "1" THEN page
               ELSE [page EXCEPT !.hidden = (@ \ {shown}) \cup {other}]
    /\ UNCHANGED <<session_url, local>>

----------------------------------------------------------------------------
Init ==
    /\ session = EmptySession /\ session_url = None /\ local = EmptyLocal
    /\ page = None

Next ==
    \/ \E q \in Requests : Open(q)
    \/ NewTab \/ onload
    \/ Shown("kc-registration") /\ navigate("self")
    \/ Shown("googleSignInBtn") /\ navigate("google")
    \/ Shown("stateButton") /\ navigate("state")
    \/ forgetPassword \/ storeLocation \/ FollowForgot \/ GoBack \/ Submit
    \/ inputBoxFocus("usernameLabel", "usernameLabelPlaceholder")
    \/ inputBoxFocus("usernameLabelPlaceholder", "usernameLabel")

=============================================================================
