----------------------------- MODULE LoginForms -----------------------------
(***************************************************************************)
(* What the login pages' two scripts share: the forms as the server renders *)
(* them, the items they keep in the browser's storages, and the ways to     *)
(* leave a page.  A page is a request: the parameters of its URL, the form  *)
(* the server rendered for it and the message in it.                        *)
(***************************************************************************)
EXTENDS Naturals

CONSTANTS
    None,          \* a parameter, an item or an element's href that is not there
    Null,          \* the string "null", which setItem makes of None
    Requests       \* the pages that are opened

ASSUME NamesAssumption == None \notin {Null, "1", "wrong"} /\ None \notin Requests

ASSUME RequestsAssumption ==
    \A q \in Requests : /\ q.form \in {"login", "reset", "update"}
                        /\ q.message \in {None, "success-msg", "error-msg"}
                        /\ q.version # Null /\ q.redirect_uri # Null

\* What some of the theorems ask of the pages: only the login form is opened to
\* merge accounts, and a page with the message of a wrong password that brings
\* an account to be merged brings the link back too.
MergesOnLogin == \A q \in Requests : q.mergeaccountprocess # None => q.form = "login"

RetriesBare ==
    \A q \in Requests : q.error = "wrong" /\ q.goBackUrl = None =>
                          q.automerge = None /\ q.identifierValue = None

\* identifierValue stands for the five values of the account to be merged.
EmptySession ==
    [version |-> None, redirect_uri |-> None, automerge |-> None, goBackUrl |-> None,
     identifierValue |-> None, url |-> None, passwordFailCount |-> 0]

EmptyLocal == [mergeaccountprocess |-> None, version |-> None, redirectUrl |-> None]

Stored(v) == IF v = None THEN Null ELSE v

AtLeast(v, n) == v \in Nat /\ v >= n
\* navigate compares the version with '3' as a text: "10" comes before "3".
AtLeastText3(v) == v \in 3..9 \cup 30..99

----------------------------------------------------------------------------
\* Elements of the pages.

Elements(q) ==
    CASE q.form = "login" ->
           {"mergeAccountMessage", "migrateAccountMessage", "success-msg",
            "error-msg", "usernameLabel", "usernameLabelPlaceholder", "username",
            "inCorrectPasswordError", "fgtKeycloakFlow", "fgtPortalFlow",
            "kc-registration", "selfSingUp", "googleSignInBtn", "stateButton",
            "goBack", "signIn"} \cup (IF q.error = None THEN {} ELSE {"error-summary"})
      [] q.form = "reset" -> {"usernameLabel", "usernameLabelPlaceholder", "username"}
      [] q.form = "update" -> {}

InitiallyHidden ==
    {"mergeAccountMessage", "migrateAccountMessage", "success-msg", "error-msg",
     "usernameLabelPlaceholder", "inCorrectPasswordError", "fgtKeycloakFlow",
     "fgtPortalFlow", "selfSingUp", "goBack"}

\* A click reaches what is shown; the two buttons are inside of selfSingUp.
ShownOn(p, e) ==
    /\ p # None /\ e \in Elements(p.q) \ p.hidden
    /\ e \in {"googleSignInBtn", "stateButton"} => "selfSingUp" \notin p.hidden

----------------------------------------------------------------------------
\* Leaving a page.

apps == {"android", "desktop"}

To(host, path, query) == [host |-> host, path |-> path, arg |-> None, query |-> query]
With(dest, arg) == [dest EXCEPT !.arg = arg]

\* handleGoogleAuthEvent takes "merge." off the host of the first page.
PlainHost(host) == IF host = "merge.login" THEN "login" ELSE host

urlMap == [google |-> "/google/auth", state |-> "/sign-in/sso/select-org", self |-> "/signup"]

=============================================================================
