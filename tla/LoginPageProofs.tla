-------------------------- MODULE LoginPageProofs --------------------------
(***************************************************************************)
(* The gate of the update-password form, and what a tab of login pages      *)
(* keeps, shows and leads to, for any passwords, any rule that does not     *)
(* accept the empty one, any pages and any bounds.                          *)
(*                                                                          *)
(* The script is a chain of functions of the browser, which the first part  *)
(* evaluates one by one up to onload (OnloadIs) and the redirects.  A step  *)
(* of the tab opens a page, another tab, loads, or is Handled: a click, a   *)
(* timer or an answer (StepIs).  What it keeps in the storages is then      *)
(* related to the pages of the tab by one invariant after the other.        *)
(* Last, every step is shown to be one of the earlier script's: the whole   *)
(* of onload is what login.js computed, and so is every click.              *)
(***************************************************************************)
EXTENDS LoginPage, SequenceTheorems, FiniteSetTheorems, TLAPS

\* An enabled button needs more than equal fields while a handler waits: the
\* field whose handler does NOT wait holds an accepted password, or none.
Accepted == Strong \cup {""}

FormType ==
    form \in [new : Passwords, confirm : Passwords, disabled : BOOLEAN,
              weakShown : BOOLEAN, mismatchShown : BOOLEAN, type : {"password", "text"},
              handlers : Seq({"validatePassword", "matchPassword"}), edits : Nat,
              bypassed : BOOLEAN]

\* The handlers that wait are those of one field.
OneField == \A i, j \in DOMAIN form.handlers : form.handlers[i] = form.handlers[j]

Guarded ==
    ~form.bypassed /\ ~form.disabled =>
        IF form.handlers = <<>> THEN form.new = form.confirm /\ form.new \in Accepted
        ELSE IF form.handlers[1] = "validatePassword" THEN form.confirm \in Accepted
        ELSE form.new \in Accepted

FormInv == FormType /\ OneField /\ Guarded

\* The form as the server renders it.
LEMMA NewFormInv == ASSUME form = NewForm PROVE FormInv
<1>1. /\ form.new = "" /\ form.confirm = "" /\ form.handlers = <<>>
      /\ form.disabled = FALSE /\ form.bypassed = FALSE
  BY DEF NewForm
<1>2. <<>> \in Seq({"validatePassword", "matchPassword"}) /\ DOMAIN <<>> = {}
  OBVIOUS
<1>3. "" \in Passwords
  BY PasswordsAssumption
<1>4. FormType
  BY <1>2, <1>3 DEF FormType, NewForm
<1>5. OneField
  BY <1>1, <1>2 DEF OneField
<1>6. Guarded
  BY <1>1 DEF Guarded, Accepted
<1> QED  BY <1>4, <1>5, <1>6 DEF FormInv

LEMMA NewFormInvNext == ASSUME form' = NewForm PROVE FormInv'
<1>1. /\ form'.new = "" /\ form'.confirm = "" /\ form'.handlers = <<>>
      /\ form'.disabled = FALSE /\ form'.bypassed = FALSE
  BY DEF NewForm
<1>2. <<>> \in Seq({"validatePassword", "matchPassword"}) /\ DOMAIN <<>> = {}
  OBVIOUS
<1>3. "" \in Passwords
  BY PasswordsAssumption
<1>4. FormType'
  BY <1>2, <1>3 DEF FormType, NewForm
<1>5. OneField'
  BY <1>1, <1>2 DEF OneField
<1>6. Guarded'
  BY <1>1 DEF Guarded, Accepted
<1> QED  BY <1>4, <1>5, <1>6 DEF FormInv

\* A sequence of equal elements keeps them when the first is taken, and when
\* one like them is added.
LEMMA TailOf ==
  ASSUME NEW S, NEW s \in Seq(S), s # <<>>
  PROVE  /\ Head(s) = s[1] /\ s[1] \in S
         /\ Tail(s) \in Seq(S)
         /\ \A i \in DOMAIN Tail(s) : i + 1 \in DOMAIN s /\ Tail(s)[i] = s[i + 1]
         /\ Tail(s) # <<>> => 1 \in DOMAIN Tail(s)
  OBVIOUS

LEMMA AppendTo ==
  ASSUME NEW S, NEW s \in Seq(S), NEW e \in S
  PROVE  /\ Append(s, e) \in Seq(S)
         /\ Append(s, e) # <<>>
         /\ \A i \in DOMAIN Append(s, e) :
               Append(s, e)[i] = e \/ (i \in DOMAIN s /\ Append(s, e)[i] = s[i])
         /\ 1 \in DOMAIN Append(s, e)
  OBVIOUS

\* A key: the field it changes is the one whose handler waits.
LEMMA KeyKeeps ==
  ASSUME FormInv, NEW field \in Fields, NEW p \in Passwords, Key(field, p)
  PROVE  FormInv'
<1> DEFINE h == HandlerOf(field)
<1>1. h \in {"validatePassword", "matchPassword"}
  BY DEF HandlerOf
<1>2. /\ form.handlers \in Seq({"validatePassword", "matchPassword"})
      /\ Append(form.handlers, h) \in Seq({"validatePassword", "matchPassword"})
  BY <1>1, AppendTo DEF FormInv, FormType
<1>3. /\ FormType'
      /\ form'.handlers = Append(form.handlers, h)
      /\ form'.bypassed = form.bypassed /\ form'.disabled = form.disabled
      /\ field = "new" => form'.confirm = form.confirm
      /\ field = "confirm" => form'.new = form.new
  <2>1. CASE field = "new"
    <3>1. form' = [form EXCEPT !.new = p, !.edits = @ + 1,
                              !.handlers = Append(form.handlers, h)]
      BY <2>1 DEF Key
    <3>2. form.edits + 1 \in Nat
      BY DEF FormInv, FormType
    <3>3. FormType'
      BY <1>2, <3>1, <3>2 DEF FormInv, FormType
    <3> QED  BY <2>1, <3>1, <3>3 DEF FormInv, FormType
  <2>2. CASE field = "confirm"
    <3>1. form' = [form EXCEPT !.confirm = p, !.edits = @ + 1,
                              !.handlers = Append(form.handlers, h)]
      BY <2>2 DEF Key
    <3>2. form.edits + 1 \in Nat
      BY DEF FormInv, FormType
    <3>3. FormType'
      BY <1>2, <3>1, <3>2 DEF FormInv, FormType
    <3> QED  BY <2>2, <3>1, <3>3 DEF FormInv, FormType
  <2> QED  BY <2>1, <2>2 DEF Fields
<1>4. \A i \in DOMAIN form'.handlers : form'.handlers[i] = h
  <2>1. \A i \in DOMAIN form.handlers : form.handlers[i] = h
    BY DEF Key
  <2> HIDE DEF h
  <2>2. \A i \in DOMAIN Append(form.handlers, h) :
           Append(form.handlers, h)[i] = h
             \/ (i \in DOMAIN form.handlers /\ Append(form.handlers, h)[i] = form.handlers[i])
    BY <1>1, <1>2, AppendTo
  <2> QED  BY <1>3, <2>1, <2>2
<1>5. OneField'
  BY <1>4 DEF OneField
<1>6. form'.handlers # <<>> /\ form'.handlers[1] = h
  BY <1>1, <1>3, <1>4, AppendTo DEF FormInv, FormType
<1>7. form.handlers # <<>> => form.handlers[1] = h
  <2>1. form.handlers # <<>> => 1 \in DOMAIN form.handlers
    BY <1>2
  <2> QED  BY <2>1 DEF Key
<1>8. Guarded'
  <2>1. CASE field = "new"
    BY <1>3, <1>6, <1>7, <2>1 DEF FormInv, Guarded, HandlerOf, Accepted
  <2>2. CASE field = "confirm"
    BY <1>3, <1>6, <1>7, <2>2 DEF FormInv, Guarded, HandlerOf, Accepted
  <2> QED  BY <2>1, <2>2 DEF Fields
<1> QED  BY <1>3, <1>5, <1>8 DEF FormInv

\* A timer: the field it is for has been compared with the other.
LEMMA HandleKeeps ==
  ASSUME FormInv, Handle
  PROVE  FormInv'
<1> DEFINE f == [form EXCEPT !.handlers = Tail(@)]
<1>1. /\ form.handlers \in Seq({"validatePassword", "matchPassword"})
      /\ form.handlers # <<>>
  BY DEF FormInv, FormType, Handle
<1>2. /\ f \in [new : Passwords, confirm : Passwords, disabled : BOOLEAN,
                weakShown : BOOLEAN, mismatchShown : BOOLEAN, type : {"password", "text"},
                handlers : Seq({"validatePassword", "matchPassword"}), edits : Nat,
                bypassed : BOOLEAN]
      /\ f.handlers = Tail(form.handlers)
      /\ f.new = form.new /\ f.confirm = form.confirm
      /\ f.disabled = form.disabled /\ f.bypassed = form.bypassed
  BY <1>1, TailOf DEF FormInv, FormType
<1>3. /\ form'.handlers = Tail(form.handlers)
      /\ form'.new = form.new /\ form'.confirm = form.confirm
      /\ form'.bypassed = form.bypassed
  BY <1>2 DEF Handle, validatePassword, matchPassword
<1>4. FormType'
  BY <1>2 DEF FormType, Handle, validatePassword, matchPassword
<1>5. OneField'
  BY <1>1, <1>3, TailOf DEF FormInv, OneField
<1>6. form'.handlers # <<>> => form'.handlers[1] = form.handlers[1]
  <2> SUFFICES ASSUME Tail(form.handlers) # <<>>
               PROVE  Tail(form.handlers)[1] = form.handlers[1]
    BY <1>3
  <2>1. 1 \in DOMAIN form.handlers /\ 1 \in DOMAIN Tail(form.handlers)
    BY <1>1, TailOf
  <2>2. Tail(form.handlers)[1] = form.handlers[1 + 1] /\ 1 + 1 \in DOMAIN form.handlers
    BY <1>1, <2>1, TailOf
  <2> QED  BY <2>1, <2>2 DEF FormInv, OneField
<1>7. CASE form.handlers[1] = "validatePassword"
  <2>1. form' = validatePassword(f)
    BY <1>1, <1>7, TailOf DEF Handle
  <2>2. ~form'.disabled => /\ form.new = form.confirm
                           /\ ~form.disabled \/ form.new \in Strong
    BY <1>2, <2>1 DEF validatePassword
  <2>3. Guarded'
    BY <1>1, <1>3, <1>6, <1>7, <2>2 DEF FormInv, Guarded, Accepted
  <2> QED  BY <1>4, <1>5, <2>3 DEF FormInv
<1>8. CASE form.handlers[1] = "matchPassword"
  <2>1. form' = matchPassword(f)
    BY <1>1, <1>8, TailOf DEF Handle
  <2>2. ~form'.disabled => /\ form.new = form.confirm
                           /\ ~form.disabled \/ form.new \in Strong
    BY <1>2, <2>1 DEF matchPassword
  <2>3. Guarded'
    BY <1>1, <1>3, <1>6, <1>8, <2>2 DEF FormInv, Guarded, Accepted
  <2> QED  BY <1>4, <1>5, <2>3 DEF FormInv
<1> QED  BY <1>1, <1>7, <1>8, TailOf

\* A paste ends what is promised, and the eye changes nothing of it.
LEMMA PasteKeeps ==
  ASSUME FormInv, NEW field \in Fields, NEW p \in Passwords, Paste(field, p)
  PROVE  FormInv'
<1>1. FormType' /\ form'.bypassed /\ form'.handlers = form.handlers
  <2>1. CASE field = "new"
    <3>1. form' = [form EXCEPT !.new = p, !.edits = @ + 1, !.bypassed = TRUE]
      BY <2>1 DEF Paste
    <3>2. form.edits + 1 \in Nat
      BY DEF FormInv, FormType
    <3>3. FormType'
      BY <3>1, <3>2 DEF FormInv, FormType
    <3> QED  BY <3>1, <3>3 DEF FormInv, FormType
  <2>2. CASE field = "confirm"
    <3>1. form' = [form EXCEPT !.confirm = p, !.edits = @ + 1, !.bypassed = TRUE]
      BY <2>2 DEF Paste
    <3>2. form.edits + 1 \in Nat
      BY DEF FormInv, FormType
    <3>3. FormType'
      BY <3>1, <3>2 DEF FormInv, FormType
    <3> QED  BY <3>1, <3>3 DEF FormInv, FormType
  <2> QED  BY <2>1, <2>2 DEF Fields
<1> QED  BY <1>1 DEF FormInv, OneField, Guarded

LEMMA ViewKeeps ==
  ASSUME FormInv, viewPassword
  PROVE  FormInv'
<1>1. FormType'
  BY DEF FormInv, FormType, viewPassword
<1>2. /\ form'.handlers = form.handlers /\ form'.bypassed = form.bypassed
      /\ form'.disabled = form.disabled
      /\ form'.new = form.new /\ form'.confirm = form.confirm
  BY DEF FormInv, FormType, viewPassword
<1> QED  BY <1>1, <1>2 DEF FormInv, OneField, Guarded

LEMMA FormStep ==
  ASSUME FormInv, [Next]_vars
  PROVE  FormInv'
<1>1. CASE form' = NewForm
  BY <1>1, NewFormInvNext
<1>2. CASE UNCHANGED form
  BY <1>2 DEF FormInv, FormType, OneField, Guarded
<1>3. CASE EditForm
  <2>1. CASE \E f \in Fields, p \in Passwords : Key(f, p)
    BY <2>1, KeyKeeps
  <2>2. CASE \E f \in Fields, p \in Passwords : Paste(f, p)
    BY <2>2, PasteKeeps
  <2>3. CASE Handle
    BY <2>3, HandleKeeps
  <2>4. CASE viewPassword
    BY <2>4, ViewKeeps
  <2> QED  BY <1>3, <2>1, <2>2, <2>3, <2>4 DEF EditForm
<1>4. form' = NewForm \/ UNCHANGED form \/ EditForm
  <2>1. CASE \E q \in Requests : Open(q)
    BY <2>1 DEF Open
  <2>2. CASE NewTab
    BY <2>2 DEF NewTab
  <2>3. CASE Onload \/ \E found \in BOOLEAN : OrgAnswered(found)
    BY <2>3 DEF Onload, OrgAnswered
  <2>4. CASE Clicks
    BY <2>4 DEF Clicks, doLogin, Navigate, ForgotPortal, ForgotKeycloak, GoBack,
                makeDivUnclickable, inputBoxFocus, Click, Handler
  <2>5. CASE Submit \/ LeaveForgot
    BY <2>5 DEF Submit, LeaveForgot, Handler
  <2>6. CASE UpdatePassword
    BY <2>6 DEF UpdatePassword
  <2>7. CASE UNCHANGED vars
    BY <2>7 DEF vars
  <2> QED  BY <2>1, <2>2, <2>3, <2>4, <2>5, <2>6, <2>7 DEF Next
<1> QED  BY <1>1, <1>2, <1>3, <1>4

\* GateHolds: while keys alone edit the fields, the button of the
\* update-password form is enabled only for two equal accepted passwords (or two
\* empty fields), in whatever order the two handlers of validatePassword and
\* matchPassword run, on every page of every tab.
THEOREM GateHolds == Spec => []PasswordGate
<1>1. Init => FormInv
  BY NewFormInv DEF Init
<1>2. FormInv /\ [Next]_vars => FormInv'
  BY FormStep
<1>3. FormInv => PasswordGate
  BY DEF FormInv, Guarded, PasswordGate, Accepted
<1> QED  BY <1>1, <1>2, <1>3, PTL DEF Spec

-----------------------------------------------------------------------------
(* The records a browser is made of. *)
PageFields ==
  {"q", "alive", "loaded", "orgInfo", "hidden", "signIn", "goBack", "forgotVersion",
   "unClickable", "threw", "disabled", "submitting", "leaving", "clicks", "submits",
   "early", "to"}

SessionItems ==
  {"version", "redirect_uri", "automerge", "goBackUrl", "identifierValue", "url",
   "passwordFailCount", "renderingType"}

Items == {"version", "redirect_uri", "automerge", "goBackUrl", "identifierValue"}

Shaped(b) ==
  /\ DOMAIN b = {"session", "session_url", "local", "page"}
  /\ DOMAIN b.session = SessionItems
  /\ DOMAIN b.page = PageFields

(* What neither onload nor a lookup changes. *)
Unmoved(b, c) ==
  /\ Shaped(c)
  /\ c.page.q = b.page.q /\ c.page.alive = b.page.alive /\ c.page.loaded = b.page.loaded
  /\ c.page.orgInfo = b.page.orgInfo /\ c.page.disabled = b.page.disabled
  /\ c.page.unClickable = b.page.unClickable
  /\ c.page.submitting = b.page.submitting /\ c.page.leaving = b.page.leaving
  /\ c.page.clicks = b.page.clicks /\ c.page.submits = b.page.submits
  /\ c.page.early = b.page.early
  /\ c.session.url = b.session.url
  /\ c.session.renderingType \in {b.session.renderingType, "queryParams", "sessionStorage"}

(* What only shows or hides elements changes nothing else. *)
OnlyShows(b, c) ==
  /\ Unmoved(b, c)
  /\ c.session = b.session /\ c.session_url = b.session_url /\ c.local = b.local
  /\ c.page.signIn = b.page.signIn /\ c.page.goBack = b.page.goBack
  /\ c.page.forgotVersion = b.page.forgotVersion /\ c.page.threw = b.page.threw
  /\ c.page.to = b.page.to

LEMMA LookUp ==
  ASSUME NEW b, Shaped(b), NEW k \in Items
  PROVE  LET c == getValueFromSession(b, k)
         IN  /\ Unmoved(b, c)
             /\ c.session[k] = Value(b, k)
             /\ \A i \in SessionItems \ {k, "renderingType"} : c.session[i] = b.session[i]
             /\ c.session.renderingType =
                  (IF b.page.q[k] # None THEN "queryParams"
                   ELSE IF b.session[k] # None THEN "sessionStorage"
                   ELSE b.session.renderingType)
             /\ c.session_url = b.session_url /\ c.local = b.local /\ c.page = b.page
<1>1. k \in SessionItems /\ k # "renderingType"
  BY DEF Items, SessionItems
<1>2. CASE b.page.q[k] # None
  BY <1>1, <1>2 DEF getValueFromSession, Value, Shaped, Unmoved, SessionItems, Items
<1>3. CASE b.page.q[k] = None /\ b.session[k] # None
  BY <1>1, <1>3 DEF getValueFromSession, Value, Shaped, Unmoved, SessionItems, Items
<1>4. CASE b.page.q[k] = None /\ b.session[k] = None
  BY <1>1, <1>4 DEF getValueFromSession, Value, Shaped, Unmoved
<1> QED BY <1>2, <1>3, <1>4

LEMMA Hides ==
  ASSUME NEW b, Shaped(b), NEW es
  PROVE  /\ OnlyShows(b, hideElement(b, es))
         /\ hideElement(b, es).page.hidden
              = b.page.hidden \cup (es \cap Elements(b.page.q))
  BY DEF hideElement, Shaped, OnlyShows, Unmoved, PageFields

LEMMA Unhides ==
  ASSUME NEW b, Shaped(b), NEW es
  PROVE  /\ OnlyShows(b, unHideElement(b, es))
         /\ unHideElement(b, es).page.hidden = b.page.hidden \ es
  BY DEF unHideElement, Shaped, OnlyShows, Unmoved, PageFields

LEMMA UnmovedTwice ==
  ASSUME NEW b, NEW c, NEW d, Unmoved(b, c), Unmoved(c, d)
  PROVE  Unmoved(b, d)
  BY DEF Unmoved

LEMMA ShowsTwice ==
  ASSUME NEW b, NEW c, NEW d, OnlyShows(b, c), OnlyShows(c, d)
  PROVE  OnlyShows(b, d)
  BY UnmovedTwice DEF OnlyShows

LEMMA ShapedShows ==
  ASSUME NEW b, Shaped(b)
  PROVE  OnlyShows(b, b) /\ Unmoved(b, b)
  BY DEF OnlyShows, Unmoved

(* The parts of onload. *)
MergeOf(b) ==
  IF b.page.q.mergeaccountprocess # None THEN b.page.q.mergeaccountprocess
  ELSE b.local.mergeaccountprocess

FromLocal(b) == b.page.q.mergeaccountprocess = None /\ MergeOf(b) = "1"

VersionOf(b) ==
  IF FromLocal(b) /\ Value(b, "version") = None THEN b.local.version ELSE Value(b, "version")

ErrorOf(b) == IF FromLocal(b) /\ b.page.q.error # None THEN "to merge" ELSE b.page.q.error

Cleared(b) ==
  LET c == getValueFromSession(b, "version")
      d == IF b.page.q.mergeaccountprocess # None THEN [c EXCEPT !.local = EmptyLocal] ELSE c
  IN  IF FromLocal(b) THEN hideElement(d, {"mergeAccountMessage"}) ELSE d

Messaged(b) == ShowMessage(toggleGoogleSignInBtn(addVersionToURL(Cleared(b), VersionOf(b))))

Merged(b) ==
  Unless(Messaged(b), MergeAccount(ShowForgot(Messaged(b), VersionOf(b)), MergeOf(b),
                                   VersionOf(b), FromLocal(b)))

LEMMA OnloadParts ==
  ASSUME NEW b
  PROVE  onload(b) = Unless(Merged(b), AutoMerge(Merged(b), ErrorOf(b)))
  BY DEF onload, Merged, Messaged, Cleared, ErrorOf, VersionOf, FromLocal, MergeOf

(* The element of the message of a page is missing: showing it throws. *)
Unshown(q) == q.message # None /\ q.message \notin Elements(q)

LEMMA ClearedIs ==
  ASSUME NEW b, Shaped(b)
  PROVE  LET c == Cleared(b)
         IN  /\ Unmoved(b, c)
             /\ c.session = getValueFromSession(b, "version").session
             /\ c.session_url = b.session_url
             /\ c.local = (IF b.page.q.mergeaccountprocess # None THEN EmptyLocal ELSE b.local)
             /\ c.page.signIn = b.page.signIn /\ c.page.goBack = b.page.goBack
             /\ c.page.forgotVersion = b.page.forgotVersion /\ c.page.threw = b.page.threw
             /\ c.page.to = b.page.to
             /\ c.page.hidden = (IF FromLocal(b)
                                 THEN b.page.hidden \cup ({"mergeAccountMessage"}
                                                            \cap Elements(b.page.q))
                                 ELSE b.page.hidden)
<1> DEFINE c == getValueFromSession(b, "version")
           d == IF b.page.q.mergeaccountprocess # None THEN [c EXCEPT !.local = EmptyLocal] ELSE c
<1>1. /\ Unmoved(b, c) /\ c.page = b.page /\ c.session_url = b.session_url
      /\ c.local = b.local
  BY LookUp DEF Items
<1> HIDE DEF c
<1>2. /\ Shaped(d) /\ Unmoved(b, d) /\ d.session = c.session /\ d.session_url = b.session_url
      /\ d.page = b.page
      /\ d.local = (IF b.page.q.mergeaccountprocess # None THEN EmptyLocal ELSE b.local)
  BY <1>1 DEF Shaped, Unmoved
<1> HIDE DEF d
<1>3. CASE FromLocal(b)
  <2>1. OnlyShows(d, hideElement(d, {"mergeAccountMessage"}))
    BY <1>2, Hides
  <2>2. hideElement(d, {"mergeAccountMessage"}).page.hidden
          = b.page.hidden \cup ({"mergeAccountMessage"} \cap Elements(b.page.q))
    BY <1>2, Hides
  <2>3. Cleared(b) = hideElement(d, {"mergeAccountMessage"})
    BY <1>3 DEF Cleared, c, d
  <2> QED BY <1>2, <1>3, <2>1, <2>2, <2>3, UnmovedTwice DEF OnlyShows, c
<1>4. CASE ~FromLocal(b)
  <2>1. Cleared(b) = d
    BY <1>4 DEF Cleared, c, d
  <2> QED BY <1>2, <1>4, <2>1 DEF c
<1> QED BY <1>3, <1>4

(* The elements a version and a message uncover. *)
Uncovered(q, version) ==
  (IF AtLeast(version, 1) THEN {"selfSingUp"} ELSE {})
    \cup (IF AtLeast(version, 2) THEN {"stateButton"} ELSE {})
    \cup (IF q.message # None THEN {q.message} ELSE {})

LEMMA VersionAdded ==
  ASSUME NEW b, Shaped(b), NEW version
  PROVE  LET c == toggleGoogleSignInBtn(addVersionToURL(b, version))
         IN  /\ OnlyShows(b, c)
             /\ \A e : e # "googleSignInBtn" =>
                  (e \in c.page.hidden <=>
                     /\ e \in b.page.hidden
                     /\ ~(AtLeast(version, 1) /\ e = "selfSingUp")
                     /\ ~(AtLeast(version, 2) /\ e = "stateButton"))
             /\ b.page.hidden \subseteq Elements(b.page.q)
                  => c.page.hidden \subseteq Elements(b.page.q)
<1> DEFINE c == IF AtLeast(version, 1) THEN unHideElement(b, {"selfSingUp"}) ELSE b
           d == IF AtLeast(version, 2) THEN unHideElement(c, {"stateButton"}) ELSE c
<1>1. /\ OnlyShows(b, c)
      /\ c.page.hidden = (IF AtLeast(version, 1) THEN b.page.hidden \ {"selfSingUp"}
                          ELSE b.page.hidden)
  BY Unhides, ShapedShows
<1>2. Shaped(c)
  BY <1>1 DEF OnlyShows, Unmoved
<1> HIDE DEF c
<1>3. /\ OnlyShows(c, d)
      /\ d.page.hidden = (IF AtLeast(version, 2) THEN c.page.hidden \ {"stateButton"}
                          ELSE c.page.hidden)
  BY <1>2, Unhides, ShapedShows
<1>4. d = addVersionToURL(b, version)
  BY DEF addVersionToURL, c, d
<1> HIDE DEF d
<1>5. OnlyShows(b, d) /\ Shaped(d) /\ d.page.q = b.page.q
  BY <1>1, <1>3, ShowsTwice DEF OnlyShows, Unmoved
<1> DEFINE t == toggleGoogleSignInBtn(d)
<1>6. /\ OnlyShows(d, t)
      /\ \/ t.page.hidden = d.page.hidden
         \/ t.page.hidden = d.page.hidden \cup ({"googleSignInBtn"} \cap Elements(b.page.q))
  BY <1>5, Hides, ShapedShows DEF toggleGoogleSignInBtn
<1> HIDE DEF t
<1>7. OnlyShows(b, t)
  BY <1>5, <1>6, ShowsTwice
<1>8. \A e : e # "googleSignInBtn" =>
                  (e \in t.page.hidden <=>
                     /\ e \in b.page.hidden
                     /\ ~(AtLeast(version, 1) /\ e = "selfSingUp")
                     /\ ~(AtLeast(version, 2) /\ e = "stateButton"))
  BY <1>1, <1>3, <1>6
<1>9. b.page.hidden \subseteq Elements(b.page.q) => t.page.hidden \subseteq Elements(b.page.q)
  BY <1>1, <1>3, <1>6
<1>10. t = toggleGoogleSignInBtn(addVersionToURL(b, version))
  BY <1>4 DEF t
<1> QED BY <1>7, <1>8, <1>9, <1>10

LEMMA MessageShown ==
  ASSUME NEW b, Shaped(b), b.page.threw = FALSE
  PROVE  LET c == ShowMessage(b)
             q == b.page.q
         IN  /\ Unmoved(b, c)
             /\ c.session = b.session /\ c.session_url = b.session_url /\ c.local = b.local
             /\ c.page.signIn = b.page.signIn /\ c.page.goBack = b.page.goBack
             /\ c.page.forgotVersion = b.page.forgotVersion /\ c.page.to = b.page.to
             /\ c.page.threw \in BOOLEAN /\ (c.page.threw <=> Unshown(q))
             /\ \/ c.page.hidden = b.page.hidden \ {q.message} /\ q.message # None
                \/ c.page.hidden = b.page.hidden /\ (q.message = None \/ Unshown(q))
<1> DEFINE q == b.page.q
           m == b.page.q.message
<1>1. CASE m = None
  <2>1. ShowMessage(b) = b
    BY <1>1 DEF ShowMessage
  <2>2. ~Unshown(q)
    BY <1>1 DEF Unshown
  <2> QED BY <1>1, <2>1, <2>2, ShapedShows
<1>2. CASE m # None /\ m \in Elements(q)
  <2>1. ShowMessage(b) = unHideElement(b, {m})
    BY <1>2 DEF ShowMessage, Has
  <2>2. ~Unshown(q)
    BY <1>2 DEF Unshown
  <2>3. /\ OnlyShows(b, ShowMessage(b))
        /\ ShowMessage(b).page.hidden = b.page.hidden \ {m}
    BY <2>1, Unhides
  <2> QED BY <1>2, <2>2, <2>3 DEF OnlyShows
<1>3. CASE m # None /\ m \notin Elements(q)
  <2>1. ShowMessage(b) = [b EXCEPT !.page.threw = TRUE]
    BY <1>3 DEF ShowMessage, Has, Throw
  <2>2. Unshown(q)
    BY <1>3 DEF Unshown
  <2>3. ShowMessage(b).page.hidden = b.page.hidden /\ ShowMessage(b).page.threw = TRUE
    BY <2>1 DEF Shaped, PageFields
  <2>4. /\ Unmoved(b, ShowMessage(b))
        /\ ShowMessage(b).session = b.session /\ ShowMessage(b).session_url = b.session_url
        /\ ShowMessage(b).local = b.local /\ ShowMessage(b).page.signIn = b.page.signIn
        /\ ShowMessage(b).page.goBack = b.page.goBack
        /\ ShowMessage(b).page.forgotVersion = b.page.forgotVersion
        /\ ShowMessage(b).page.to = b.page.to
    BY <2>1 DEF Unmoved, Shaped, PageFields
  <2> QED BY <2>2, <2>3, <2>4
<1> QED BY <1>1, <1>2, <1>3

LEMMA MessagedIs ==
  ASSUME NEW b, Shaped(b), b.page.threw = FALSE,
         b.page.hidden \subseteq Elements(b.page.q),
         "mergeAccountMessage" \in Elements(b.page.q) => "mergeAccountMessage" \in b.page.hidden
  PROVE  LET c == Messaged(b)
             q == b.page.q
         IN  /\ Unmoved(b, c)
             /\ c.session = getValueFromSession(b, "version").session
             /\ c.session_url = b.session_url
             /\ c.local = (IF q.mergeaccountprocess # None THEN EmptyLocal ELSE b.local)
             /\ c.page.signIn = b.page.signIn /\ c.page.goBack = b.page.goBack
             /\ c.page.forgotVersion = b.page.forgotVersion /\ c.page.to = b.page.to
             /\ c.page.threw \in BOOLEAN /\ (c.page.threw <=> Unshown(q))
             /\ c.page.hidden \subseteq Elements(q)
             /\ \A e : e # "googleSignInBtn" =>
                  (e \in c.page.hidden <=>
                     e \in b.page.hidden /\ e \notin Uncovered(q, VersionOf(b)))
<1> DEFINE c == Cleared(b)
           t == toggleGoogleSignInBtn(addVersionToURL(c, VersionOf(b)))
           m == ShowMessage(t)
           q == b.page.q
<1>1. /\ Unmoved(b, c) /\ Shaped(c)
      /\ c.session = getValueFromSession(b, "version").session
      /\ c.session_url = b.session_url
      /\ c.local = (IF q.mergeaccountprocess # None THEN EmptyLocal ELSE b.local)
      /\ c.page.signIn = b.page.signIn /\ c.page.goBack = b.page.goBack
      /\ c.page.forgotVersion = b.page.forgotVersion /\ c.page.threw = FALSE
      /\ c.page.to = b.page.to /\ c.page.q = q
      /\ c.page.hidden = b.page.hidden
  BY ClearedIs DEF Unmoved
<1> HIDE DEF c
<1>2. /\ OnlyShows(c, t) /\ Shaped(t) /\ t.page.q = b.page.q
      /\ \A e : e # "googleSignInBtn" =>
                  (e \in t.page.hidden <=>
                     /\ e \in b.page.hidden
                     /\ ~(AtLeast(VersionOf(b), 1) /\ e = "selfSingUp")
                     /\ ~(AtLeast(VersionOf(b), 2) /\ e = "stateButton"))
      /\ t.page.hidden \subseteq Elements(q)
  <2>1. OnlyShows(c, t) /\ Shaped(t) /\ t.page.q = q
    BY <1>1, VersionAdded DEF OnlyShows, Unmoved
  <2> QED BY <1>1, <2>1, VersionAdded
<1> HIDE DEF t
<1>3. t.page.threw = FALSE
  BY <1>1, <1>2 DEF OnlyShows
<1>4. /\ Unmoved(t, m)
      /\ m.session = t.session /\ m.session_url = t.session_url /\ m.local = t.local
      /\ m.page.signIn = t.page.signIn /\ m.page.goBack = t.page.goBack
      /\ m.page.forgotVersion = t.page.forgotVersion /\ m.page.to = t.page.to
      /\ m.page.threw \in BOOLEAN /\ (m.page.threw <=> Unshown(t.page.q))
      /\ \/ m.page.hidden = t.page.hidden \ {t.page.q.message} /\ t.page.q.message # None
         \/ m.page.hidden = t.page.hidden /\ (t.page.q.message = None \/ Unshown(t.page.q))
  BY <1>2, <1>3, MessageShown
<1>5. m = Messaged(b)
  BY DEF Messaged, c, t
<1> HIDE DEF m
<1>6. Unmoved(b, m)
  BY <1>1, <1>2, <1>4, UnmovedTwice DEF OnlyShows
<1>7. m.page.hidden \subseteq Elements(q)
  BY <1>2, <1>4
<1>8. ASSUME NEW e, e # "googleSignInBtn"
      PROVE  e \in m.page.hidden <=> e \in b.page.hidden /\ e \notin Uncovered(q, VersionOf(b))
  <2>1. e \in m.page.hidden <=> e \in t.page.hidden /\ ~(q.message # None /\ e = q.message)
    <3>1. CASE m.page.hidden = t.page.hidden \ {q.message} /\ q.message # None
      BY <3>1
    <3>2. CASE m.page.hidden = t.page.hidden /\ q.message = None
      BY <3>2
    <3>3. CASE m.page.hidden = t.page.hidden /\ Unshown(q)
      BY <1>2, <3>3 DEF Unshown
    <3> QED BY <1>2, <1>4, <3>1, <3>2, <3>3
  <2> QED BY <1>2, <1>8, <2>1 DEF Uncovered
<1> QED BY <1>1, <1>2, <1>4, <1>5, <1>6, <1>7, <1>8 DEF OnlyShows

(* The two ways to a new password. *)
LEMMA ForgotIs ==
  ASSUME NEW b, Shaped(b), NEW version
  PROVE  LET c == ShowForgot(b, version)
             q == b.page.q
         IN  /\ Unmoved(b, c)
             /\ c.session = b.session /\ c.session_url = b.session_url /\ c.local = b.local
             /\ c.page.signIn = b.page.signIn /\ c.page.goBack = b.page.goBack
             /\ c.page.threw = b.page.threw /\ c.page.to = b.page.to
             /\ c.page.forgotVersion =
                  (IF AtLeast(version, 4) \/ "fgtKeycloakFlow" \notin Elements(q)
                   THEN b.page.forgotVersion ELSE Stored(version))
             /\ b.page.hidden \subseteq Elements(q)
                  => c.page.hidden = b.page.hidden \ (IF AtLeast(version, 4)
                                                      THEN {"fgtPortalFlow"}
                                                      ELSE {"fgtKeycloakFlow"})
<1>1. CASE AtLeast(version, 4)
  BY <1>1, Unhides DEF ShowForgot, OnlyShows
<1>2. CASE ~AtLeast(version, 4) /\ "fgtKeycloakFlow" \notin Elements(b.page.q)
  BY <1>2, ShapedShows DEF ShowForgot, Has
<1>3. CASE ~AtLeast(version, 4) /\ "fgtKeycloakFlow" \in Elements(b.page.q)
  <2> DEFINE d == unHideElement(b, {"fgtKeycloakFlow"})
  <2>1. OnlyShows(b, d) /\ Shaped(d) /\ d.page.hidden = b.page.hidden \ {"fgtKeycloakFlow"}
    BY Unhides DEF OnlyShows, Unmoved
  <2>2. ShowForgot(b, version) = [d EXCEPT !.page.forgotVersion = Stored(version)]
    BY <1>3 DEF ShowForgot, Has
  <2> HIDE DEF d
  <2> QED BY <1>3, <2>1, <2>2 DEF OnlyShows, Unmoved, Shaped, PageFields
<1> QED BY <1>1, <1>2, <1>3

Four == {"kc-registration", "stateButton", "fgtKeycloakFlow", "fgtPortalFlow"}
Labels == {"usernameLabel", "usernameLabelPlaceholder", "username"}

LEMMA ElementsAre ==
  ASSUME NEW q \in Requests
  PROVE  /\ q.form = "login" =>
              {"mergeAccountMessage", "migrateAccountMessage", "success-msg", "error-msg",
               "inCorrectPasswordError", "selfSingUp", "goBack", "signIn"} \cup Four \cup Labels
                \subseteq Elements(q)
         /\ q.form # "login" => Elements(q) \subseteq Labels
         /\ q.form # "login" <=> "goBack" \notin Elements(q)
<1>1. q.form \in {"login", "reset", "update"}
  BY RequestsAssumption
<1>2. CASE q.form = "login"
  BY <1>2 DEF Elements, Four, Labels
<1>3. CASE q.form = "reset"
  BY <1>3 DEF Elements, Four, Labels
<1>4. CASE q.form = "update"
  BY <1>4 DEF Elements, Four, Labels
<1> QED BY <1>1, <1>2, <1>3, <1>4

LEMMA LabelIs ==
  ASSUME NEW b, Shaped(b)
  PROVE  LET c == SetLabel(b)
         IN  /\ Unmoved(b, c)
             /\ c.session = b.session /\ c.session_url = b.session_url /\ c.local = b.local
             /\ c.page.signIn = (IF "signIn" \in Elements(b.page.q) THEN "merge"
                                 ELSE b.page.signIn)
             /\ c.page.goBack = b.page.goBack
             /\ c.page.forgotVersion = b.page.forgotVersion
             /\ c.page.threw = b.page.threw /\ c.page.to = b.page.to
             /\ c.page.hidden = b.page.hidden
<1>1. CASE "signIn" \in Elements(b.page.q)
  BY <1>1 DEF SetLabel, Has, Unmoved, Shaped, PageFields
<1>2. CASE "signIn" \notin Elements(b.page.q)
  BY <1>2, ShapedShows DEF SetLabel, Has
<1> QED BY <1>1, <1>2

(* A page that merges accounts. *)
MergeRecord(q, merge, version) ==
  [mergeaccountprocess |-> merge, version |-> Stored(version), redirectUrl |-> Stored(q.goBackUrl)]

LEMMA MergeIs ==
  ASSUME NEW b, Shaped(b), b.page.threw = FALSE, NEW a,
         b.page.q \in Requests, b.page.hidden \subseteq Elements(b.page.q)
  PROVE  LET c == MergeAccount(b, "1", VersionOf(a), FromLocal(a))
             q == b.page.q
             linked == "goBack" \in Elements(q)
         IN  /\ Unmoved(b, c)
             /\ c.session = b.session /\ c.session_url = b.session_url
             /\ c.page.to = b.page.to /\ c.page.forgotVersion = b.page.forgotVersion
             /\ c.page.threw \in BOOLEAN /\ (c.page.threw = TRUE <=> ~linked)
             /\ c.local = (IF linked /\ ~FromLocal(a) THEN MergeRecord(q, "1", VersionOf(a)) ELSE b.local)
             /\ c.page.signIn = (IF "signIn" \in Elements(q) THEN "merge" ELSE b.page.signIn)
             /\ c.page.goBack = (IF ~linked THEN b.page.goBack
                                 ELSE IF FromLocal(a) THEN b.local.redirectUrl ELSE q.goBackUrl)
             /\ c.page.hidden =
                  ((b.page.hidden \cup (Four \cap Elements(q))) \ {"goBack"})
                    \ (IF ~FromLocal(a) THEN {"mergeAccountMessage"} ELSE {})
<1> DEFINE q == b.page.q
           h == hideElement(b, Four)
           l == SetLabel(h)
           c == unHideElement(l, {"goBack"})
<1>1. /\ OnlyShows(b, h) /\ Shaped(h) /\ h.page.q = b.page.q
      /\ h.page.hidden = b.page.hidden \cup (Four \cap Elements(b.page.q))
  BY Hides DEF OnlyShows, Unmoved
<1>2. c = unHideElement(SetLabel(hideElement(b,
                 {"kc-registration", "stateButton", "fgtKeycloakFlow", "fgtPortalFlow"})),
                 {"goBack"})
  BY DEF c, l, h, Four
<1> HIDE DEF h
<1>3. /\ Unmoved(h, l) /\ Shaped(l) /\ l.page.q = b.page.q
      /\ l.session = h.session /\ l.session_url = h.session_url /\ l.local = h.local
      /\ l.page.signIn = (IF "signIn" \in Elements(b.page.q) THEN "merge" ELSE h.page.signIn)
      /\ l.page.goBack = h.page.goBack
      /\ l.page.forgotVersion = h.page.forgotVersion
      /\ l.page.threw = h.page.threw /\ l.page.to = h.page.to
      /\ l.page.hidden = h.page.hidden
  BY <1>1, LabelIs DEF Unmoved
<1> HIDE DEF l
<1>4. OnlyShows(l, c) /\ c.page.hidden = l.page.hidden \ {"goBack"}
  BY <1>3, Unhides
<1> HIDE DEF c
<1>5. /\ Unmoved(b, c) /\ Shaped(c) /\ c.page.q = b.page.q
      /\ c.session = b.session /\ c.session_url = b.session_url /\ c.local = b.local
      /\ c.page.signIn = (IF "signIn" \in Elements(b.page.q) THEN "merge" ELSE b.page.signIn)
      /\ c.page.goBack = b.page.goBack /\ c.page.threw = FALSE
      /\ c.page.forgotVersion = b.page.forgotVersion /\ c.page.to = b.page.to
      /\ c.page.hidden = (b.page.hidden \cup (Four \cap Elements(b.page.q))) \ {"goBack"}
  <2>1. Unmoved(b, c)
    BY <1>1, <1>3, <1>4, UnmovedTwice DEF OnlyShows
  <2> QED BY <1>1, <1>3, <1>4, <2>1 DEF OnlyShows, Unmoved
<1>6. CASE "goBack" \notin Elements(b.page.q)
  <2>1. MergeAccount(b, "1", VersionOf(a), FromLocal(a)) = [c EXCEPT !.page.threw = TRUE]
    BY <1>2, <1>6 DEF MergeAccount, Has, Throw
  <2>2. b.page.q.form # "login" /\ "mergeAccountMessage" \notin Elements(b.page.q)
    BY <1>6, ElementsAre DEF Labels
  <2>3. "mergeAccountMessage" \notin c.page.hidden
    BY <1>5, <2>2
  <2>4. Unmoved(b, [c EXCEPT !.page.threw = TRUE])
    BY <1>5 DEF Unmoved, Shaped, PageFields
  <2>5. /\ [c EXCEPT !.page.threw = TRUE].page.hidden = c.page.hidden
        /\ [c EXCEPT !.page.threw = TRUE].page.threw = TRUE
        /\ [c EXCEPT !.page.threw = TRUE].session = c.session
        /\ [c EXCEPT !.page.threw = TRUE].session_url = c.session_url
        /\ [c EXCEPT !.page.threw = TRUE].local = c.local
        /\ [c EXCEPT !.page.threw = TRUE].page.to = c.page.to
        /\ [c EXCEPT !.page.threw = TRUE].page.signIn = c.page.signIn
        /\ [c EXCEPT !.page.threw = TRUE].page.goBack = c.page.goBack
        /\ [c EXCEPT !.page.threw = TRUE].page.forgotVersion = c.page.forgotVersion
    BY <1>5 DEF Shaped, PageFields
  <2> QED BY <1>5, <1>6, <2>1, <2>3, <2>4, <2>5
<1>7. CASE "goBack" \in Elements(b.page.q) /\ FromLocal(a)
  <2> DEFINE d == [c EXCEPT !.page.goBack = b.local.redirectUrl]
  <2>1. MergeAccount(b, "1", VersionOf(a), FromLocal(a)) = d
    BY <1>2, <1>7 DEF MergeAccount, Has
  <2>2. /\ Unmoved(b, d) /\ d.session = c.session /\ d.session_url = c.session_url
        /\ d.local = c.local /\ d.page.to = c.page.to /\ d.page.signIn = c.page.signIn
        /\ d.page.forgotVersion = c.page.forgotVersion /\ d.page.hidden = c.page.hidden
        /\ d.page.goBack = b.local.redirectUrl /\ d.page.threw = FALSE
    BY <1>5 DEF Unmoved, Shaped, PageFields
  <2> HIDE DEF d
  <2> QED BY <1>5, <1>7, <2>1, <2>2
<1>8. CASE "goBack" \in Elements(b.page.q) /\ ~FromLocal(a)
  <2> DEFINE d == [c EXCEPT !.page.goBack = b.page.q.goBackUrl,
                            !.local = MergeRecord(b.page.q, "1", VersionOf(a))]
             e == unHideElement(d, {"mergeAccountMessage"})
  <2>1. MergeAccount(b, "1", VersionOf(a), FromLocal(a)) = e
    BY <1>2, <1>8 DEF MergeAccount, Has, MergeRecord
  <2>2. /\ Unmoved(b, d) /\ Shaped(d) /\ d.session = c.session /\ d.session_url = c.session_url
        /\ d.local = MergeRecord(b.page.q, "1", VersionOf(a))
        /\ d.page.to = c.page.to /\ d.page.signIn = c.page.signIn
        /\ d.page.forgotVersion = c.page.forgotVersion /\ d.page.hidden = c.page.hidden
        /\ d.page.goBack = b.page.q.goBackUrl /\ d.page.threw = FALSE
    BY <1>5 DEF Unmoved, Shaped, PageFields
  <2> HIDE DEF d
  <2>3. OnlyShows(d, e) /\ e.page.hidden = d.page.hidden \ {"mergeAccountMessage"}
    BY <2>2, Unhides
  <2> HIDE DEF e
  <2>4. Unmoved(b, e)
    BY <2>2, <2>3, UnmovedTwice DEF OnlyShows
  <2> QED BY <1>5, <1>8, <2>1, <2>2, <2>3, <2>4 DEF OnlyShows
<1> QED BY <1>6, <1>7, <1>8

LEMMA NoMergeIs ==
  ASSUME NEW b, NEW merge, merge # "1", NEW version, NEW fromLocal
  PROVE  MergeAccount(b, merge, version, fromLocal) = b
  BY DEF MergeAccount

Merges(b) == MergeOf(b) = "1" /\ ~Unshown(b.page.q)
Ends(b)   == Unshown(b.page.q) \/ (Merges(b) /\ "goBack" \notin Elements(b.page.q))

(* What a page that is to be loaded hides. *)
Fresh(b) ==
  /\ Shaped(b) /\ b.page.q \in Requests /\ b.page.threw = FALSE /\ b.page.signIn = "login"
  /\ b.page.hidden \subseteq Elements(b.page.q)
  /\ "mergeAccountMessage" \in Elements(b.page.q) => "mergeAccountMessage" \in b.page.hidden

Forgot(version) == IF AtLeast(version, 4) THEN "fgtPortalFlow" ELSE "fgtKeycloakFlow"

LEMMA MergedIs ==
  ASSUME NEW b, Fresh(b)
  PROVE  LET c == Merged(b)
             q == b.page.q
         IN  /\ Unmoved(b, c)
             /\ c.session = getValueFromSession(b, "version").session
             /\ c.session_url = b.session_url /\ c.page.to = b.page.to
             /\ c.page.threw \in BOOLEAN /\ (c.page.threw = TRUE <=> Ends(b))
             /\ c.local = (IF q.mergeaccountprocess = None THEN b.local
                           ELSE IF Merges(b) /\ ~Ends(b)
                                THEN MergeRecord(q, "1", VersionOf(b)) ELSE EmptyLocal)
             /\ c.page.signIn = (IF Merges(b) /\ "signIn" \in Elements(q) THEN "merge"
                                 ELSE b.page.signIn)
             /\ c.page.goBack = (IF ~Merges(b) \/ "goBack" \notin Elements(q) THEN b.page.goBack
                                 ELSE IF FromLocal(b) THEN b.local.redirectUrl ELSE q.goBackUrl)
             /\ c.page.forgotVersion =
                  (IF Unshown(q) \/ AtLeast(VersionOf(b), 4)
                        \/ "fgtKeycloakFlow" \notin Elements(q)
                   THEN b.page.forgotVersion ELSE Stored(VersionOf(b)))
             /\ c.page.hidden \subseteq Elements(q)
             /\ \A e : e # "googleSignInBtn" =>
                  (e \in c.page.hidden <=>
                     \/ /\ e \in b.page.hidden /\ e \notin Uncovered(q, VersionOf(b))
                        /\ ~Unshown(q) => e # Forgot(VersionOf(b))
                        /\ Merges(b) => e # "goBack"
                        /\ Merges(b) /\ ~FromLocal(b) => e # "mergeAccountMessage"
                     \/ Merges(b) /\ e \in Four \cap Elements(q))
<1> DEFINE m == Messaged(b)
           f == ShowForgot(m, VersionOf(b))
           q == b.page.q
           c == Merged(b)
<1>1. /\ Unmoved(b, m) /\ Shaped(m) /\ m.page.q = b.page.q
      /\ m.session = getValueFromSession(b, "version").session
      /\ m.session_url = b.session_url
      /\ m.local = (IF q.mergeaccountprocess # None THEN EmptyLocal ELSE b.local)
      /\ m.page.signIn = b.page.signIn /\ m.page.goBack = b.page.goBack
      /\ m.page.forgotVersion = b.page.forgotVersion /\ m.page.to = b.page.to
      /\ m.page.threw \in BOOLEAN /\ (m.page.threw = TRUE <=> Unshown(q))
      /\ m.page.hidden \subseteq Elements(q)
      /\ \A e : e # "googleSignInBtn" =>
            (e \in m.page.hidden <=> e \in b.page.hidden /\ e \notin Uncovered(q, VersionOf(b)))
  BY MessagedIs DEF Fresh, Unmoved
<1>2. c = Unless(m, MergeAccount(f, MergeOf(b), VersionOf(b), FromLocal(b)))
  BY DEF Merged
<1>0. c = Merged(b)
  OBVIOUS
<1> HIDE DEF m, c
<1>3. /\ Unmoved(m, f) /\ Shaped(f) /\ f.page.q = b.page.q
      /\ f.session = m.session /\ f.session_url = m.session_url /\ f.local = m.local
      /\ f.page.signIn = m.page.signIn /\ f.page.goBack = m.page.goBack
      /\ f.page.threw = m.page.threw /\ f.page.to = m.page.to
      /\ f.page.forgotVersion =
                  (IF AtLeast(VersionOf(b), 4) \/ "fgtKeycloakFlow" \notin Elements(q)
                   THEN m.page.forgotVersion ELSE Stored(VersionOf(b)))
      /\ f.page.hidden = m.page.hidden \ {Forgot(VersionOf(b))}
  <2>1. Unmoved(m, f) /\ f.page.q = b.page.q /\ Shaped(f)
    BY <1>1, ForgotIs DEF Unmoved
  <2>2. /\ f.session = m.session /\ f.session_url = m.session_url /\ f.local = m.local
        /\ f.page.signIn = m.page.signIn /\ f.page.goBack = m.page.goBack
        /\ f.page.threw = m.page.threw /\ f.page.to = m.page.to
        /\ f.page.forgotVersion =
                  (IF AtLeast(VersionOf(b), 4) \/ "fgtKeycloakFlow" \notin Elements(q)
                   THEN m.page.forgotVersion ELSE Stored(VersionOf(b)))
    BY <1>1, ForgotIs
  <2>3. f.page.hidden = m.page.hidden \ (IF AtLeast(VersionOf(b), 4)
                                         THEN {"fgtPortalFlow"} ELSE {"fgtKeycloakFlow"})
    BY <1>1, ForgotIs
  <2> QED BY <2>1, <2>2, <2>3 DEF Forgot
<1> HIDE DEF f
<1>4. CASE Unshown(q)
  <2>1. c = m
    BY <1>1, <1>2, <1>4 DEF Unless
  <2>2. ~Merges(b) /\ Ends(b)
    BY <1>4 DEF Merges, Ends
  <2> QED BY <1>0, <1>1, <1>4, <2>1, <2>2
<1>5. CASE ~Unshown(q) /\ MergeOf(b) # "1"
  <2>1. c = f
    BY <1>1, <1>2, <1>5, NoMergeIs DEF Unless
  <2>2. ~Merges(b) /\ ~Ends(b)
    BY <1>5 DEF Merges, Ends
  <2>3. Unmoved(b, c)
    BY <1>1, <1>3, <2>1, UnmovedTwice
  <2>4. c.page.hidden = m.page.hidden \ {Forgot(VersionOf(b))}
    BY <1>3, <2>1
  <2>5. c.page.hidden \subseteq Elements(q)
    BY <1>1, <2>4
  <2>6. ASSUME NEW e, e # "googleSignInBtn"
        PROVE  e \in c.page.hidden <=> /\ e \in b.page.hidden
                                       /\ e \notin Uncovered(q, VersionOf(b))
                                       /\ e # Forgot(VersionOf(b))
    BY <1>1, <2>4, <2>6
  <2> QED BY <1>0, <1>1, <1>3, <1>5, <2>1, <2>2, <2>3, <2>5, <2>6
<1>6. CASE ~Unshown(q) /\ MergeOf(b) = "1"
  <2>1. c = MergeAccount(f, "1", VersionOf(b), FromLocal(b))
    BY <1>1, <1>2, <1>6 DEF Unless
  <2>2. Merges(b) /\ (Ends(b) <=> "goBack" \notin Elements(q))
    BY <1>6 DEF Merges, Ends
  <2>3. /\ f.page.threw = FALSE /\ f.page.q \in Requests
        /\ f.page.hidden \subseteq Elements(f.page.q)
    BY <1>1, <1>3, <1>6 DEF Fresh
  <2> DEFINE linked == "goBack" \in Elements(q)
  <2>4. /\ Unmoved(f, c)
        /\ c.session = f.session /\ c.session_url = f.session_url
        /\ c.page.to = f.page.to /\ c.page.forgotVersion = f.page.forgotVersion
        /\ c.page.threw \in BOOLEAN /\ (c.page.threw = TRUE <=> ~linked)
        /\ c.local = (IF linked /\ ~FromLocal(b) THEN MergeRecord(q, "1", VersionOf(b))
                      ELSE f.local)
        /\ c.page.signIn = (IF "signIn" \in Elements(q) THEN "merge" ELSE f.page.signIn)
        /\ c.page.goBack = (IF ~linked THEN f.page.goBack
                            ELSE IF FromLocal(b) THEN f.local.redirectUrl ELSE q.goBackUrl)
        /\ c.page.hidden =
             ((f.page.hidden \cup (Four \cap Elements(q))) \ {"goBack"})
               \ (IF ~FromLocal(b) THEN {"mergeAccountMessage"} ELSE {})
    <3>1. /\ Unmoved(f, c)
          /\ c.session = f.session /\ c.session_url = f.session_url
          /\ c.page.to = f.page.to /\ c.page.forgotVersion = f.page.forgotVersion
      BY <1>3, <2>1, <2>3, MergeIs
    <3>2. c.page.threw \in BOOLEAN /\ (c.page.threw = TRUE <=> "goBack" \notin Elements(f.page.q))
      BY <1>3, <2>1, <2>3, MergeIs
    <3>3. /\ c.local = (IF "goBack" \in Elements(f.page.q) /\ ~FromLocal(b)
                        THEN MergeRecord(f.page.q, "1", VersionOf(b)) ELSE f.local)
          /\ c.page.signIn = (IF "signIn" \in Elements(f.page.q) THEN "merge"
                              ELSE f.page.signIn)
          /\ c.page.goBack = (IF "goBack" \notin Elements(f.page.q) THEN f.page.goBack
                            ELSE IF FromLocal(b) THEN f.local.redirectUrl
                            ELSE f.page.q.goBackUrl)
      BY <1>3, <2>1, <2>3, MergeIs
    <3>4. c.page.hidden =
             ((f.page.hidden \cup (Four \cap Elements(f.page.q))) \ {"goBack"})
               \ (IF ~FromLocal(b) THEN {"mergeAccountMessage"} ELSE {})
      BY <1>3, <2>1, <2>3, MergeIs
    <3> QED BY <1>3, <3>1, <3>2, <3>3, <3>4
  <2>5. Unmoved(b, c)
    BY <1>1, <1>3, <2>4, UnmovedTwice
  <2>6. c.page.hidden \subseteq Elements(q)
    BY <1>1, <1>3, <2>4
  <2>7. ASSUME NEW e, e # "googleSignInBtn"
        PROVE  e \in c.page.hidden <=>
                 \/ /\ e \in b.page.hidden /\ e \notin Uncovered(q, VersionOf(b))
                    /\ e # Forgot(VersionOf(b)) /\ e # "goBack"
                    /\ ~FromLocal(b) => e # "mergeAccountMessage"
                 \/ e \in Four \cap Elements(q)
    <3>1. e \in f.page.hidden <=> /\ e \in b.page.hidden
                                  /\ e \notin Uncovered(q, VersionOf(b))
                                  /\ e # Forgot(VersionOf(b))
      BY <1>1, <1>3, <2>7
    <3>2. e \in Four => e # "goBack" /\ e # "mergeAccountMessage"
      BY DEF Four
    <3> QED BY <2>4, <3>1, <3>2
  <2>8. c.local = (IF q.mergeaccountprocess = None THEN b.local
                   ELSE IF linked THEN MergeRecord(q, "1", VersionOf(b)) ELSE EmptyLocal)
    BY <1>1, <1>3, <1>6, <2>4 DEF FromLocal
  <2>9. FromLocal(b) => f.local = b.local
    BY <1>1, <1>3 DEF FromLocal
  <2> QED BY <1>0, <1>1, <1>3, <1>6, <2>2, <2>4, <2>5, <2>6, <2>7, <2>8, <2>9
<1> QED BY <1>4, <1>5, <1>6

(* Where decoratePage last found a value, after the lookups of AutoMerge. *)
RenderedFrom(b, k, before) ==
  IF b.page.q[k] # None THEN "queryParams"
  ELSE IF b.session[k] # None THEN "sessionStorage" ELSE before

Rendered(b) ==
  LET auto  == RenderedFrom(b, "automerge", b.session.renderingType)
      first == IF b.page.q.automerge # None THEN RenderedFrom(b, "redirect_uri", auto) ELSE auto
  IN  RenderedFrom(b, "goBackUrl", RenderedFrom(b, "identifierValue", first))

Kept(b)         == Rendered(b) = "sessionStorage"
Wrong(b, error) == Kept(b) /\ error = "wrong"

(* A page that merges automatically looks up what it shows. *)
LEMMA MigrationLookUps ==
  ASSUME NEW b, Shaped(b)
  PROVE  LET c == getValueFromSession(b, "automerge")
             d == IF b.page.q.automerge # None
                  THEN initialize([c EXCEPT !.session_url = None]) ELSE c
             e == getValueFromSession(getValueFromSession(d, "identifierValue"), "goBackUrl")
         IN  /\ Unmoved(b, e) /\ e.page = b.page /\ e.local = b.local
             /\ e.session_url = (IF b.page.q.automerge # None THEN b.page.q ELSE b.session_url)
             /\ e.session.version = b.session.version
             /\ e.session.passwordFailCount = b.session.passwordFailCount
             /\ e.session.redirect_uri = (IF b.page.q.automerge # None
                                          THEN Value(b, "redirect_uri")
                                          ELSE b.session.redirect_uri)
             /\ \A k \in {"automerge", "identifierValue", "goBackUrl"} :
                    e.session[k] = Value(b, k)
             /\ e.session.renderingType = Rendered(b)
<1> DEFINE c == getValueFromSession(b, "automerge")
           i == [c EXCEPT !.session_url = None]
           r == getValueFromSession(i, "redirect_uri")
           d == IF b.page.q.automerge # None THEN initialize(i) ELSE c
           f == getValueFromSession(d, "identifierValue")
           e == getValueFromSession(f, "goBackUrl")
<1>1. /\ Unmoved(b, c) /\ Shaped(c)
      /\ c.session["automerge"] = Value(b, "automerge")
      /\ \A k \in SessionItems \ {"automerge", "renderingType"} : c.session[k] = b.session[k]
      /\ c.session.renderingType = RenderedFrom(b, "automerge", b.session.renderingType)
      /\ c.session_url = b.session_url /\ c.local = b.local /\ c.page = b.page
  BY LookUp DEF Items, RenderedFrom, Unmoved
<1> HIDE DEF c
<1>2. /\ Unmoved(b, i) /\ Shaped(i) /\ i.session = c.session /\ i.session_url = None
      /\ i.local = b.local /\ i.page = b.page
  BY <1>1 DEF Unmoved, Shaped
<1> HIDE DEF i
<1>3. /\ Unmoved(i, r) /\ Shaped(r)
      /\ r.session["redirect_uri"] = Value(i, "redirect_uri")
      /\ \A k \in SessionItems \ {"redirect_uri", "renderingType"} :
            r.session[k] = i.session[k]
      /\ r.session.renderingType = RenderedFrom(i, "redirect_uri", i.session.renderingType)
      /\ r.session_url = None /\ r.local = b.local /\ r.page = b.page
  BY <1>2, LookUp DEF Items, RenderedFrom, Unmoved
<1>4. initialize(i) = [r EXCEPT !.session_url = b.page.q]
  <2>1. initialize(i) = [r EXCEPT !.session_url = i.page.q]
    BY <1>3 DEF initialize
  <2> HIDE DEF r
  <2> QED BY <1>2, <2>1
<1> HIDE DEF r
<1> DEFINE first == IF b.page.q.automerge # None
                    THEN RenderedFrom(b, "redirect_uri",
                             RenderedFrom(b, "automerge", b.session.renderingType))
                    ELSE RenderedFrom(b, "automerge", b.session.renderingType)
<1>5. /\ Unmoved(b, d) /\ Shaped(d) /\ d.page = b.page /\ d.local = b.local
      /\ d.session_url = (IF b.page.q.automerge # None THEN b.page.q ELSE b.session_url)
      /\ d.session["automerge"] = Value(b, "automerge")
      /\ d.session["redirect_uri"] = (IF b.page.q.automerge # None THEN Value(b, "redirect_uri")
                                      ELSE b.session.redirect_uri)
      /\ \A k \in SessionItems \ {"automerge", "redirect_uri", "renderingType"} :
            d.session[k] = b.session[k]
      /\ d.session.renderingType = first
  <2>1. CASE b.page.q.automerge # None
    <3>1. d = [r EXCEPT !.session_url = b.page.q]
      BY <1>4, <2>1
    <3>2. Unmoved(b, d) /\ Shaped(d) /\ d.page = b.page /\ d.local = b.local
          /\ d.session_url = b.page.q /\ d.session = r.session
      BY <1>2, <1>3, <3>1 DEF Unmoved, Shaped
    <3>3. i.session["redirect_uri"] = b.session["redirect_uri"]
      BY <1>1, <1>2 DEF SessionItems
    <3>4. RenderedFrom(i, "redirect_uri", i.session.renderingType)
            = RenderedFrom(b, "redirect_uri",
                 RenderedFrom(b, "automerge", b.session.renderingType))
      BY <1>1, <1>2, <3>3 DEF RenderedFrom
    <3>5. Value(i, "redirect_uri") = Value(b, "redirect_uri")
      BY <1>2, <3>3 DEF Value
    <3> HIDE DEF d
    <3> QED BY <1>1, <1>2, <1>3, <2>1, <3>2, <3>4, <3>5 DEF SessionItems
  <2>2. CASE b.page.q.automerge = None
    BY <1>1, <2>2 DEF SessionItems
  <2> QED BY <2>1, <2>2
<1> HIDE DEF d
<1>6. /\ Unmoved(d, f) /\ Shaped(f) /\ f.page = b.page /\ f.local = b.local
      /\ f.session_url = d.session_url
      /\ f.session["identifierValue"] = Value(d, "identifierValue")
      /\ \A k \in SessionItems \ {"identifierValue", "renderingType"} :
            f.session[k] = d.session[k]
      /\ f.session.renderingType = RenderedFrom(d, "identifierValue", d.session.renderingType)
  BY <1>5, LookUp DEF Items, RenderedFrom, Unmoved
<1> HIDE DEF f
<1>7. /\ Unmoved(f, e) /\ Shaped(e) /\ e.page = b.page /\ e.local = b.local
      /\ e.session_url = f.session_url
      /\ e.session["goBackUrl"] = Value(f, "goBackUrl")
      /\ \A k \in SessionItems \ {"goBackUrl", "renderingType"} :
            e.session[k] = f.session[k]
      /\ e.session.renderingType = RenderedFrom(f, "goBackUrl", f.session.renderingType)
  BY <1>6, LookUp DEF Items, RenderedFrom, Unmoved
<1>8. /\ e = getValueFromSession(getValueFromSession(d, "identifierValue"), "goBackUrl")
      /\ d = (IF b.page.q.automerge # None
              THEN initialize([getValueFromSession(b, "automerge") EXCEPT !.session_url = None])
              ELSE getValueFromSession(b, "automerge"))
  BY DEF e, f, d, i, c
<1> HIDE DEF e
<1>9. Value(d, "identifierValue") = Value(b, "identifierValue")
      /\ Value(f, "goBackUrl") = Value(b, "goBackUrl")
  BY <1>5, <1>6 DEF Value, SessionItems
<1>10. e.session.renderingType = Rendered(b)
  <2>1. f.session.renderingType = RenderedFrom(b, "identifierValue", first)
    BY <1>5, <1>6 DEF RenderedFrom, SessionItems
  <2>2. e.session.renderingType = RenderedFrom(b, "goBackUrl", f.session.renderingType)
    BY <1>5, <1>6, <1>7 DEF RenderedFrom, SessionItems
  <2> QED BY <2>1, <2>2 DEF Rendered
<1>11. Unmoved(b, e)
  BY <1>5, <1>6, <1>7, UnmovedTwice
<1>12. /\ e.session["version"] = b.session["version"]
       /\ e.session["passwordFailCount"] = b.session["passwordFailCount"]
       /\ e.session["redirect_uri"] = d.session["redirect_uri"]
       /\ e.session["automerge"] = Value(b, "automerge")
       /\ e.session["identifierValue"] = Value(b, "identifierValue")
       /\ e.session["goBackUrl"] = Value(b, "goBackUrl")
  BY <1>5, <1>6, <1>7, <1>9 DEF SessionItems
<1> QED BY <1>5, <1>6, <1>7, <1>8, <1>10, <1>11, <1>12

StatusError(q) == To(q.host, "/sign-in/sso/auth?status=error", None)

LEMMA FailureIs ==
  ASSUME NEW b, Shaped(b), b.session.identifierValue = Value(b, "identifierValue")
  PROVE  LET c == handlePasswordFailure(b)
         IN  /\ Unmoved(b, c) /\ c.session_url = b.session_url /\ c.local = b.local
             /\ \A k \in SessionItems \ {"renderingType", "passwordFailCount"} :
                   c.session[k] = b.session[k]
             /\ c.session.passwordFailCount = b.session.passwordFailCount + 1
             /\ c.page.signIn = b.page.signIn /\ c.page.goBack = b.page.goBack
             /\ c.page.forgotVersion = b.page.forgotVersion /\ c.page.threw = b.page.threw
             /\ c.page.hidden = b.page.hidden
             /\ c.page.to = (IF b.session.passwordFailCount + 1 >= 2 THEN StatusError(b.page.q)
                             ELSE b.page.to)
<1> DEFINE c == [b EXCEPT !.session.passwordFailCount = @ + 1]
           v == getValueFromSession(c, "identifierValue")
           d == [v EXCEPT !.page.to = StatusError(b.page.q)]
<1>2. /\ Unmoved(b, c) /\ Shaped(c) /\ c.page = b.page /\ c.local = b.local
      /\ c.session_url = b.session_url
      /\ \A k \in SessionItems \ {"passwordFailCount"} : c.session[k] = b.session[k]
  BY DEF Unmoved, Shaped, SessionItems
<1>6. c.session.passwordFailCount = b.session.passwordFailCount + 1
  BY DEF Shaped, SessionItems
<1>4. handlePasswordFailure(b) = (IF c.session.passwordFailCount >= 2 THEN d ELSE c)
  BY DEF handlePasswordFailure, StatusError
<1>10. b.page.q["identifierValue"] # None => b.page.q["identifierValue"] = b.session["identifierValue"]
  BY DEF Value
<1> HIDE DEF c
<1>1. /\ Unmoved(c, v) /\ Shaped(v) /\ v.page = c.page /\ v.local = c.local
      /\ v.session_url = c.session_url
      /\ v.session["identifierValue"] = Value(c, "identifierValue")
      /\ \A k \in SessionItems \ {"identifierValue", "renderingType"} :
            v.session[k] = c.session[k]
  BY <1>2, LookUp DEF Items, Unmoved
<1>3. Value(c, "identifierValue") = b.session["identifierValue"]
  BY <1>2, <1>10 DEF Value, SessionItems
<1> HIDE DEF v
<1>5. /\ Unmoved(b, d) /\ d.session = v.session /\ d.local = b.local
      /\ d.session_url = b.session_url
      /\ d.page.signIn = b.page.signIn /\ d.page.goBack = b.page.goBack
      /\ d.page.forgotVersion = b.page.forgotVersion /\ d.page.threw = b.page.threw
      /\ d.page.hidden = b.page.hidden /\ d.page.to = StatusError(b.page.q)
  <2>1. Unmoved(b, v) /\ Unmoved(v, d)
    BY <1>1, <1>2, UnmovedTwice DEF Unmoved, Shaped, PageFields
  <2>2. Unmoved(b, d)
    BY <2>1, UnmovedTwice
  <2> QED BY <1>1, <1>2, <2>2 DEF Unmoved, Shaped, PageFields
<1>7. v.session.passwordFailCount = c.session.passwordFailCount
  BY <1>1 DEF SessionItems
<1>9. \A k \in SessionItems \ {"renderingType", "passwordFailCount"} :
         v.session[k] = b.session[k]
  BY <1>1, <1>2, <1>3
<1> HIDE DEF d
<1>8. CASE c.session.passwordFailCount >= 2
  BY <1>4, <1>5, <1>6, <1>7, <1>8, <1>9
<1>11. CASE ~(c.session.passwordFailCount >= 2)
  BY <1>2, <1>4, <1>6, <1>11
<1> QED BY <1>8, <1>11

LEMMA DecoratedIs ==
  ASSUME NEW b, Shaped(b), NEW error, NEW e,
         e = getValueFromSession(getValueFromSession(b, "identifierValue"), "goBackUrl")
  PROVE  LET c == decoratePage(b, error)
             q == b.page.q
             kept == e.session.renderingType = "sessionStorage"
             wrong == kept /\ error = "wrong"
         IN  /\ Unmoved(b, c) /\ c.session_url = b.session_url /\ c.local = b.local
             /\ \A k \in SessionItems \ {"renderingType", "passwordFailCount"} :
                   c.session[k] = e.session[k]
             /\ c.session.passwordFailCount =
                  (IF wrong THEN b.session.passwordFailCount + 1
                   ELSE b.session.passwordFailCount)
             /\ c.page.to = (IF wrong /\ b.session.passwordFailCount + 1 >= 2
                             THEN StatusError(q) ELSE b.page.to)
             /\ c.page.signIn = (IF "signIn" \in Elements(q) THEN "merge" ELSE b.page.signIn)
             /\ c.page.goBack = (IF "goBack" \in Elements(q) THEN Value(b, "goBackUrl")
                                 ELSE b.page.goBack)
             /\ c.page.forgotVersion = b.page.forgotVersion /\ c.page.threw = b.page.threw
             /\ b.page.hidden \subseteq Elements(q) => c.page.hidden \subseteq Elements(q)
             /\ \A x : x \in c.page.hidden <=>
                  \/ /\ x \in b.page.hidden /\ x \notin {"migrateAccountMessage", "goBack"}
                     /\ kept => x # "selfSingUp"
                     /\ wrong => x # "inCorrectPasswordError"
                  \/ /\ x \in Elements(q)
                     /\ x \in Four \cup Labels \/ (kept /\ x = "error-summary")
<1> DEFINE f == getValueFromSession(b, "identifierValue")
           kept == e.session.renderingType = "sessionStorage"
           wrong == kept /\ error = "wrong"
<1>1. /\ Unmoved(b, f) /\ Shaped(f) /\ f.page = b.page /\ f.local = b.local
      /\ f.session_url = b.session_url
      /\ f.session["identifierValue"] = Value(b, "identifierValue")
      /\ \A k \in SessionItems \ {"identifierValue", "renderingType"} :
            f.session[k] = b.session[k]
  BY LookUp DEF Items, Unmoved
<1> HIDE DEF f
<1>2. /\ Unmoved(f, e) /\ Shaped(e) /\ e.page = b.page /\ e.local = b.local
      /\ e.session_url = b.session_url
      /\ \A k \in SessionItems \ {"goBackUrl", "renderingType"} :
            e.session[k] = f.session[k]
  BY <1>1, LookUp DEF Items, Unmoved, f
<1>3. /\ Unmoved(b, e)
      /\ e.session["passwordFailCount"] = b.session["passwordFailCount"]
      /\ e.session["identifierValue"] = Value(b, "identifierValue")
  BY <1>1, <1>2, UnmovedTwice DEF SessionItems
<1>4. Value(e, "identifierValue") = Value(b, "identifierValue")
  BY <1>2, <1>3 DEF Value
<1> DEFINE l == SetLabel(e)
           u == unHideElement(l, {"migrateAccountMessage", "goBack"})
           g == IF Has(b, "goBack") THEN [u EXCEPT !.page.goBack = Value(b, "goBackUrl")] ELSE u
           s == IF kept THEN unHideElement(g, {"selfSingUp"}) ELSE g
           i == unHideElement(s, {"inCorrectPasswordError"})
           w == IF wrong THEN handlePasswordFailure(i) ELSE s
           hs == {"kc-registration", "stateButton", "fgtKeycloakFlow",
                  "fgtPortalFlow", "usernameLabel", "usernameLabelPlaceholder",
                  "username"} \cup (IF kept THEN {"error-summary"} ELSE {})
           c == hideElement(w, hs)
<1>5. /\ Unmoved(e, l) /\ Shaped(l) /\ l.page.q = b.page.q
      /\ l.session = e.session /\ l.session_url = e.session_url /\ l.local = e.local
      /\ l.page.signIn = (IF "signIn" \in Elements(b.page.q) THEN "merge" ELSE b.page.signIn)
      /\ l.page.goBack = b.page.goBack
      /\ l.page.forgotVersion = b.page.forgotVersion
      /\ l.page.threw = b.page.threw /\ l.page.to = b.page.to
      /\ l.page.hidden = b.page.hidden
  BY <1>2, LabelIs DEF Unmoved
<1> HIDE DEF l
<1>6. /\ OnlyShows(l, u) /\ Shaped(u) /\ u.page.q = b.page.q
      /\ u.page.hidden = b.page.hidden \ {"migrateAccountMessage", "goBack"}
  BY <1>5, Unhides DEF OnlyShows, Unmoved
<1> HIDE DEF u
<1>7. /\ Unmoved(u, g) /\ Shaped(g) /\ g.page.q = b.page.q
      /\ g.session = e.session /\ g.session_url = e.session_url /\ g.local = e.local
      /\ g.page.signIn = l.page.signIn
      /\ g.page.goBack = (IF "goBack" \in Elements(b.page.q) THEN Value(b, "goBackUrl")
                          ELSE b.page.goBack)
      /\ g.page.forgotVersion = b.page.forgotVersion
      /\ g.page.threw = b.page.threw /\ g.page.to = b.page.to
      /\ g.page.hidden = u.page.hidden
  <2>1. CASE Has(b, "goBack")
    BY <1>5, <1>6, <2>1 DEF Has, OnlyShows, Unmoved, Shaped, PageFields
  <2>2. CASE ~Has(b, "goBack")
    <3>1. g = u
      BY <2>2
    <3> QED BY <1>5, <1>6, <2>2, <3>1, ShapedShows DEF Has, OnlyShows
  <2> QED BY <2>1, <2>2
<1> HIDE DEF g
<1>8. /\ OnlyShows(g, s) /\ Shaped(s) /\ s.page.q = b.page.q
      /\ s.page.hidden = g.page.hidden \ (IF kept THEN {"selfSingUp"} ELSE {})
  <2>1. CASE kept
    BY <1>7, <2>1, Unhides DEF OnlyShows, Unmoved
  <2>2. CASE ~kept
    <3>1. s = g
      BY <2>2
    <3> QED BY <1>7, <2>2, <3>1, ShapedShows
  <2> QED BY <2>1, <2>2
<1> HIDE DEF s
<1>9. /\ OnlyShows(s, i) /\ Shaped(i) /\ i.page.q = b.page.q
      /\ i.page.hidden = s.page.hidden \ {"inCorrectPasswordError"}
  BY <1>8, Unhides DEF OnlyShows, Unmoved
<1>10. i.session = e.session /\ s.session = e.session
  BY <1>7, <1>8, <1>9 DEF OnlyShows
<1>11. i.session.identifierValue = Value(i, "identifierValue")
  BY <1>2, <1>3, <1>4, <1>9, <1>10 DEF Value
<1> HIDE DEF i
<1>12. /\ Unmoved(s, w) /\ Shaped(w) /\ w.page.q = b.page.q
       /\ w.session_url = s.session_url /\ w.local = s.local
       /\ \A k \in SessionItems \ {"renderingType", "passwordFailCount"} :
             w.session[k] = e.session[k]
       /\ w.session.passwordFailCount = (IF wrong THEN b.session.passwordFailCount + 1
                                         ELSE b.session.passwordFailCount)
       /\ w.page.signIn = s.page.signIn /\ w.page.goBack = s.page.goBack
       /\ w.page.forgotVersion = s.page.forgotVersion /\ w.page.threw = s.page.threw
       /\ w.page.hidden = s.page.hidden \ (IF wrong THEN {"inCorrectPasswordError"} ELSE {})
       /\ w.page.to = (IF wrong /\ b.session.passwordFailCount + 1 >= 2
                       THEN StatusError(b.page.q) ELSE s.page.to)
  <2>1. CASE wrong
    <3> DEFINE h == handlePasswordFailure(i)
    <3>1. /\ Unmoved(i, h) /\ Shaped(h) /\ h.session_url = i.session_url /\ h.local = i.local
          /\ \A k \in SessionItems \ {"renderingType", "passwordFailCount"} :
                   h.session[k] = i.session[k]
          /\ h.session.passwordFailCount = i.session.passwordFailCount + 1
          /\ h.page.signIn = i.page.signIn /\ h.page.goBack = i.page.goBack
          /\ h.page.forgotVersion = i.page.forgotVersion /\ h.page.threw = i.page.threw
          /\ h.page.hidden = i.page.hidden
          /\ h.page.to = (IF i.session.passwordFailCount + 1 >= 2
                          THEN StatusError(i.page.q) ELSE i.page.to)
      BY <1>9, <1>11, FailureIs DEF Unmoved
    <3>2. w = h
      BY <2>1
    <3> HIDE DEF h, w
    <3>3. Unmoved(s, h)
      BY <1>9, <3>1, UnmovedTwice DEF OnlyShows
    <3> QED BY <1>3, <1>9, <1>10, <2>1, <3>1, <3>2, <3>3 DEF OnlyShows, Unmoved
  <2>2. CASE ~wrong
    <3>1. w = s
      BY <2>2
    <3> HIDE DEF w
    <3> QED BY <1>3, <1>8, <1>10, <2>2, <3>1, ShapedShows
  <2> QED BY <2>1, <2>2
<1>13. c = decoratePage(b, error)
  <2>1. g.session.renderingType = e.session.renderingType
    BY <1>7
  <2> QED BY <2>1 DEF decoratePage, f, l, u, g, s, i
<1> HIDE DEF w
<1>14. OnlyShows(w, c) /\ c.page.hidden = w.page.hidden \cup (hs \cap Elements(b.page.q))
  BY <1>12, Hides
<1> HIDE DEF c
<1>15. Unmoved(b, c)
  <2>1. Unmoved(b, l) /\ Unmoved(l, u) /\ Unmoved(g, s) /\ Unmoved(w, c)
    BY <1>3, <1>5, <1>6, <1>8, <1>14, UnmovedTwice DEF OnlyShows
  <2>2. Unmoved(b, g)
    BY <1>7, <2>1, UnmovedTwice
  <2>3. Unmoved(b, w)
    BY <1>12, <2>1, <2>2, UnmovedTwice
  <2> QED BY <2>1, <2>3, UnmovedTwice
<1>16. /\ c.session = w.session
       /\ c.session_url = b.session_url /\ c.local = b.local
       /\ c.page.signIn = l.page.signIn /\ c.page.goBack = g.page.goBack
       /\ c.page.forgotVersion = b.page.forgotVersion /\ c.page.threw = b.page.threw
       /\ c.page.to = (IF wrong /\ b.session.passwordFailCount + 1 >= 2
                       THEN StatusError(b.page.q) ELSE b.page.to)
  BY <1>2, <1>7, <1>8, <1>12, <1>14 DEF OnlyShows
<1>17. ASSUME NEW x
       PROVE  x \in c.page.hidden <=>
                  \/ /\ x \in b.page.hidden /\ x \notin {"migrateAccountMessage", "goBack"}
                     /\ kept => x # "selfSingUp"
                     /\ wrong => x # "inCorrectPasswordError"
                  \/ /\ x \in Elements(b.page.q)
                     /\ x \in Four \cup Labels \/ (kept /\ x = "error-summary")
  <2>1. x \in hs <=> x \in Four \cup Labels \/ (kept /\ x = "error-summary")
    BY DEF Four, Labels
  <2> HIDE DEF hs
  <2> QED BY <1>6, <1>7, <1>8, <1>12, <1>14, <2>1
<1>18. b.page.hidden \subseteq Elements(b.page.q) => c.page.hidden \subseteq Elements(b.page.q)
  BY <1>17
<1> QED BY <1>5, <1>7, <1>12, <1>13, <1>15, <1>16, <1>17, <1>18

LEMMA KeepIs ==
  ASSUME NEW b, Shaped(b), NEW k \in Items
  PROVE  LET c == Keep(b, k)
         IN  /\ Unmoved(b, c)
             /\ c.session[k] = Stored(Value(b, k))
             /\ \A i \in SessionItems \ {k, "renderingType"} : c.session[i] = b.session[i]
             /\ c.session_url = b.session_url /\ c.local = b.local /\ c.page = b.page
<1> DEFINE v == getValueFromSession(b, k)
           c == [v EXCEPT !.session[k] = Stored(Value(b, k))]
<1>1. /\ Unmoved(b, v) /\ Shaped(v) /\ v.page = b.page /\ v.local = b.local
      /\ v.session_url = b.session_url
      /\ \A i \in SessionItems \ {k, "renderingType"} : v.session[i] = b.session[i]
  BY LookUp DEF Unmoved
<1>2. c = Keep(b, k)
  BY DEF Keep
<1> HIDE DEF v
<1>3. k \in SessionItems /\ k # "renderingType" /\ k # "url"
  BY DEF Items, SessionItems
<1>4. /\ Unmoved(b, c) /\ c.page = b.page /\ c.local = b.local
      /\ c.session_url = b.session_url
      /\ c.session[k] = Stored(Value(b, k))
      /\ \A i \in SessionItems \ {k, "renderingType"} : c.session[i] = b.session[i]
  BY <1>1, <1>3 DEF Unmoved, Shaped
<1> QED BY <1>2, <1>4

LEMMA StoreIs ==
  ASSUME NEW b, Shaped(b)
  PROVE  LET c == storeValueForMigration(b)
         IN  /\ Unmoved(b, c)
             /\ \A k \in {"automerge", "goBackUrl", "identifierValue"} :
                  c.session[k] = Stored(Value(b, k))
             /\ \A i \in SessionItems \ {"automerge", "goBackUrl", "identifierValue",
                                         "renderingType"} : c.session[i] = b.session[i]
             /\ c.session_url = b.session_url /\ c.local = b.local /\ c.page = b.page
<1> DEFINE x == Keep(b, "automerge")
           y == Keep(x, "goBackUrl")
           z == Keep(y, "identifierValue")
<1>1. /\ Unmoved(b, x) /\ Shaped(x)
      /\ x.session["automerge"] = Stored(Value(b, "automerge"))
      /\ \A i \in SessionItems \ {"automerge", "renderingType"} : x.session[i] = b.session[i]
      /\ x.session_url = b.session_url /\ x.local = b.local /\ x.page = b.page
  BY KeepIs DEF Items, Unmoved
<1> HIDE DEF x
<1>2. /\ Unmoved(x, y) /\ Shaped(y)
      /\ y.session["goBackUrl"] = Stored(Value(x, "goBackUrl"))
      /\ \A i \in SessionItems \ {"goBackUrl", "renderingType"} : y.session[i] = x.session[i]
      /\ y.session_url = b.session_url /\ y.local = b.local /\ y.page = b.page
  BY <1>1, KeepIs DEF Items, Unmoved
<1> HIDE DEF y
<1>3. /\ Unmoved(y, z)
      /\ z.session["identifierValue"] = Stored(Value(y, "identifierValue"))
      /\ \A i \in SessionItems \ {"identifierValue", "renderingType"} :
            z.session[i] = y.session[i]
      /\ z.session_url = b.session_url /\ z.local = b.local /\ z.page = b.page
  BY <1>2, KeepIs DEF Items
<1>4. z = storeValueForMigration(b)
  BY DEF storeValueForMigration, x, y
<1> HIDE DEF z
<1>5. /\ Value(x, "goBackUrl") = Value(b, "goBackUrl")
      /\ Value(y, "identifierValue") = Value(b, "identifierValue")
  BY <1>1, <1>2 DEF Value, SessionItems
<1>6. Unmoved(b, z)
  BY <1>1, <1>2, <1>3, UnmovedTwice
<1>7. /\ z.session["automerge"] = Stored(Value(b, "automerge"))
      /\ z.session["goBackUrl"] = Stored(Value(b, "goBackUrl"))
      /\ z.session["identifierValue"] = Stored(Value(b, "identifierValue"))
  BY <1>1, <1>2, <1>3, <1>5 DEF SessionItems
<1>8. \A i \in SessionItems \ {"automerge", "goBackUrl", "identifierValue", "renderingType"} :
         z.session[i] = b.session[i]
  BY <1>1, <1>2, <1>3
<1> QED BY <1>3, <1>4, <1>6, <1>7, <1>8

LEMMA AutoMergeIs ==
  ASSUME NEW b, Shaped(b), NEW error, Value(b, "automerge") = "1"
  PROVE  LET c == AutoMerge(b, error)
             q == b.page.q
             first == q.automerge # None
             counts == Wrong(b, error)
         IN  /\ Unmoved(b, c) /\ c.local = b.local
             /\ c.session_url = (IF first THEN q ELSE b.session_url)
             /\ c.session.version = b.session.version
             /\ c.session.redirect_uri = (IF first THEN Value(b, "redirect_uri")
                                          ELSE b.session.redirect_uri)
             /\ \A k \in {"automerge", "goBackUrl", "identifierValue"} :
                  c.session[k] = Stored(Value(b, k))
             /\ c.session.passwordFailCount =
                  (IF counts THEN b.session.passwordFailCount + 1
                   ELSE b.session.passwordFailCount)
             /\ c.page.to = (IF counts /\ b.session.passwordFailCount + 1 >= 2
                             THEN StatusError(q) ELSE b.page.to)
             /\ c.page.signIn = (IF "signIn" \in Elements(q) THEN "merge" ELSE b.page.signIn)
             /\ c.page.goBack = (IF "goBack" \in Elements(q) THEN Value(b, "goBackUrl")
                                 ELSE b.page.goBack)
             /\ c.page.forgotVersion = b.page.forgotVersion /\ c.page.threw = b.page.threw
             /\ b.page.hidden \subseteq Elements(q) => c.page.hidden \subseteq Elements(q)
             /\ \A x : x \in c.page.hidden <=>
                  \/ /\ x \in b.page.hidden /\ x \notin {"migrateAccountMessage", "goBack"}
                     /\ Kept(b) => x # "selfSingUp"
                     /\ counts => x # "inCorrectPasswordError"
                  \/ /\ x \in Elements(q)
                     /\ x \in Four \cup Labels \/ (Kept(b) /\ x = "error-summary")
<1> DEFINE m == getValueFromSession(b, "automerge")
           i == [m EXCEPT !.session_url = None]
           d == IF b.page.q.automerge # None THEN initialize(i) ELSE m
           e == getValueFromSession(getValueFromSession(d, "identifierValue"), "goBackUrl")
           p == decoratePage(d, error)
           c == storeValueForMigration(p)
<1>1. /\ Unmoved(b, e) /\ e.page = b.page /\ e.local = b.local
      /\ e.session_url = (IF b.page.q.automerge # None THEN b.page.q ELSE b.session_url)
      /\ e.session.version = b.session.version
      /\ e.session.passwordFailCount = b.session.passwordFailCount
      /\ e.session.redirect_uri = (IF b.page.q.automerge # None
                                   THEN Value(b, "redirect_uri")
                                   ELSE b.session.redirect_uri)
      /\ e.session["automerge"] = Value(b, "automerge")
      /\ e.session["identifierValue"] = Value(b, "identifierValue")
      /\ e.session["goBackUrl"] = Value(b, "goBackUrl")
      /\ e.session.renderingType = Rendered(b)
  BY MigrationLookUps
<1>2. AutoMerge(b, error) = c
  BY NamesAssumption DEF AutoMerge
<1>3. /\ Unmoved(b, m) /\ Shaped(m) /\ m.page = b.page /\ m.local = b.local
      /\ m.session_url = b.session_url
      /\ \A k \in SessionItems \ {"automerge", "renderingType"} : m.session[k] = b.session[k]
  BY LookUp DEF Items, Unmoved
<1> HIDE DEF m
<1>4. /\ Unmoved(b, d) /\ Shaped(d) /\ d.page = b.page /\ d.local = b.local
      /\ d.session_url = e.session_url
      /\ d.session["passwordFailCount"] = b.session["passwordFailCount"]
      /\ d.session["goBackUrl"] = b.session["goBackUrl"]
  <2>1. CASE b.page.q.automerge # None
    <3> DEFINE r == getValueFromSession(i, "redirect_uri")
    <3>1. Shaped(i) /\ Unmoved(b, i) /\ i.page = b.page /\ i.local = b.local
          /\ i.session = m.session /\ i.session_url = None
      BY <1>3 DEF Unmoved, Shaped
    <3> HIDE DEF i
    <3>2. /\ Unmoved(i, r) /\ Shaped(r) /\ r.page = b.page /\ r.local = b.local
          /\ r.session_url = None
          /\ \A k \in SessionItems \ {"redirect_uri", "renderingType"} :
                r.session[k] = m.session[k]
      BY <3>1, LookUp DEF Items, Unmoved
    <3>3. initialize(i) = [r EXCEPT !.session_url = i.page.q]
      BY <3>2 DEF initialize
    <3> HIDE DEF r
    <3>4. d = [r EXCEPT !.session_url = b.page.q]
      BY <2>1, <3>1, <3>3
    <3>5. Unmoved(b, r)
      BY <3>1, <3>2, UnmovedTwice
    <3>6. /\ Unmoved(b, d) /\ d.page = b.page /\ d.local = b.local
          /\ d.session_url = b.page.q /\ d.session = r.session
      BY <3>2, <3>4, <3>5 DEF Unmoved, Shaped
    <3> HIDE DEF d, e
    <3> QED BY <1>1, <1>3, <2>1, <3>2, <3>6 DEF SessionItems, Unmoved
  <2>2. CASE b.page.q.automerge = None
    <3>1. d = m
      BY <2>2
    <3> HIDE DEF d, e
    <3> QED BY <1>1, <1>3, <2>2, <3>1 DEF SessionItems
  <2> QED BY <2>1, <2>2
<1> HIDE DEF d
<1>5. /\ Unmoved(d, p) /\ Shaped(p) /\ p.page.q = b.page.q
      /\ p.session_url = d.session_url /\ p.local = d.local
      /\ \A k \in SessionItems \ {"renderingType", "passwordFailCount"} :
            p.session[k] = e.session[k]
      /\ p.page.signIn = (IF "signIn" \in Elements(d.page.q) THEN "merge" ELSE d.page.signIn)
      /\ p.page.goBack = (IF "goBack" \in Elements(d.page.q) THEN Value(d, "goBackUrl")
                          ELSE d.page.goBack)
      /\ p.page.forgotVersion = d.page.forgotVersion /\ p.page.threw = d.page.threw
  BY <1>4, DecoratedIs DEF Unmoved
<1>6. e.session.renderingType = "sessionStorage" <=> Kept(b)
  BY <1>1 DEF Kept
<1>7. /\ p.session.passwordFailCount =
           (IF Wrong(b, error) THEN d.session.passwordFailCount + 1
            ELSE d.session.passwordFailCount)
      /\ p.page.to = (IF Wrong(b, error) /\ d.session.passwordFailCount + 1 >= 2
                      THEN StatusError(d.page.q) ELSE d.page.to)
      /\ d.page.hidden \subseteq Elements(d.page.q) => p.page.hidden \subseteq Elements(d.page.q)
      /\ \A x : x \in p.page.hidden <=>
           \/ /\ x \in d.page.hidden /\ x \notin {"migrateAccountMessage", "goBack"}
              /\ Kept(b) => x # "selfSingUp"
              /\ Wrong(b, error) => x # "inCorrectPasswordError"
           \/ /\ x \in Elements(d.page.q)
              /\ x \in Four \cup Labels \/ (Kept(b) /\ x = "error-summary")
  <2> DEFINE kept == e.session.renderingType = "sessionStorage"
             wrong == kept /\ error = "wrong"
  <2>1. /\ p.session.passwordFailCount =
             (IF wrong THEN d.session.passwordFailCount + 1
              ELSE d.session.passwordFailCount)
        /\ p.page.to = (IF wrong /\ d.session.passwordFailCount + 1 >= 2
                        THEN StatusError(d.page.q) ELSE d.page.to)
        /\ d.page.hidden \subseteq Elements(d.page.q)
             => p.page.hidden \subseteq Elements(d.page.q)
        /\ \A x : x \in p.page.hidden <=>
             \/ /\ x \in d.page.hidden /\ x \notin {"migrateAccountMessage", "goBack"}
                /\ kept => x # "selfSingUp"
                /\ wrong => x # "inCorrectPasswordError"
             \/ /\ x \in Elements(d.page.q)
                /\ x \in Four \cup Labels \/ (kept /\ x = "error-summary")
    BY <1>4, DecoratedIs
  <2>2. wrong <=> Wrong(b, error)
    BY <1>6 DEF Wrong
  <2> QED BY <1>6, <2>1, <2>2
<1> HIDE DEF e, p
<1>8. /\ Unmoved(p, c)
      /\ c.session["automerge"] = Stored(Value(p, "automerge"))
      /\ c.session["goBackUrl"] = Stored(Value(p, "goBackUrl"))
      /\ c.session["identifierValue"] = Stored(Value(p, "identifierValue"))
      /\ \A k \in SessionItems \ {"automerge", "goBackUrl", "identifierValue", "renderingType"} :
            c.session[k] = p.session[k]
      /\ c.session_url = p.session_url /\ c.local = p.local /\ c.page = p.page
  BY <1>5, StoreIs
<1> HIDE DEF c
<1>9. Unmoved(b, c)
  BY <1>4, <1>5, <1>8, UnmovedTwice
<1>10. /\ Value(p, "automerge") = Value(b, "automerge")
       /\ Value(p, "goBackUrl") = Value(b, "goBackUrl")
       /\ Value(p, "identifierValue") = Value(b, "identifierValue")
       /\ Value(d, "goBackUrl") = Value(b, "goBackUrl")
  BY <1>1, <1>4, <1>5 DEF Value, SessionItems
<1>11. /\ c.session["version"] = b.session["version"]
       /\ c.session["redirect_uri"] = e.session["redirect_uri"]
       /\ c.session["passwordFailCount"] = p.session["passwordFailCount"]
  BY <1>1, <1>5, <1>8 DEF SessionItems
<1>12. /\ c.local = b.local
       /\ c.session_url = (IF b.page.q.automerge # None THEN b.page.q ELSE b.session_url)
       /\ c.session.version = b.session.version
       /\ c.session.redirect_uri = (IF b.page.q.automerge # None THEN Value(b, "redirect_uri")
                                    ELSE b.session.redirect_uri)
       /\ \A k \in {"automerge", "goBackUrl", "identifierValue"} :
            c.session[k] = Stored(Value(b, k))
  BY <1>1, <1>4, <1>5, <1>8, <1>10, <1>11
<1>13. /\ c.session.passwordFailCount =
            (IF Wrong(b, error) THEN b.session.passwordFailCount + 1
             ELSE b.session.passwordFailCount)
       /\ c.page.to = (IF Wrong(b, error) /\ b.session.passwordFailCount + 1 >= 2
                       THEN StatusError(b.page.q) ELSE b.page.to)
  BY <1>4, <1>7, <1>8, <1>11
<1>14. /\ c.page.signIn = (IF "signIn" \in Elements(b.page.q) THEN "merge" ELSE b.page.signIn)
       /\ c.page.goBack = (IF "goBack" \in Elements(b.page.q) THEN Value(b, "goBackUrl")
                           ELSE b.page.goBack)
       /\ c.page.forgotVersion = b.page.forgotVersion /\ c.page.threw = b.page.threw
  BY <1>4, <1>5, <1>8, <1>10
<1>15. b.page.hidden \subseteq Elements(b.page.q) => c.page.hidden \subseteq Elements(b.page.q)
  BY <1>4, <1>7, <1>8
<1>16. \A x : x \in c.page.hidden <=>
                  \/ /\ x \in b.page.hidden /\ x \notin {"migrateAccountMessage", "goBack"}
                     /\ Kept(b) => x # "selfSingUp"
                     /\ Wrong(b, error) => x # "inCorrectPasswordError"
                  \/ /\ x \in Elements(b.page.q)
                     /\ x \in Four \cup Labels \/ (Kept(b) /\ x = "error-summary")
  BY <1>4, <1>7, <1>8
<1> QED BY <1>2, <1>9, <1>12, <1>13, <1>14, <1>15, <1>16

(* The whole of onload, without its order. *)
Automatic(b)   == Value(b, "automerge") = "1" /\ ~Ends(b)
Counts(b) == Automatic(b) /\ Wrong(b, ErrorOf(b))

LEMMA OnloadIs ==
  ASSUME NEW b, Fresh(b)
  PROVE  LET r == onload(b)
             q == b.page.q
             counted == b.session.passwordFailCount + 1
         IN  /\ Unmoved(b, r)
             /\ r.session.version = Value(b, "version")
             /\ r.session.redirect_uri = (IF Automatic(b) /\ q.automerge # None
                                          THEN Value(b, "redirect_uri")
                                          ELSE b.session.redirect_uri)
             /\ r.session.automerge = (IF Ends(b) THEN b.session.automerge
                                       ELSE Value(b, "automerge"))
             /\ \A k \in {"goBackUrl", "identifierValue"} :
                  r.session[k] = (IF Automatic(b) THEN Stored(Value(b, k)) ELSE b.session[k])
             /\ r.session.passwordFailCount =
                  (IF Counts(b) THEN counted ELSE b.session.passwordFailCount)
             /\ r.session_url = (IF Automatic(b) /\ q.automerge # None THEN q ELSE b.session_url)
             /\ r.local = (IF q.mergeaccountprocess = None THEN b.local
                           ELSE IF Merges(b) /\ ~Ends(b)
                                THEN MergeRecord(q, "1", VersionOf(b)) ELSE EmptyLocal)
             /\ r.page.threw \in BOOLEAN /\ (r.page.threw = TRUE <=> Ends(b))
             /\ r.page.to = (IF Counts(b) /\ counted >= 2 THEN StatusError(q) ELSE b.page.to)
             /\ r.page.signIn = (IF (Merges(b) \/ Automatic(b)) /\ "signIn" \in Elements(q)
                                 THEN "merge" ELSE b.page.signIn)
             /\ r.page.goBack = (IF "goBack" \notin Elements(q) \/ ~(Merges(b) \/ Automatic(b))
                                 THEN b.page.goBack
                                 ELSE IF Automatic(b) THEN Value(b, "goBackUrl")
                                 ELSE IF FromLocal(b) THEN b.local.redirectUrl ELSE q.goBackUrl)
             /\ r.page.forgotVersion =
                  (IF Unshown(q) \/ AtLeast(VersionOf(b), 4)
                        \/ "fgtKeycloakFlow" \notin Elements(q)
                   THEN b.page.forgotVersion ELSE Stored(VersionOf(b)))
             /\ r.page.hidden \subseteq Elements(q)
             /\ \A e : e # "googleSignInBtn" =>
                  (e \in r.page.hidden <=>
                     \/ /\ e \in b.page.hidden /\ e \notin Uncovered(q, VersionOf(b))
                        /\ ~Unshown(q) => e # Forgot(VersionOf(b))
                        /\ Merges(b) \/ Automatic(b) => e # "goBack"
                        /\ Merges(b) /\ ~FromLocal(b) => e # "mergeAccountMessage"
                        /\ Automatic(b) => e # "migrateAccountMessage"
                        /\ Automatic(b) /\ Kept(b) => e # "selfSingUp"
                        /\ Counts(b) => e # "inCorrectPasswordError"
                     \/ (Merges(b) \/ Automatic(b)) /\ e \in Four \cap Elements(q)
                     \/ Automatic(b) /\ e \in Labels \cap Elements(q)
                     \/ Automatic(b) /\ Kept(b) /\ e = "error-summary" /\ e \in Elements(q))
<1> DEFINE v == getValueFromSession(b, "version")
           c == Merged(b)
           r == onload(b)
           q == b.page.q
           counted == b.session.passwordFailCount + 1
<1>1. /\ Unmoved(b, v) /\ Shaped(v)
      /\ v.session["version"] = Value(b, "version")
      /\ \A k \in SessionItems \ {"version", "renderingType"} : v.session[k] = b.session[k]
  BY LookUp DEF Items, Fresh, Unmoved
<1>2. /\ Unmoved(b, c) /\ Shaped(c) /\ c.page.q = b.page.q
      /\ c.session = v.session
      /\ c.session_url = b.session_url /\ c.page.to = b.page.to
      /\ c.page.threw \in BOOLEAN /\ (c.page.threw = TRUE <=> Ends(b))
      /\ c.local = (IF q.mergeaccountprocess = None THEN b.local
                    ELSE IF Merges(b) /\ ~Ends(b)
                         THEN MergeRecord(q, "1", VersionOf(b)) ELSE EmptyLocal)
      /\ c.page.signIn = (IF Merges(b) /\ "signIn" \in Elements(q) THEN "merge"
                          ELSE b.page.signIn)
      /\ c.page.goBack = (IF ~Merges(b) \/ "goBack" \notin Elements(q) THEN b.page.goBack
                          ELSE IF FromLocal(b) THEN b.local.redirectUrl ELSE q.goBackUrl)
      /\ c.page.forgotVersion =
           (IF Unshown(q) \/ AtLeast(VersionOf(b), 4)
                 \/ "fgtKeycloakFlow" \notin Elements(q)
            THEN b.page.forgotVersion ELSE Stored(VersionOf(b)))
      /\ c.page.hidden \subseteq Elements(q)
      /\ \A e : e # "googleSignInBtn" =>
           (e \in c.page.hidden <=>
              \/ /\ e \in b.page.hidden /\ e \notin Uncovered(q, VersionOf(b))
                 /\ ~Unshown(q) => e # Forgot(VersionOf(b))
                 /\ Merges(b) => e # "goBack"
                 /\ Merges(b) /\ ~FromLocal(b) => e # "mergeAccountMessage"
              \/ Merges(b) /\ e \in Four \cap Elements(q))
  BY MergedIs DEF Unmoved
<1>3. r = Unless(c, AutoMerge(c, ErrorOf(b)))
  BY OnloadParts
<1>4. r = onload(b) /\ b.page.q = q
  OBVIOUS
<1> HIDE DEF v, c, r
<1>5. \A k \in {"automerge", "redirect_uri", "goBackUrl", "identifierValue",
                "passwordFailCount"} : c.session[k] = b.session[k]
  BY <1>1, <1>2 DEF SessionItems
<1>6. \A k \in {"automerge", "redirect_uri", "goBackUrl", "identifierValue"} :
         Value(c, k) = Value(b, k)
  BY <1>2, <1>5 DEF Value
<1>7. c.session.version = Value(b, "version")
  BY <1>1, <1>2
<1>8. CASE Ends(b)
  <2>1. r = c /\ ~Automatic(b) /\ ~Counts(b)
    BY <1>2, <1>3, <1>8 DEF Unless, Automatic, Counts
  <2>2. \A e : e # "googleSignInBtn" =>
           (e \in r.page.hidden <=>
              \/ /\ e \in b.page.hidden /\ e \notin Uncovered(q, VersionOf(b))
                 /\ ~Unshown(q) => e # Forgot(VersionOf(b))
                 /\ Merges(b) \/ Automatic(b) => e # "goBack"
                 /\ Merges(b) /\ ~FromLocal(b) => e # "mergeAccountMessage"
                 /\ Automatic(b) => e # "migrateAccountMessage"
                 /\ Automatic(b) /\ Kept(b) => e # "selfSingUp"
                 /\ Counts(b) => e # "inCorrectPasswordError"
              \/ (Merges(b) \/ Automatic(b)) /\ e \in Four \cap Elements(q)
              \/ Automatic(b) /\ e \in Labels \cap Elements(q)
              \/ Automatic(b) /\ Kept(b) /\ e = "error-summary" /\ e \in Elements(q))
    BY <1>2, <2>1
  <2> QED BY <1>2, <1>4, <1>5, <1>7, <1>8, <2>1, <2>2
<1>9. CASE ~Ends(b) /\ Value(b, "automerge") # "1"
  <2> DEFINE a == getValueFromSession(c, "automerge")
  <2>1. r = a /\ ~Automatic(b) /\ ~Counts(b)
    BY <1>2, <1>3, <1>6, <1>9 DEF Unless, AutoMerge, Automatic, Counts
  <2>2. /\ Unmoved(c, a) /\ a.session["automerge"] = Value(c, "automerge")
        /\ \A k \in SessionItems \ {"automerge", "renderingType"} : a.session[k] = c.session[k]
        /\ a.session_url = c.session_url /\ a.local = c.local /\ a.page = c.page
    BY <1>2, LookUp DEF Items
  <2>3. Unmoved(b, r)
    BY <1>2, <2>1, <2>2, UnmovedTwice
  <2>4. /\ r.session["version"] = Value(b, "version")
        /\ r.session["redirect_uri"] = b.session["redirect_uri"]
        /\ r.session["automerge"] = Value(b, "automerge")
        /\ r.session["goBackUrl"] = b.session["goBackUrl"]
        /\ r.session["identifierValue"] = b.session["identifierValue"]
        /\ r.session["passwordFailCount"] = b.session["passwordFailCount"]
    BY <1>5, <1>6, <1>7, <2>1, <2>2 DEF SessionItems
  <2>5. r.page = c.page /\ r.local = c.local /\ r.session_url = c.session_url
    BY <2>1, <2>2
  <2>6. \A e : e # "googleSignInBtn" =>
           (e \in r.page.hidden <=>
              \/ /\ e \in b.page.hidden /\ e \notin Uncovered(q, VersionOf(b))
                 /\ ~Unshown(q) => e # Forgot(VersionOf(b))
                 /\ Merges(b) \/ Automatic(b) => e # "goBack"
                 /\ Merges(b) /\ ~FromLocal(b) => e # "mergeAccountMessage"
                 /\ Automatic(b) => e # "migrateAccountMessage"
                 /\ Automatic(b) /\ Kept(b) => e # "selfSingUp"
                 /\ Counts(b) => e # "inCorrectPasswordError"
              \/ (Merges(b) \/ Automatic(b)) /\ e \in Four \cap Elements(q)
              \/ Automatic(b) /\ e \in Labels \cap Elements(q)
              \/ Automatic(b) /\ Kept(b) /\ e = "error-summary" /\ e \in Elements(q))
    BY <1>2, <2>1, <2>5
  <2> HIDE DEF a
  <2> QED BY <1>2, <1>4, <1>9, <2>1, <2>3, <2>4, <2>5, <2>6
<1>10. CASE ~Ends(b) /\ Value(b, "automerge") = "1"
  <2>1. r = AutoMerge(c, ErrorOf(b)) /\ Automatic(b)
    BY <1>2, <1>3, <1>10 DEF Unless, Automatic
  <2>2. Kept(c) <=> Kept(b)
    <3>1. RenderedFrom(c, "automerge", c.session.renderingType)
            = RenderedFrom(b, "automerge", b.session.renderingType)
      BY <1>2, <1>5, <1>10, NamesAssumption DEF RenderedFrom, Value
    <3>2. \A k \in {"redirect_uri", "goBackUrl", "identifierValue"} : \A before :
             RenderedFrom(c, k, before) = RenderedFrom(b, k, before)
      BY <1>2, <1>5 DEF RenderedFrom
    <3>3. Rendered(c) = Rendered(b)
      BY <1>2, <3>1, <3>2 DEF Rendered
    <3> QED BY <3>3 DEF Kept
  <2>3. Wrong(c, ErrorOf(b)) <=> Counts(b)
    BY <2>1, <2>2 DEF Wrong, Counts
  <2>4. Value(c, "automerge") = "1"
    BY <1>6, <1>10
  <2>5. /\ Unmoved(c, r) /\ r.local = c.local
        /\ r.session_url = (IF q.automerge # None THEN q ELSE c.session_url)
        /\ r.session.version = c.session.version
        /\ r.session.redirect_uri = (IF q.automerge # None THEN Value(c, "redirect_uri")
                                     ELSE c.session.redirect_uri)
        /\ r.session["automerge"] = Stored(Value(c, "automerge"))
        /\ r.session["goBackUrl"] = Stored(Value(c, "goBackUrl"))
        /\ r.session["identifierValue"] = Stored(Value(c, "identifierValue"))
    BY <1>2, <2>1, <2>4, AutoMergeIs
  <2>6. /\ r.session.passwordFailCount =
             (IF Counts(b) THEN counted ELSE b.session.passwordFailCount)
        /\ r.page.to = (IF Counts(b) /\ counted >= 2 THEN StatusError(q) ELSE b.page.to)
    BY <1>2, <1>5, <2>1, <2>3, <2>4, AutoMergeIs
  <2>7. /\ r.page.signIn = (IF "signIn" \in Elements(q) THEN "merge" ELSE c.page.signIn)
        /\ r.page.goBack = (IF "goBack" \in Elements(q) THEN Value(c, "goBackUrl")
                            ELSE c.page.goBack)
        /\ r.page.forgotVersion = c.page.forgotVersion /\ r.page.threw = c.page.threw
        /\ r.page.hidden \subseteq Elements(q)
    BY <1>2, <2>1, <2>4, AutoMergeIs
  <2>8. \A e : e \in r.page.hidden <=>
                  \/ /\ e \in c.page.hidden /\ e \notin {"migrateAccountMessage", "goBack"}
                     /\ Kept(b) => e # "selfSingUp"
                     /\ Counts(b) => e # "inCorrectPasswordError"
                  \/ /\ e \in Elements(q)
                     /\ e \in Four \cup Labels \/ (Kept(b) /\ e = "error-summary")
    BY <1>2, <2>1, <2>2, <2>3, <2>4, AutoMergeIs
  <2>9. Unmoved(b, r)
    BY <1>2, <2>5, UnmovedTwice
  <2>10. ASSUME NEW e, e # "googleSignInBtn"
         PROVE  e \in r.page.hidden <=>
              \/ /\ e \in b.page.hidden /\ e \notin Uncovered(q, VersionOf(b))
                 /\ ~Unshown(q) => e # Forgot(VersionOf(b))
                 /\ Merges(b) \/ Automatic(b) => e # "goBack"
                 /\ Merges(b) /\ ~FromLocal(b) => e # "mergeAccountMessage"
                 /\ Automatic(b) => e # "migrateAccountMessage"
                 /\ Automatic(b) /\ Kept(b) => e # "selfSingUp"
                 /\ Counts(b) => e # "inCorrectPasswordError"
              \/ (Merges(b) \/ Automatic(b)) /\ e \in Four \cap Elements(q)
              \/ Automatic(b) /\ e \in Labels \cap Elements(q)
              \/ Automatic(b) /\ Kept(b) /\ e = "error-summary" /\ e \in Elements(q)
    BY <1>2, <2>1, <2>8, <2>10
  <2>11. /\ r.session["automerge"] = Value(b, "automerge")
         /\ r.session["goBackUrl"] = Stored(Value(b, "goBackUrl"))
         /\ r.session["identifierValue"] = Stored(Value(b, "identifierValue"))
         /\ r.session["version"] = Value(b, "version")
         /\ r.session["redirect_uri"] = (IF q.automerge # None THEN Value(b, "redirect_uri")
                                         ELSE b.session["redirect_uri"])
    BY <1>5, <1>6, <1>7, <1>10, <2>5, NamesAssumption DEF Stored
  <2>12. /\ r.page.signIn = (IF (Merges(b) \/ Automatic(b)) /\ "signIn" \in Elements(q)
                             THEN "merge" ELSE b.page.signIn)
         /\ r.page.goBack = (IF "goBack" \notin Elements(q) \/ ~(Merges(b) \/ Automatic(b))
                             THEN b.page.goBack
                             ELSE IF Automatic(b) THEN Value(b, "goBackUrl")
                             ELSE IF FromLocal(b) THEN b.local.redirectUrl ELSE q.goBackUrl)
    BY <1>2, <1>6, <2>1, <2>7
  <2> QED BY <1>2, <1>4, <1>10, <2>1, <2>5, <2>6, <2>7, <2>9, <2>10, <2>11, <2>12
<1> QED BY <1>8, <1>9, <1>10

-----------------------------------------------------------------------------
(* Where a click leads, and what it looks up on the way. *)
Destination(b, app, other) ==
  IF b.session_url = None \/ uri(b) = None THEN To(b.page.q.host, "/resource", None)
  ELSE IF b.page.q.client_id \in apps THEN app ELSE other

RedirectTo(b, path) ==
  Destination(b, To(b.session_url.host, path, b.session_url), To(uri(b), path, b.session_url))

SsoTo(b) ==
  Destination(b, With(To(uri(b), "?ssoUrl=", None), b.session_url.host),
                 To(uri(b), "/sign-in/sso/select-org", None))

GoogleTo(b) ==
  Destination(b, With(To(uri(b), "?googleRedirectUrl=", b.session_url),
                      PlainHost(b.session_url.host)),
                 To(uri(b), "/google/auth", b.session_url))

PortalTo(b, path) ==
  LET home == To(b.session_url.host, path, b.session_url)
  IN  Destination(b, home, IF /\ b.page.q.client_id = "portal"
                              /\ path = "/sign-in/sso/select-org"
                              /\ uri(b) \in Docks
                           THEN home ELSE To(uri(b), path, b.session_url))

(* A handler that looked up the items ks, and leads to t. *)
LeadsTo(b, r, ks, t) ==
  /\ Unmoved(b, r)
  /\ \A k \in SessionItems \ (ks \cup {"renderingType"}) : r.session[k] = b.session[k]
  /\ \A k \in ks : r.session[k] = Value(b, k)
  /\ r.session_url = b.session_url /\ r.local = b.local
  /\ \A f \in PageFields \ {"to"} : r.page[f] = b.page[f]
  /\ r.page.to = t

LEMMA RedirectedIs ==
  ASSUME NEW b, Shaped(b), NEW app, NEW other
  PROVE  LeadsTo(b, Redirected(b, app, other), {"redirect_uri"}, Destination(b, app, other))
<1> DEFINE c == getValueFromSession(b, "redirect_uri")
           t == Destination(b, app, other)
           r == [c EXCEPT !.page.to = t]
<1>1. /\ Unmoved(b, c) /\ Shaped(c) /\ c.page = b.page /\ c.local = b.local
      /\ c.session_url = b.session_url
      /\ c.session["redirect_uri"] = Value(b, "redirect_uri")
      /\ \A k \in SessionItems \ {"redirect_uri", "renderingType"} :
            c.session[k] = b.session[k]
  BY LookUp DEF Items, Unmoved
<1>2. Redirected(b, app, other) = r
  <2>1. redirectToLib(c) = [c EXCEPT !.page.to = To(b.page.q.host, "/resource", None)]
    BY <1>1 DEF redirectToLib, Leave
  <2> QED BY <2>1 DEF Redirected, Destination, Leave, uri
<1> HIDE DEF c, t
<1>3. /\ r.session = c.session /\ r.session_url = c.session_url /\ r.local = c.local
      /\ r.page.to = t /\ \A f \in PageFields \ {"to"} : r.page[f] = b.page[f]
  BY <1>1 DEF Shaped, PageFields
<1>4. Unmoved(b, r)
  BY <1>1 DEF Unmoved, Shaped, PageFields
<1> QED BY <1>1, <1>2, <1>3, <1>4 DEF LeadsTo, t

LEMMA RedirectsAre ==
  ASSUME NEW b, Shaped(b), NEW path
  PROVE  /\ LeadsTo(b, redirect(b, path), {"redirect_uri"}, RedirectTo(b, path))
         /\ LeadsTo(b, handleSsoEvent(b), {"redirect_uri"}, SsoTo(b))
         /\ LeadsTo(b, handleGoogleAuthEvent(b), {"redirect_uri"}, GoogleTo(b))
         /\ LeadsTo(b, redirectToPortal(b, path), {"redirect_uri"}, PortalTo(b, path))
  BY RedirectedIs DEF redirect, handleSsoEvent, handleGoogleAuthEvent, redirectToPortal,
     RedirectTo, SsoTo, GoogleTo, PortalTo

(* The way to register, by type and by the version the page sees. *)
NavigateTo(b, type) ==
  LET v == Value(b, "version")
  IN  IF ~Logs THEN b.page.to
      ELSE IF v \in {1, 2} /\ type = "state" THEN SsoTo(b)
      ELSE IF v \in {1, 2} THEN RedirectTo(b, urlMap[type])
      ELSE IF ~AtLeastText3(v) THEN b.page.to
      ELSE IF type = "google" THEN GoogleTo(b)
      ELSE PortalTo(b, urlMap[type])

Leaves(b) == Logs /\ (Value(b, "version") \in {1, 2} \/ AtLeastText3(Value(b, "version")))

NavigateLooksUp(b) == {"version"} \cup (IF Leaves(b) THEN {"redirect_uri"} ELSE {})

LEMMA LeadsTwice ==
  ASSUME NEW b, Shaped(b), NEW r, NEW t,
         LeadsTo(getValueFromSession(b, "version"), r, {"redirect_uri"}, t)
  PROVE  LeadsTo(b, r, {"version", "redirect_uri"}, t)
<1> DEFINE c == getValueFromSession(b, "version")
<1>1. /\ Unmoved(b, c) /\ c.session["version"] = Value(b, "version")
      /\ \A i \in SessionItems \ {"version", "renderingType"} : c.session[i] = b.session[i]
      /\ c.session_url = b.session_url /\ c.local = b.local /\ c.page = b.page
  BY LookUp DEF Items
<1>2. LeadsTo(c, r, {"redirect_uri"}, t)
  OBVIOUS
<1> HIDE DEF c
<1>3. Unmoved(b, r)
  BY <1>1, <1>2, UnmovedTwice DEF LeadsTo
<1>4. Value(c, "redirect_uri") = Value(b, "redirect_uri")
  BY <1>1 DEF SessionItems, Value
<1>5. r.session["version"] = Value(b, "version")
  BY <1>1, <1>2 DEF LeadsTo, SessionItems
<1>6. r.session["redirect_uri"] = Value(b, "redirect_uri")
  BY <1>2, <1>4 DEF LeadsTo
<1>7. \A i \in SessionItems \ {"version", "redirect_uri", "renderingType"} :
         r.session[i] = b.session[i]
  BY <1>1, <1>2 DEF LeadsTo
<1> QED BY <1>1, <1>2, <1>3, <1>5, <1>6, <1>7 DEF LeadsTo

LEMMA SameLeads ==
  ASSUME NEW b, Shaped(b), NEW c, c.page = b.page, c.session_url = b.session_url,
         c.session["redirect_uri"] = b.session["redirect_uri"], NEW path
  PROVE  RedirectTo(c, path) = RedirectTo(b, path) /\ SsoTo(c) = SsoTo(b)
         /\ GoogleTo(c) = GoogleTo(b) /\ PortalTo(c, path) = PortalTo(b, path)
<1>1. uri(c) = uri(b)
  BY DEF uri, Value
<1> QED BY <1>1 DEF RedirectTo, SsoTo, GoogleTo, PortalTo, Destination

LEMMA NavigateIs ==
  ASSUME NEW b, Shaped(b), NEW type
  PROVE  LeadsTo(b, navigate(b, type), NavigateLooksUp(b), NavigateTo(b, type))
<1> DEFINE c == getValueFromSession(b, "version")
           r == navigate(b, type)
           v == Value(b, "version")
<1>1. /\ Unmoved(b, c) /\ Shaped(c) /\ c.session["version"] = Value(b, "version")
      /\ \A i \in SessionItems \ {"version", "renderingType"} : c.session[i] = b.session[i]
      /\ c.session_url = b.session_url /\ c.local = b.local /\ c.page = b.page
  BY LookUp DEF Items, Unmoved
<1>2. LeadsTo(b, c, {"version"}, b.page.to)
  BY <1>1 DEF LeadsTo
<1>3. \A p : /\ RedirectTo(c, p) = RedirectTo(b, p) /\ SsoTo(c) = SsoTo(b)
             /\ GoogleTo(c) = GoogleTo(b) /\ PortalTo(c, p) = PortalTo(b, p)
  BY <1>1, SameLeads DEF SessionItems
<1>4. \A p : /\ LeadsTo(b, redirect(c, p), {"version", "redirect_uri"}, RedirectTo(b, p))
             /\ LeadsTo(b, handleSsoEvent(c), {"version", "redirect_uri"}, SsoTo(b))
             /\ LeadsTo(b, handleGoogleAuthEvent(c), {"version", "redirect_uri"}, GoogleTo(b))
             /\ LeadsTo(b, redirectToPortal(c, p), {"version", "redirect_uri"}, PortalTo(b, p))
  BY <1>1, <1>3, RedirectsAre, LeadsTwice
<1>5. r = IF ~Logs THEN c
          ELSE IF v \in {1, 2} /\ type = "state" THEN handleSsoEvent(c)
          ELSE IF v \in {1, 2} THEN redirect(c, urlMap[type])
          ELSE IF ~AtLeastText3(v) THEN c
          ELSE IF type = "google" THEN handleGoogleAuthEvent(c)
          ELSE redirectToPortal(c, urlMap[type])
  BY DEF navigate
<1> HIDE DEF c, r, v
<1>6. CASE Leaves(b)
  <2>1. NavigateLooksUp(b) = {"version", "redirect_uri"}
    BY <1>6 DEF NavigateLooksUp
  <2>2. LeadsTo(b, r, {"version", "redirect_uri"}, NavigateTo(b, type))
    BY <1>4, <1>5, <1>6 DEF Leaves, NavigateTo, v
  <2> QED BY <2>1, <2>2 DEF r
<1>7. CASE ~Leaves(b)
  <2>1. NavigateLooksUp(b) = {"version"}
    BY <1>7 DEF NavigateLooksUp
  <2>2. r = c /\ NavigateTo(b, type) = b.page.to
    BY <1>5, <1>7 DEF Leaves, NavigateTo, v
  <2> QED BY <1>2, <2>1, <2>2 DEF r
<1> QED BY <1>6, <1>7

-----------------------------------------------------------------------------
(* What holds of the tab whatever the pages are, and the numbers that bound it. *)
Here == Browser(page)

(* A page is not None. *)
PageApart == DOMAIN None # PageFields

Visit == [q : Requests, alive : BOOLEAN, done : BOOLEAN, looked : BOOLEAN, merging : BOOLEAN]

SessionType ==
  /\ DOMAIN session = SessionItems
  /\ \A k \in {"version", "redirect_uri"} : session[k] \in Given(k) \ {Null}
  /\ \A k \in {"automerge", "goBackUrl", "identifierValue"} : session[k] \in Given(k)
  /\ session.renderingType \in {None, "queryParams", "sessionStorage"}
  /\ session.url \in Requests \cup {None}
  /\ session.passwordFailCount \in Nat

StoragesType ==
  /\ session_url \in Requests \cup {None}
  /\ local.mergeaccountprocess \in {None, "1"}
  /\ local.version \in Given("version") /\ local.redirectUrl \in Given("goBackUrl")

(* The page but for its counters. *)
OpenPage ==
  /\ page.q \in Requests
  /\ page.alive \in BOOLEAN /\ page.loaded \in BOOLEAN /\ page.threw \in BOOLEAN
  /\ page.disabled \in BOOLEAN /\ page.unClickable \in BOOLEAN
  /\ page.orgInfo \in {"never", "asked", "known", "undefined"}
  /\ page.hidden \subseteq Elements(page.q)
  /\ page.signIn \in {"login", "merge"} /\ page.goBack \in Given("goBackUrl")
  /\ page.forgotVersion \in Given("version")
  /\ page.threw = TRUE => page.loaded = TRUE
  /\ page.loaded = TRUE => page.alive = TRUE
  /\ page.alive = TRUE <=> Evaluates(page.q)

(* Until its onload, a page is as the server rendered it. *)
AsRendered ==
  page.loaded = FALSE =>
    /\ page.signIn = "login"
    /\ \A e \in InitiallyHidden \ Labels : e \in Elements(page.q) => e \in page.hidden

(* The timers of a login page that wait, and those that are over. *)
TimersType ==
  /\ page.submitting \in Nat /\ page.leaving \in Nat /\ page.clicks \in 0..MaxSteps
  /\ page.submits \in Nat /\ page.early \in Nat
  /\ page.submits + page.submitting = page.early
  /\ page.submits > 0 => page.disabled = TRUE
  /\ page.early <= page.clicks /\ page.leaving <= page.clicks

PageInv ==
  page # None => DOMAIN page = PageFields /\ OpenPage /\ AsRendered /\ TimersType

VisitsInv ==
  /\ visits \in Seq(Visit) /\ Len(visits) <= MaxPages
  /\ page = None <=> visits = <<>>
  /\ page # None => LET v == visits[Len(visits)]
                    IN  /\ v.q = page.q /\ v.alive = page.alive
                        /\ v.done = TRUE <=> page.loaded = TRUE /\ page.threw = FALSE
                        /\ v.done = TRUE => v.looked = TRUE

(* A page counts one wrong password at most, and in its onload. *)
CountInv ==
  /\ page = None => session.passwordFailCount = 0
  /\ page # None => session.passwordFailCount
                      + (IF page.loaded = TRUE THEN 0 ELSE 1) <= Len(visits)

TabInv == SessionType /\ StoragesType /\ PageInv /\ VisitsInv /\ CountInv

LEMMA HereShaped == ASSUME TabInv, page # None PROVE Shaped(Here)
  BY DEF TabInv, SessionType, PageInv, Shaped, Here, Browser

LEMMA GivenValues ==
  ASSUME NEW q \in Requests, NEW k
  PROVE  q[k] \in Given(k) /\ None \in Given(k) /\ Null \in Given(k)
  BY DEF Given

(* A page that is opened. *)
LEMMA OpenIs ==
  ASSUME PageApart, TabInv, NEW q \in Requests, Open(q)
  PROVE  /\ page' = NewPage(q) /\ page' # None /\ DOMAIN page' = PageFields
         /\ DOMAIN session' = SessionItems
         /\ \A k \in SessionItems \ {"redirect_uri", "renderingType"} : session'[k] = session[k]
         /\ session'.renderingType \in {session.renderingType, "queryParams", "sessionStorage"}
         /\ session'.redirect_uri = (IF Evaluates(q) /\ q.redirect_uri # None
                                     THEN q.redirect_uri ELSE session.redirect_uri)
         /\ session_url' = (IF Evaluates(q) /\ session_url = None THEN q ELSE session_url)
         /\ local' = local
<1> DEFINE p == NewPage(q)
           b == Browser(p)
           c == getValueFromSession(b, "redirect_uri")
<1>1. /\ session' = Opened(b).session /\ session_url' = Opened(b).session_url
      /\ local' = Opened(b).local /\ page' = Opened(b).page
  BY DEF Open, Commit
<1>2. /\ DOMAIN p = PageFields /\ p.q = q /\ p.alive = Evaluates(q)
  BY DEF NewPage, PageFields
<1>3. p = NewPage(q)
  OBVIOUS
<1> HIDE DEF p
<1>4. /\ Shaped(b) /\ b.page = p /\ b.session = session /\ b.session_url = session_url
      /\ b.local = local
  BY <1>2 DEF TabInv, SessionType, Shaped, Browser
<1>5. /\ Unmoved(b, c) /\ c.session["redirect_uri"] = Value(b, "redirect_uri")
      /\ \A k \in SessionItems \ {"redirect_uri", "renderingType"} : c.session[k] = b.session[k]
      /\ c.session_url = b.session_url /\ c.local = b.local /\ c.page = b.page
  BY <1>4, LookUp DEF Items
<1>6. DOMAIN page' = PageFields /\ page' = p /\ page' # None
  <2>1. CASE Evaluates(q)
    <3>1. Opened(b).page = c.page
      BY <1>2, <1>4, <1>5, <2>1 DEF Opened, initialize, Shaped, Unmoved
    <3> QED BY <1>1, <1>2, <1>4, <1>5, <3>1 DEF PageApart
  <2>2. CASE ~Evaluates(q)
    <3>1. Opened(b) = b
      BY <1>2, <1>4, <2>2 DEF Opened
    <3> QED BY <1>1, <1>2, <1>4, <3>1 DEF PageApart
  <2> QED BY <2>1, <2>2
<1>7. CASE ~Evaluates(q)
  <2>1. Opened(b) = b
    BY <1>2, <1>4, <1>7 DEF Opened
  <2> QED BY <1>1, <1>3, <1>4, <1>6, <1>7, <2>1 DEF TabInv, SessionType
<1>8. CASE Evaluates(q)
  <2> DEFINE d == [c EXCEPT !.session_url = b.page.q]
  <2>1. Opened(b) = (IF session_url = None THEN d ELSE c)
    BY <1>2, <1>4, <1>5, <1>8 DEF Opened, initialize
  <2>2. /\ d.session = c.session /\ d.session_url = q /\ d.local = c.local
    BY <1>2, <1>4, <1>5 DEF Unmoved, Shaped
  <2> HIDE DEF d
  <2>3. session' = c.session /\ local' = local
        /\ session_url' = (IF session_url = None THEN q ELSE session_url)
    BY <1>1, <1>4, <1>5, <2>1, <2>2
  <2>4. c.session["redirect_uri"] = (IF q.redirect_uri # None THEN q.redirect_uri
                                     ELSE session["redirect_uri"])
    BY <1>2, <1>4, <1>5 DEF Value
  <2>5. DOMAIN c.session = SessionItems
        /\ c.session.renderingType \in {session.renderingType, "queryParams", "sessionStorage"}
    BY <1>4, <1>5 DEF Unmoved, Shaped
  <2>6. \A k \in SessionItems \ {"redirect_uri", "renderingType"} : c.session[k] = session[k]
    BY <1>4, <1>5
  <2> QED BY <1>3, <1>6, <1>8, <2>3, <2>4, <2>5, <2>6
<1> QED BY <1>7, <1>8

(* A page that is loaded. *)
Loading == Browser([page EXCEPT !.loaded = TRUE])

LEMMA LoadIs ==
  ASSUME PageApart, TabInv, Onload
  PROVE  /\ Fresh(Loading) /\ page # None /\ page.alive = TRUE /\ page.loaded = FALSE
         /\ Loading.session = session /\ Loading.session_url = session_url
         /\ Loading.local = local /\ Loading.page.loaded = TRUE
         /\ \A f \in PageFields \ {"loaded"} : Loading.page[f] = page[f]
         /\ session' = onload(Loading).session /\ session_url' = onload(Loading).session_url
         /\ local' = onload(Loading).local /\ page' = onload(Loading).page
         /\ page' # None
<1>1. /\ page # None /\ page.alive = TRUE /\ page.loaded = FALSE
      /\ session' = onload(Loading).session /\ session_url' = onload(Loading).session_url
      /\ local' = onload(Loading).local /\ page' = onload(Loading).page
  BY DEF Onload, Commit, Loading, TabInv, PageInv, OpenPage
<1>2. /\ DOMAIN Loading.page = PageFields /\ Loading.page.loaded = TRUE
      /\ \A f \in PageFields \ {"loaded"} : Loading.page[f] = page[f]
      /\ Loading.session = session /\ Loading.session_url = session_url
      /\ Loading.local = local
      /\ DOMAIN Loading = {"session", "session_url", "local", "page"}
  BY <1>1 DEF Loading, Browser, TabInv, PageInv, PageFields
<1>3. Shaped(Loading)
  BY <1>2 DEF Shaped, TabInv, SessionType
<1>4. /\ Loading.page["q"] = page["q"] /\ Loading.page["threw"] = page["threw"]
      /\ Loading.page["signIn"] = page["signIn"] /\ Loading.page["hidden"] = page["hidden"]
  BY <1>2 DEF PageFields
<1>5. /\ page.q \in Requests /\ page.threw = FALSE /\ page.signIn = "login"
      /\ page.hidden \subseteq Elements(page.q)
      /\ "mergeAccountMessage" \in Elements(page.q) => "mergeAccountMessage" \in page.hidden
  <2>1. page.threw \in BOOLEAN /\ (page.threw = TRUE => page.loaded = TRUE)
    BY <1>1 DEF TabInv, PageInv, OpenPage
  <2>2. page.threw = FALSE
    BY <1>1, <2>1
  <2>3. "mergeAccountMessage" \in InitiallyHidden \ Labels
    BY DEF InitiallyHidden, Labels
  <2> QED BY <1>1, <2>2, <2>3 DEF TabInv, PageInv, OpenPage, AsRendered
<1>6. Fresh(Loading)
  BY <1>3, <1>4, <1>5 DEF Fresh
<1>7. DOMAIN onload(Loading).page = PageFields
  BY <1>6, OnloadIs DEF Unmoved, Shaped
<1> QED BY <1>1, <1>2, <1>6, <1>7 DEF PageApart

-----------------------------------------------------------------------------
(* The steps of an open page other than onload. *)

(* What the redirects go to: the query of the tab's page, if any. *)
StatusPath == "/sign-in/sso/auth?status=error"

Led(b, t) ==
  \/ t = b.page.to
  \/ /\ t.path # StatusPath
     /\ t.query \in Requests => /\ b.session_url # None /\ uri(b) # None
                                 /\ t.query = b.session_url
                                 /\ t.host \in {uri(b), b.session_url.host}

LEMMA RedirectsLed ==
  ASSUME NEW b, NEW path, path # StatusPath
  PROVE  /\ Led(b, RedirectTo(b, path)) /\ Led(b, SsoTo(b))
         /\ Led(b, GoogleTo(b)) /\ Led(b, PortalTo(b, path))
<1>1. \A h, p : To(h, p, None).query \notin Requests /\ To(h, p, None).path = p
  BY NamesAssumption DEF To
<1>2. \A h, p, a : /\ With(To(h, p, None), a).query \notin Requests
                     /\ With(To(h, p, None), a).path = p
  BY NamesAssumption DEF To, With
<1>3. \A h, p, r : To(h, p, r).query = r /\ To(h, p, r).host = h
                  /\ To(h, p, r).path = p
  BY DEF To
<1>4. \A h, p, r, a : /\ With(To(h, p, r), a).query = r /\ With(To(h, p, r), a).host = h
                        /\ With(To(h, p, r), a).path = p
  BY DEF To, With
<1>5. ASSUME NEW app, NEW other, Led(b, app) \/ b.session_url = None \/ uri(b) = None,
             Led(b, other) \/ b.session_url = None \/ uri(b) = None
      PROVE  Led(b, Destination(b, app, other))
  BY <1>1, <1>5 DEF Destination, Led, StatusPath
<1>6. ASSUME b.session_url # None, uri(b) # None
      PROVE  /\ Led(b, To(b.session_url.host, path, b.session_url))
             /\ Led(b, To(uri(b), path, b.session_url))
             /\ Led(b, To(uri(b), "/google/auth", b.session_url))
  BY <1>3, <1>6 DEF Led, StatusPath
<1>7. /\ Led(b, With(To(uri(b), "?ssoUrl=", None), b.session_url.host))
      /\ Led(b, To(uri(b), "/sign-in/sso/select-org", None))
  BY <1>1, <1>2 DEF Led, StatusPath
<1>8. ASSUME b.session_url # None, uri(b) # None
      PROVE  Led(b, With(To(uri(b), "?googleRedirectUrl=", b.session_url),
                         PlainHost(b.session_url.host)))
  BY <1>4, <1>8 DEF Led, StatusPath
<1>9. Led(b, RedirectTo(b, path)) /\ Led(b, SsoTo(b)) /\ Led(b, GoogleTo(b))
  BY <1>5, <1>6, <1>7, <1>8 DEF RedirectTo, SsoTo, GoogleTo
<1>10. Led(b, PortalTo(b, path))
  BY <1>5, <1>6 DEF PortalTo
<1> QED BY <1>9, <1>10

(* Only the script of a page looks up the redirect_uri, and leaves with a query. *)
Scripted(found, t) ==
  \/ page.alive = TRUE
  \/ found = session.redirect_uri /\ (t = page.to \/ t.query \notin Requests)

(* What a handler leaves of the page and of the storages. *)
Stays ==
  /\ page' # None /\ DOMAIN page' = PageFields /\ DOMAIN session' = SessionItems
  /\ \A f \in {"q", "alive", "loaded", "threw", "signIn", "goBack", "forgotVersion"} :
        page'[f] = page[f]
  /\ \A e : e \notin Labels => (e \in page'.hidden <=> e \in page.hidden)
  /\ page'.hidden \subseteq page.hidden \cup Elements(page.q)
  /\ \A k \in {"version", "redirect_uri"} : session'[k] \in {session[k], Value(Here, k)}
  /\ \A k \in {"goBackUrl", "identifierValue", "passwordFailCount"} : session'[k] = session[k]
  /\ session'.renderingType \in {session.renderingType, "queryParams", "sessionStorage"}
  /\ session'.url \in {session.url, page.q}
  /\ session_url' = session_url /\ local' = local /\ asked' = asked
  /\ Led(Here, page'.to) /\ Scripted(session'.redirect_uri, page'.to)

(* Only the focus looks for automerge. *)
Looks ==
  \/ visits' = visits /\ session'.automerge = session.automerge
  \/ /\ visits' = [visits EXCEPT ![Len(visits)].looked = TRUE]
     /\ session'.automerge = Value(Here, "automerge") /\ page.alive = TRUE

(* The timers of a page, and its other counters. *)
LoginClick ==
  /\ page.disabled = FALSE /\ page'.disabled = FALSE
  /\ page'.submitting = page.submitting + 1
  /\ page'.early = page.early + (IF page.submits = 0 THEN 1 ELSE 0)
  /\ page'.submits = page.submits /\ page'.leaving = page.leaving
  /\ page'.clicks = page.clicks + 1 /\ page'.clicks \in 0..MaxSteps

LoginTimer ==
  /\ page.submitting > 0 /\ page'.submitting = page.submitting - 1
  /\ page'.submits = page.submits + 1 /\ page'.disabled = TRUE
  /\ page'.early = page.early /\ page'.leaving = page.leaving /\ page'.clicks = page.clicks

ForgotClick ==
  /\ page'.leaving \in {page.leaving, page.leaving + 1}
  /\ \A f \in {"submitting", "submits", "early", "disabled"} : page'[f] = page[f]
  /\ page'.clicks = page.clicks + 1 /\ page'.clicks \in 0..MaxSteps

ForgotTimer ==
  /\ page.leaving > 0 /\ page'.leaving = page.leaving - 1
  /\ \A f \in {"submitting", "submits", "early", "disabled", "clicks"} : page'[f] = page[f]

NoTimer ==
  \A f \in {"submitting", "submits", "early", "disabled", "clicks", "leaving"} :
     page'[f] = page[f]

Ticks == LoginClick \/ LoginTimer \/ ForgotClick \/ ForgotTimer \/ NoTimer

Handled ==
  /\ page # None /\ Stays /\ Looks /\ Ticks
  /\ page'.unClickable \in BOOLEAN
  /\ page'.orgInfo \in {"never", "asked", "known", "undefined"}

LEMMA OrgHandled ==
  ASSUME PageApart, TabInv, NEW found \in BOOLEAN, OrgAnswered(found)
  PROVE  Handled
<1>1. /\ page # None /\ DOMAIN page' = PageFields
      /\ \A f \in PageFields \ {"orgInfo"} : page'[f] = page[f]
      /\ page'.orgInfo \in {"known", "undefined"}
      /\ UNCHANGED <<session, session_url, local, form, visits, asked>>
  BY DEF OrgAnswered, TabInv, PageInv, PageFields
<1>2. \A f \in {"q", "alive", "loaded", "threw", "signIn", "goBack", "forgotVersion", "hidden",
                "unClickable", "to", "submitting", "submits", "early", "disabled", "clicks",
                "leaving"} : page'[f] = page[f]
  BY <1>1 DEF PageFields
<1>3. page'.hidden = page.hidden /\ page'.to = page.to /\ page'.unClickable = page.unClickable
  BY <1>2
<1>4. Led(Here, page'.to)
  BY <1>3 DEF Led, Here, Browser
<1>5. Stays
  BY <1>1, <1>2, <1>3, <1>4 DEF Stays, Scripted, TabInv, SessionType, PageApart
<1>6. Looks /\ Ticks
  BY <1>1, <1>2 DEF Looks, Ticks, NoTimer
<1> QED BY <1>1, <1>3, <1>5, <1>6 DEF Handled, TabInv, PageInv, OpenPage

LEMMA ClickIs ==
  ASSUME NEW r, Shaped(r), Click(r)
  PROVE  /\ session' = r.session /\ session_url' = r.session_url /\ local' = r.local
         /\ DOMAIN page' = PageFields
         /\ \A f \in PageFields \ {"clicks"} : page'[f] = r.page[f]
         /\ page'.clicks = r.page.clicks + 1
         /\ Len(visits) + page.clicks < MaxSteps
         /\ visits' = visits /\ asked' = asked
<1> DEFINE c == [r EXCEPT !.page.clicks = @ + 1]
<1>1. /\ session' = c.session /\ session_url' = c.session_url /\ local' = c.local
      /\ page' = c.page /\ visits' = visits /\ asked' = asked
      /\ Len(visits) + page.clicks < MaxSteps
  BY DEF Click, Handler, Commit
<1>2. /\ c.session = r.session /\ c.session_url = r.session_url /\ c.local = r.local
      /\ DOMAIN c.page = PageFields /\ c.page.clicks = r.page.clicks + 1
      /\ \A f \in PageFields \ {"clicks"} : c.page[f] = r.page[f]
  BY DEF Shaped, PageFields
<1> QED BY <1>1, <1>2

(* A click that shows nothing and looks up what it needs. *)
Plainly(r) ==
  /\ Shaped(r)
  /\ \A f \in {"q", "alive", "loaded", "threw", "signIn", "goBack", "forgotVersion", "hidden",
               "orgInfo", "disabled", "submits", "clicks"} : r.page[f] = page[f]
  /\ r.page.unClickable \in BOOLEAN
  /\ \/ r.page.submitting = page.submitting /\ r.page.early = page.early
        /\ r.page.leaving \in {page.leaving, page.leaving + 1}
     \/ /\ page.disabled = FALSE /\ r.page.submitting = page.submitting + 1
        /\ r.page.early = page.early + (IF page.submits = 0 THEN 1 ELSE 0)
        /\ r.page.leaving = page.leaving
  /\ \A k \in {"version", "redirect_uri"} : r.session[k] \in {session[k], Value(Here, k)}
  /\ \A k \in {"automerge", "goBackUrl", "identifierValue", "passwordFailCount"} :
        r.session[k] = session[k]
  /\ r.session.renderingType \in {session.renderingType, "queryParams", "sessionStorage"}
  /\ r.session.url \in {session.url, page.q}
  /\ r.session_url = session_url /\ r.local = local
  /\ Led(Here, r.page.to) /\ Scripted(r.session.redirect_uri, r.page.to)

LEMMA ClickHandled ==
  ASSUME PageApart, TabInv, page # None, NEW r, Plainly(r), Click(r)
  PROVE  Handled
<1>1. /\ session' = r.session /\ session_url' = r.session_url /\ local' = r.local
      /\ DOMAIN page' = PageFields
      /\ \A f \in PageFields \ {"clicks"} : page'[f] = r.page[f]
      /\ page'.clicks = r.page.clicks + 1
      /\ Len(visits) + page.clicks < MaxSteps
      /\ visits' = visits /\ asked' = asked
  BY ClickIs DEF Plainly
<1>2. \A f \in {"q", "alive", "loaded", "threw", "signIn", "goBack", "forgotVersion", "hidden",
                "orgInfo", "disabled", "submits"} : page'[f] = page[f]
  BY <1>1 DEF PageFields, Plainly
<1>3. page'.clicks = page.clicks + 1 /\ page'.clicks \in 0..MaxSteps
  <2>1. page'.clicks = page.clicks + 1
    BY <1>1 DEF Plainly
  <2>2. page.clicks \in 0..MaxSteps /\ Len(visits) \in Nat
    BY DEF TabInv, PageInv, TimersType, VisitsInv
  <2> QED BY <1>1, <2>1, <2>2, BoundsAssumption
<1>4. /\ page'.unClickable = r.page.unClickable /\ page'.to = r.page.to
      /\ page'.submitting = r.page.submitting /\ page'.early = r.page.early
      /\ page'.leaving = r.page.leaving
  BY <1>1 DEF PageFields
<1>5. page'.hidden = page.hidden
  BY <1>2
<1>6. Stays
  BY <1>1, <1>2, <1>4, <1>5 DEF Stays, Plainly, Shaped, PageApart
<1>7. Looks
  BY <1>1 DEF Looks, Plainly
<1>8. Ticks
  <2>1. page'.disabled = page.disabled /\ page'.submits = page.submits
    BY <1>2
  <2>2. CASE /\ r.page.submitting = page.submitting /\ r.page.early = page.early
             /\ r.page.leaving \in {page.leaving, page.leaving + 1}
    BY <1>3, <1>4, <2>1, <2>2 DEF Ticks, ForgotClick
  <2>3. CASE /\ page.disabled = FALSE /\ r.page.submitting = page.submitting + 1
             /\ r.page.early = page.early + (IF page.submits = 0 THEN 1 ELSE 0)
             /\ r.page.leaving = page.leaving
    BY <1>3, <1>4, <2>1, <2>3 DEF Ticks, LoginClick
  <2> QED BY <2>2, <2>3 DEF Plainly
<1>9. page'.orgInfo \in {"never", "asked", "known", "undefined"} /\ page'.unClickable \in BOOLEAN
  BY <1>2, <1>4 DEF Plainly, TabInv, PageInv, OpenPage
<1> QED BY <1>6, <1>7, <1>8, <1>9 DEF Handled

LEMMA HereIs ==
  ASSUME TabInv, page # None
  PROVE  /\ Shaped(Here) /\ Here.page = page /\ Here.session = session
         /\ Here.session_url = session_url /\ Here.local = local /\ Here = Browser(page)
         /\ page.unClickable \in BOOLEAN
  BY DEF TabInv, SessionType, PageInv, OpenPage, Shaped, Here, Browser

LEMMA LedPlainly ==
  ASSUME TabInv, page # None, NEW r, NEW ks \in SUBSET {"version", "redirect_uri"}, NEW t,
         page.alive = TRUE,
         NEW b, Shaped(b), b.session = session, b.session_url = session_url, b.local = local,
         b.page.unClickable \in BOOLEAN,
         \A f \in PageFields \ {"unClickable"} : b.page[f] = page[f],
         LeadsTo(b, r, ks, t), Led(Here, t)
  PROVE  Plainly(r)
<1>1. /\ Unmoved(b, r) /\ Shaped(r)
      /\ \A k \in SessionItems \ (ks \cup {"renderingType"}) : r.session[k] = session[k]
      /\ \A k \in ks : r.session[k] = Value(b, k)
      /\ r.session_url = session_url /\ r.local = local
      /\ \A f \in PageFields \ {"to", "unClickable"} : r.page[f] = page[f]
      /\ r.page.to = t /\ r.page.unClickable = b.page.unClickable
  BY DEF LeadsTo, Unmoved, PageFields
<1>2. \A k \in {"version", "redirect_uri"} : Value(b, k) = Value(Here, k)
  <2>1. b.page["q"] = page["q"]
    BY DEF PageFields
  <2> QED BY <2>1, HereIs DEF Value
<1>3. \A k \in {"version", "redirect_uri"} : r.session[k] \in {session[k], Value(Here, k)}
  BY <1>1, <1>2 DEF SessionItems
<1>4. \A k \in {"automerge", "goBackUrl", "identifierValue", "passwordFailCount", "url"} :
        r.session[k] = session[k]
  BY <1>1 DEF SessionItems
<1>5. \A f \in {"q", "alive", "loaded", "threw", "signIn", "goBack", "forgotVersion", "hidden",
               "orgInfo", "disabled", "submits", "clicks", "submitting", "early", "leaving"} :
         r.page[f] = page[f]
  BY <1>1 DEF PageFields
<1>6. r.session.renderingType \in {session.renderingType, "queryParams", "sessionStorage"}
  BY <1>1 DEF Unmoved
<1> QED BY <1>1, <1>3, <1>4, <1>5, <1>6 DEF Plainly, Scripted

LEMMA LedHere ==
  ASSUME TabInv, page # None, NEW b, b.session = session, b.session_url = session_url,
         \A f \in PageFields \ {"unClickable"} : b.page[f] = page[f], NEW t, Led(b, t)
  PROVE  Led(Here, t)
<1>1. b.page["q"] = page["q"] /\ b.page["to"] = page["to"]
  BY DEF PageFields
<1>2. uri(b) = uri(Here)
  BY <1>1, HereIs DEF uri, Value
<1> QED BY <1>1, <1>2, HereIs DEF Led

LEMMA NavigateHandled ==
  ASSUME PageApart, TabInv, NEW e, NEW type \in {"self", "google", "state"},
         Navigate(e, type)
  PROVE  Handled
<1> DEFINE r == navigate(Here, type)
<1>1. page # None /\ Click(r) /\ page.alive = TRUE
  BY DEF Navigate, Shown, ShownOn, Here, TabInv, PageInv, OpenPage
<1>2. Led(Here, NavigateTo(Here, type))
  <2>0. urlMap[type] # StatusPath
    BY DEF urlMap, StatusPath
  <2>1. /\ Led(Here, RedirectTo(Here, urlMap[type])) /\ Led(Here, SsoTo(Here))
        /\ Led(Here, GoogleTo(Here)) /\ Led(Here, PortalTo(Here, urlMap[type]))
    BY <2>0, RedirectsLed
  <2>2. Led(Here, Here.page.to)
    BY DEF Led
  <2> QED BY <2>1, <2>2 DEF NavigateTo
<1>3. LeadsTo(Here, r, NavigateLooksUp(Here), NavigateTo(Here, type))
  BY <1>1, HereIs, NavigateIs
<1>4. NavigateLooksUp(Here) \in SUBSET {"version", "redirect_uri"}
  BY DEF NavigateLooksUp
<1> HIDE DEF r
<1>5. Plainly(r)
  <2> DEFINE t == NavigateTo(Here, type)
             ks == NavigateLooksUp(Here)
  <2>1. LeadsTo(Here, r, ks, t) /\ Led(Here, t) /\ ks \in SUBSET {"version", "redirect_uri"}
    BY <1>2, <1>3, <1>4
  <2> HIDE DEF t, ks
  <2> QED BY <1>1, <2>1, HereIs, LedPlainly
<1> QED BY <1>1, <1>5, ClickHandled

LEMMA ForgotPortalHandled ==
  ASSUME PageApart, TabInv, ForgotPortal
  PROVE  Handled
<1> DEFINE b == [Browser(page) EXCEPT !.page.unClickable = TRUE]
           r == redirect(b, "/recover/identify/account")
           t == RedirectTo(b, "/recover/identify/account")
<1>1. page # None /\ Click(IF Logs THEN r ELSE b) /\ page.alive = TRUE
  <2>1. page # None /\ Click(IF Logs THEN r ELSE b)
    BY DEF ForgotPortal, Shown, ShownOn, forgetPassword
  <2>2. "fgtPortalFlow" \in Elements(page.q) /\ "fgtPortalFlow" \notin page.hidden
    BY DEF ForgotPortal, Shown, ShownOn
  <2>3. "fgtPortalFlow" \in InitiallyHidden \ Labels
    BY DEF InitiallyHidden, Labels
  <2>4. page.loaded # FALSE
    BY <2>1, <2>2, <2>3 DEF TabInv, PageInv, AsRendered
  <2>5. page.alive = TRUE
    BY <2>1, <2>4 DEF TabInv, PageInv, OpenPage
  <2> QED BY <2>1, <2>5
<1>2. /\ Shaped(b) /\ b.session = session /\ b.session_url = session_url /\ b.local = local
      /\ b.page.unClickable = TRUE
      /\ \A f \in PageFields \ {"unClickable"} : b.page[f] = page[f]
  BY <1>1, HereIs DEF Shaped, PageFields
<1>3. LeadsTo(b, r, {"redirect_uri"}, t) /\ Led(b, t) /\ Led(b, page.to)
  <2>1. LeadsTo(b, r, {"redirect_uri"}, t) /\ Led(b, t)
    <3>1. "/recover/identify/account" # StatusPath
      BY DEF StatusPath
    <3> QED BY <1>2, <3>1, RedirectsAre, RedirectsLed
  <2>2. b.page["to"] = page["to"]
    BY <1>2 DEF PageFields
  <2> QED BY <2>1, <2>2 DEF Led
<1> HIDE DEF b, r, t
<1>4. Led(Here, t) /\ Led(Here, page.to)
  BY <1>1, <1>2, <1>3, LedHere
<1>5. Plainly(r)
  BY <1>1, <1>2, <1>3, <1>4, LedPlainly
<1>6. Plainly(b)
  <2>1. LeadsTo(b, b, {}, page.to)
    <3>1. Unmoved(b, b)
      BY <1>2, ShapedShows
    <3>2. b.page["to"] = page["to"]
      BY <1>2 DEF PageFields
    <3> QED BY <3>1, <3>2 DEF LeadsTo
  <2> QED BY <1>1, <1>2, <1>4, <2>1, LedPlainly
<1> QED BY <1>1, <1>5, <1>6, ClickHandled

LEMMA ForgotKeycloakHandled ==
  ASSUME PageApart, TabInv, ForgotKeycloak
  PROVE  Handled
<1> DEFINE b == [Browser(page) EXCEPT !.page.unClickable = TRUE, !.session.url = page.q]
           r == IF Logs THEN [b EXCEPT !.page.leaving = @ + 1] ELSE b
<1>1. page # None /\ Click(r)
  BY DEF ForgotKeycloak, Shown, ShownOn
<1>2. /\ Shaped(b) /\ b.session_url = session_url /\ b.local = local
      /\ b.page.unClickable = TRUE /\ b.session.url = page.q
      /\ \A f \in PageFields \ {"unClickable"} : b.page[f] = page[f]
      /\ \A k \in SessionItems \ {"url"} : b.session[k] = session[k]
  BY <1>1, HereIs DEF Shaped, PageFields, SessionItems
<1> HIDE DEF b
<1>3. /\ Shaped(r) /\ r.session_url = session_url /\ r.local = local
      /\ r.page.unClickable = TRUE /\ r.session = b.session
      /\ \A f \in PageFields \ {"unClickable", "leaving"} : r.page[f] = page[f]
      /\ r.page.leaving \in {page.leaving, page.leaving + 1}
  BY <1>2 DEF Shaped, PageFields
<1> HIDE DEF r
<1>4. \A f \in {"q", "alive", "loaded", "threw", "signIn", "goBack", "forgotVersion", "hidden",
                "orgInfo", "disabled", "submits", "clicks", "submitting", "early", "to"} :
         r.page[f] = page[f]
  BY <1>3 DEF PageFields
<1>5. \A k \in {"version", "redirect_uri", "automerge", "goBackUrl", "identifierValue",
                "passwordFailCount", "renderingType"} : r.session[k] = session[k]
  BY <1>2, <1>3 DEF SessionItems
<1>6. Led(Here, r.page.to)
  BY <1>1, <1>4, HereIs DEF Led
<1>7. Plainly(r)
  BY <1>2, <1>3, <1>4, <1>5, <1>6 DEF Plainly, Scripted
<1> QED BY <1>1, <1>7, ClickHandled

LEMMA LoginHandled ==
  ASSUME PageApart, TabInv, doLogin
  PROVE  Handled
<1> DEFINE c == [Browser(page) EXCEPT !.page.submitting = @ + 1,
                    !.page.early = @ + (IF page.submits = 0 THEN 1 ELSE 0)]
           r == IF ~Logs THEN Browser(page) ELSE c
<1>1. page # None /\ page.disabled = FALSE /\ Click(r)
  BY DEF doLogin, TabInv, PageInv, OpenPage
<1>2. /\ Shaped(r) /\ r.session = session /\ r.session_url = session_url /\ r.local = local
      /\ \A f \in PageFields \ {"submitting", "early"} : r.page[f] = page[f]
      /\ \/ r.page.submitting = page.submitting /\ r.page.early = page.early
         \/ /\ r.page.submitting = page.submitting + 1
            /\ r.page.early = page.early + (IF page.submits = 0 THEN 1 ELSE 0)
  <2>1. CASE Logs
    <3>1. r = c
      BY <2>1
    <3>2. /\ Shaped(c) /\ c.session = session /\ c.session_url = session_url /\ c.local = local
          /\ \A f \in PageFields \ {"submitting", "early"} : c.page[f] = page[f]
          /\ c.page.submitting = page.submitting + 1
          /\ c.page.early = page.early + (IF page.submits = 0 THEN 1 ELSE 0)
      BY <1>1, HereIs DEF Shaped, PageFields
    <3> QED BY <3>1, <3>2
  <2>2. CASE ~Logs
    BY <1>1, <2>2, HereIs
  <2> QED BY <2>1, <2>2
<1> HIDE DEF r, c
<1>3. \A f \in {"q", "alive", "loaded", "threw", "signIn", "goBack", "forgotVersion", "hidden",
                "orgInfo", "disabled", "submits", "clicks", "leaving", "to", "unClickable"} :
         r.page[f] = page[f]
  BY <1>2 DEF PageFields
<1>4. Led(Here, r.page.to) /\ r.page.unClickable \in BOOLEAN
  BY <1>1, <1>3, HereIs DEF Led
<1>5. Plainly(r)
  BY <1>1, <1>2, <1>3, <1>4 DEF Plainly, Scripted, TabInv, SessionType
<1> QED BY <1>1, <1>5, ClickHandled

LEMMA NoQuery ==
  ASSUME NEW h, NEW p, NEW a
  PROVE  /\ To(h, p, None).query \notin Requests /\ To(h, p, None).path = p
         /\ With(To(h, p, None), a).query \notin Requests /\ With(To(h, p, None), a).path = p
  BY NamesAssumption DEF To, With

(* A click that submits a form, or goes back. *)
LEMMA LeaveHandled ==
  ASSUME PageApart, TabInv, page # None, NEW r, Shaped(r), r.session = session,
         r.session_url = session_url, r.local = local,
         \A f \in PageFields \ {"unClickable", "to"} : r.page[f] = page[f],
         r.page.unClickable \in BOOLEAN, r.page.to.query \notin Requests,
         r.page.to.path # StatusPath, Click(r)
  PROVE  Handled
<1>1. \A f \in {"q", "alive", "loaded", "threw", "signIn", "goBack", "forgotVersion", "hidden",
                "orgInfo", "disabled", "submits", "clicks", "leaving", "submitting", "early"} :
         r.page[f] = page[f]
  BY DEF PageFields
<1>2. Led(Here, r.page.to)
  BY DEF Led
<1>3. Plainly(r)
  BY <1>1, <1>2 DEF Plainly, Scripted, TabInv, SessionType
<1> QED BY <1>3, ClickHandled

LEMMA GoBackHandled ==
  ASSUME PageApart, TabInv, GoBack
  PROVE  Handled
<1> DEFINE t == To(page.goBack, "", None)
           r == [Browser(page) EXCEPT !.page.to = t]
<1>1. page # None /\ Click(r) /\ t.query \notin Requests /\ t.path # StatusPath
  <2>1. t.query \notin Requests /\ t.path = ""
    BY NoQuery
  <2>2. "" # StatusPath
    BY DEF StatusPath
  <2>3. page # None /\ Click(r)
    BY DEF GoBack, Leave, Shown, ShownOn
  <2> QED BY <2>1, <2>2, <2>3
<1> HIDE DEF t
<1>2. /\ Shaped(r) /\ r.session = session /\ r.session_url = session_url /\ r.local = local
      /\ \A f \in PageFields \ {"to"} : r.page[f] = page[f]
      /\ r.page.to = t
  BY <1>1, HereIs DEF Shaped, PageFields
<1> HIDE DEF r
<1>3. r.page["unClickable"] = page["unClickable"]
  BY <1>2 DEF PageFields
<1> QED BY <1>1, <1>2, <1>3, HereIs, LeaveHandled

LEMMA UnclickableHandled ==
  ASSUME PageApart, TabInv, makeDivUnclickable
  PROVE  Handled
<1> DEFINE t == To("login", "loginAction", None)
           r == [Browser(page) EXCEPT !.page.unClickable = @ \/ Logs, !.page.to = t]
<1>1. page # None /\ Click(r) /\ t.query \notin Requests /\ t.path # StatusPath
  <2>1. t.query \notin Requests /\ t.path # StatusPath
    BY NoQuery DEF StatusPath
  <2>2. page # None /\ Click(r)
    BY DEF makeDivUnclickable
  <2> QED BY <2>1, <2>2
<1> HIDE DEF t
<1>2. /\ Shaped(r) /\ r.session = session /\ r.session_url = session_url /\ r.local = local
      /\ \A f \in PageFields \ {"to", "unClickable"} : r.page[f] = page[f]
      /\ r.page.to = t
  BY <1>1, HereIs DEF Shaped, PageFields
<1>3. r.page.unClickable \in BOOLEAN
  <2>1. r.page.unClickable = (page.unClickable \/ Logs)
    BY <1>1, HereIs DEF Shaped, PageFields
  <2> QED BY <2>1
<1> HIDE DEF r
<1> QED BY <1>1, <1>2, <1>3, LeaveHandled

LEMMA SubmitHandled ==
  ASSUME PageApart, TabInv, Submit
  PROVE  Handled
<1> DEFINE t == To("login", "loginAction", None)
           r == [Browser(page) EXCEPT !.page.submitting = @ - 1, !.page.submits = @ + 1,
                                      !.page.disabled = TRUE, !.page.to = t]
<1>1. /\ page # None /\ page.submitting > 0 /\ t.query \notin Requests /\ t.path # StatusPath
      /\ session' = r.session /\ session_url' = r.session_url /\ local' = r.local
      /\ page' = r.page /\ visits' = visits /\ asked' = asked
  <2>1. t.query \notin Requests /\ t.path # StatusPath
    BY NoQuery DEF StatusPath
  <2> HIDE DEF t
  <2> QED BY <2>1 DEF Submit, Handler, Commit, t
<1> HIDE DEF t
<1>2. /\ Shaped(r) /\ r.session = session /\ r.session_url = session_url /\ r.local = local
      /\ \A f \in PageFields \ {"submitting", "submits", "disabled", "to"} :
            r.page[f] = page[f]
      /\ r.page.submitting = page.submitting - 1 /\ r.page.submits = page.submits + 1
      /\ r.page.disabled = TRUE /\ r.page.to = t
  BY <1>1, HereIs DEF Shaped, PageFields
<1> HIDE DEF r
<1>3. \A f \in {"q", "alive", "loaded", "threw", "signIn", "goBack", "forgotVersion", "hidden",
                "orgInfo", "unClickable", "clicks", "leaving", "early"} : page'[f] = page[f]
  BY <1>1, <1>2 DEF PageFields
<1>4. page'.hidden = page.hidden /\ Led(Here, page'.to)
  BY <1>1, <1>2, <1>3 DEF Led
<1>5. Stays /\ Looks
  BY <1>1, <1>2, <1>3, <1>4 DEF Stays, Scripted, Looks, TabInv, SessionType, PageApart, Shaped
<1>6. Ticks
  BY <1>1, <1>2, <1>3 DEF Ticks, LoginTimer
<1> QED BY <1>1, <1>3, <1>5, <1>6 DEF Handled, TabInv, PageInv, OpenPage

LEMMA LeaveForgotHandled ==
  ASSUME PageApart, TabInv, LeaveForgot
  PROVE  Handled
<1> DEFINE t == With(To("login", "loginResetCredentials", None), page.forgotVersion)
           r == [Browser(page) EXCEPT !.page.leaving = @ - 1, !.page.to = t]
<1>1. /\ page # None /\ page.leaving > 0 /\ t.query \notin Requests /\ t.path # StatusPath
      /\ session' = r.session /\ session_url' = r.session_url /\ local' = r.local
      /\ page' = r.page /\ visits' = visits /\ asked' = asked
  <2>1. t.query \notin Requests /\ t.path # StatusPath
    BY NoQuery DEF StatusPath
  <2> HIDE DEF t
  <2> QED BY <2>1 DEF LeaveForgot, Handler, Commit, t
<1> HIDE DEF t
<1>2. /\ Shaped(r) /\ r.session = session /\ r.session_url = session_url /\ r.local = local
      /\ \A f \in PageFields \ {"leaving", "to"} : r.page[f] = page[f]
      /\ r.page.leaving = page.leaving - 1 /\ r.page.to = t
  BY <1>1, HereIs DEF Shaped, PageFields
<1> HIDE DEF r
<1>3. \A f \in {"q", "alive", "loaded", "threw", "signIn", "goBack", "forgotVersion", "hidden",
                "orgInfo", "unClickable", "submitting", "submits", "early", "disabled",
                "clicks"} : page'[f] = page[f]
  BY <1>1, <1>2 DEF PageFields
<1>4. page'.hidden = page.hidden /\ Led(Here, page'.to)
  BY <1>1, <1>2, <1>3 DEF Led
<1>5. Stays /\ Looks
  BY <1>1, <1>2, <1>3, <1>4 DEF Stays, Scripted, Looks, TabInv, SessionType, PageApart, Shaped
<1>6. Ticks
  BY <1>1, <1>2, <1>3 DEF Ticks, ForgotTimer
<1> QED BY <1>1, <1>3, <1>5, <1>6 DEF Handled, TabInv, PageInv, OpenPage

LEMMA FocusIs ==
  ASSUME TabInv, NEW in \in BOOLEAN, inputBoxFocus(in)
  PROVE  LET shown == IF in THEN "usernameLabelPlaceholder" ELSE "usernameLabel"
             other == IF in THEN "usernameLabel" ELSE "usernameLabelPlaceholder"
         IN  /\ page # None /\ page.alive = TRUE /\ session_url' = session_url /\ local' = local
             /\ visits' = [visits EXCEPT ![Len(visits)].looked = TRUE] /\ asked' = asked
             /\ DOMAIN session' = SessionItems
             /\ \A k \in SessionItems \ {"automerge", "renderingType"} :
                   session'[k] = session[k]
             /\ session'.automerge = Value(Here, "automerge")
             /\ session'.renderingType \in {session.renderingType, "queryParams",
                                            "sessionStorage"}
             /\ DOMAIN page' = PageFields /\ page'.clicks \in 0..MaxSteps
             /\ \A f \in {"q", "alive", "loaded", "threw", "signIn", "goBack",
                           "forgotVersion", "orgInfo", "unClickable", "submitting",
                           "submits", "early", "disabled", "leaving", "to"} :
                   page'[f] = page[f]
             /\ page'.clicks = page.clicks + 1
             /\ page'.hidden = (IF Value(Here, "automerge") = "1" THEN page.hidden
                                ELSE (page.hidden \ {shown})
                                       \cup ({other} \cap Elements(page.q)))
<1> DEFINE b == getValueFromSession(Here, "automerge")
           shown == IF in THEN "usernameLabelPlaceholder" ELSE "usernameLabel"
           other == IF in THEN "usernameLabel" ELSE "usernameLabelPlaceholder"
           u == unHideElement(b, {shown})
           h == hideElement(u, {other})
           c == IF Value(Here, "automerge") = "1" THEN b ELSE h
           r == [c EXCEPT !.page.clicks = @ + 1]
<1>1. /\ page # None /\ page.alive = TRUE /\ Len(visits) + page.clicks < MaxSteps
      /\ session' = r.session /\ session_url' = r.session_url /\ local' = r.local
      /\ page' = r.page /\ asked' = asked
      /\ visits' = [visits EXCEPT ![Len(visits)].looked = TRUE]
  <2>1. page # None /\ page.alive = TRUE
    BY DEF inputBoxFocus, TabInv, PageInv, OpenPage
  <2> QED BY <2>1 DEF inputBoxFocus, Commit, Here
<1> HIDE DEF shown, other
<1>3. /\ Unmoved(Here, b) /\ b.session["automerge"] = Value(Here, "automerge")
      /\ \A k \in SessionItems \ {"automerge", "renderingType"} : b.session[k] = session[k]
      /\ b.session_url = session_url /\ b.local = local /\ b.page = page
  BY <1>1, HereIs, LookUp DEF Items
<1> HIDE DEF b
<1>4. /\ Unmoved(Here, h) /\ h.session = b.session /\ h.session_url = session_url
      /\ h.local = local
      /\ h.page.signIn = page.signIn /\ h.page.goBack = page.goBack
      /\ h.page.forgotVersion = page.forgotVersion /\ h.page.threw = page.threw
      /\ h.page.to = page.to
      /\ h.page.hidden = (page.hidden \ {shown}) \cup ({other} \cap Elements(page.q))
  <2>1. OnlyShows(b, u) /\ u.page.hidden = page.hidden \ {shown} /\ u.page.q = page.q
    <3>1. Shaped(b)
      BY <1>3 DEF Unmoved
    <3> QED BY <1>3, <3>1, Unhides DEF OnlyShows, Unmoved
  <2> HIDE DEF u
  <2>2. OnlyShows(u, h) /\ h.page.hidden = u.page.hidden \cup ({other} \cap Elements(u.page.q))
    BY <2>1, Hides DEF OnlyShows, Unmoved
  <2> HIDE DEF h
  <2>3. OnlyShows(b, h)
    BY <2>1, <2>2, ShowsTwice
  <2>4. Unmoved(Here, h)
    BY <1>3, <2>3, UnmovedTwice DEF OnlyShows
  <2> QED BY <1>3, <2>1, <2>2, <2>3, <2>4 DEF OnlyShows
<1> HIDE DEF h
<1>5. /\ Unmoved(Here, c) /\ c.session = b.session /\ c.session_url = session_url
      /\ c.local = local
      /\ c.page.signIn = page.signIn /\ c.page.goBack = page.goBack
      /\ c.page.forgotVersion = page.forgotVersion /\ c.page.threw = page.threw
      /\ c.page.to = page.to
      /\ c.page.hidden = (IF Value(Here, "automerge") = "1" THEN page.hidden
                          ELSE (page.hidden \ {shown}) \cup ({other} \cap Elements(page.q)))
  BY <1>3, <1>4
<1> HIDE DEF c
<1>6. /\ r.session = b.session /\ r.session_url = session_url /\ r.local = local
      /\ DOMAIN r.page = PageFields /\ r.page.clicks = c.page.clicks + 1
      /\ \A f \in PageFields \ {"clicks"} : r.page[f] = c.page[f]
  BY <1>5 DEF Unmoved, Shaped, PageFields
<1> HIDE DEF r
<1>7. /\ \A f \in {"q", "alive", "loaded", "threw", "signIn", "goBack", "forgotVersion",
                   "orgInfo", "unClickable", "submitting", "submits", "early", "disabled",
                   "leaving", "to"} : page'[f] = page[f]
      /\ page'.clicks = page.clicks + 1
      /\ page'.hidden = c.page.hidden
  <2>1. c.page.clicks = page.clicks
    BY <1>1, <1>5, HereIs DEF Unmoved
  <2>2. \A f \in {"q", "alive", "loaded", "threw", "signIn", "goBack", "forgotVersion",
                   "orgInfo", "unClickable", "submitting", "submits", "early", "disabled",
                   "leaving", "to"} : c.page[f] = page[f]
    BY <1>1, <1>5, HereIs DEF Unmoved
  <2> QED BY <1>1, <1>6, <2>1, <2>2 DEF PageFields
<1>8. page'.clicks \in 0..MaxSteps
  <2>1. page.clicks \in 0..MaxSteps /\ Len(visits) \in Nat
    BY <1>1 DEF TabInv, PageInv, TimersType, VisitsInv
  <2> QED BY <1>1, <1>7, <2>1, BoundsAssumption
<1>9. /\ DOMAIN session' = SessionItems
      /\ \A k \in SessionItems \ {"automerge", "renderingType"} : session'[k] = session[k]
      /\ session'.renderingType \in {session.renderingType, "queryParams", "sessionStorage"}
      /\ session'.automerge = Value(Here, "automerge")
  <2>1. Here.session = session
    BY <1>1, HereIs
  <2> QED BY <1>1, <1>3, <1>6, <2>1 DEF Unmoved, Shaped, SessionItems
<1> QED BY <1>1, <1>5, <1>6, <1>7, <1>8, <1>9 DEF shown, other

LEMMA FocusHandled ==
  ASSUME PageApart, TabInv, NEW in \in BOOLEAN, inputBoxFocus(in)
  PROVE  Handled
<1> DEFINE shown == IF in THEN "usernameLabelPlaceholder" ELSE "usernameLabel"
           other == IF in THEN "usernameLabel" ELSE "usernameLabelPlaceholder"
<1>1. /\ page # None /\ page.alive = TRUE /\ session_url' = session_url /\ local' = local
      /\ visits' = [visits EXCEPT ![Len(visits)].looked = TRUE] /\ asked' = asked
      /\ DOMAIN session' = SessionItems
      /\ \A k \in SessionItems \ {"automerge", "renderingType"} : session'[k] = session[k]
      /\ session'.automerge = Value(Here, "automerge")
      /\ session'.renderingType \in {session.renderingType, "queryParams", "sessionStorage"}
  BY FocusIs
<1>2. /\ DOMAIN page' = PageFields /\ page'.clicks \in 0..MaxSteps
      /\ \A f \in {"q", "alive", "loaded", "threw", "signIn", "goBack", "forgotVersion",
                   "orgInfo", "unClickable", "submitting", "submits", "early", "disabled",
                   "leaving", "to"} : page'[f] = page[f]
      /\ page'.clicks = page.clicks + 1
  BY FocusIs
<1>3. page'.hidden = (IF Value(Here, "automerge") = "1" THEN page.hidden
                      ELSE (page.hidden \ {shown}) \cup ({other} \cap Elements(page.q)))
  BY FocusIs
<1>4. shown \in Labels /\ other \in Labels
  BY DEF Labels
<1> HIDE DEF shown, other
<1>5. /\ page'.hidden \subseteq page.hidden \cup Elements(page.q)
      /\ \A e : e \notin Labels => (e \in page'.hidden <=> e \in page.hidden)
  BY <1>3, <1>4
<1>6. Led(Here, page'.to)
  BY <1>1, <1>2, HereIs DEF Led
<1>7. \A k \in {"version", "redirect_uri", "goBackUrl", "identifierValue",
                "passwordFailCount", "url"} : session'[k] = session[k]
  BY <1>1 DEF SessionItems
<1>8. Stays
  BY <1>1, <1>2, <1>5, <1>6, <1>7 DEF Stays, Scripted, PageApart
<1>9. Looks /\ Ticks
  <2>1. Ticks
    BY <1>2 DEF Ticks, ForgotClick
  <2> QED BY <1>1, <2>1 DEF Looks
<1>10. page.unClickable \in BOOLEAN /\ page.orgInfo \in {"never", "asked", "known", "undefined"}
  BY <1>1 DEF TabInv, PageInv, OpenPage
<1> QED BY <1>1, <1>2, <1>8, <1>9, <1>10 DEF Handled

(* Every step is one of five. *)
LEMMA StepIs ==
  ASSUME PageApart, TabInv, Next
  PROVE  \/ \E q \in Requests : Open(q)
         \/ NewTab \/ Onload \/ Handled
         \/ UNCHANGED <<session, session_url, local, page, visits, asked>>
<1>1. CASE \E found \in BOOLEAN : OrgAnswered(found)
  BY <1>1, OrgHandled
<1>2. CASE Clicks
  BY <1>2, LoginHandled, NavigateHandled, ForgotPortalHandled, ForgotKeycloakHandled,
     GoBackHandled, UnclickableHandled, FocusHandled DEF Clicks
<1>3. CASE Submit \/ LeaveForgot
  BY <1>3, SubmitHandled, LeaveForgotHandled
<1>4. CASE UpdatePassword
  BY <1>4 DEF UpdatePassword
<1> QED BY <1>1, <1>2, <1>3, <1>4 DEF Next

-----------------------------------------------------------------------------
(* The history of the tab, step by step. *)
LEMMA LastVisit ==
  ASSUME TabInv, page # None
  PROVE  /\ Len(visits) \in Nat \ {0} /\ DOMAIN visits = 1..Len(visits)
         /\ \A i \in 1..Len(visits) : visits[i] \in Visit
  BY DEF TabInv, VisitsInv

LEMMA OpenVisits ==
  ASSUME TabInv, NEW q \in Requests, Open(q)
  PROVE  LET n == Len(visits)
         IN  /\ visits' \in Seq(Visit) /\ Len(visits') = n + 1 /\ n \in Nat /\ n < MaxPages
             /\ DOMAIN visits = 1..n /\ DOMAIN visits' = 1..(n + 1)
             /\ \A i \in 1..n : visits'[i] = visits[i]
             /\ visits'[n + 1].q = q /\ visits'[n + 1].alive = Evaluates(q)
             /\ visits'[n + 1].done = FALSE /\ visits'[n + 1].looked = FALSE
             /\ visits'[n + 1].merging = FALSE
<1> DEFINE v == [q |-> q, alive |-> Evaluates(q), done |-> FALSE, looked |-> FALSE,
                 merging |-> FALSE]
<1>1. visits' = Append(visits, v) /\ Len(visits) < MaxPages
  BY DEF Open
<1>2. v \in Visit /\ visits \in Seq(Visit)
  BY DEF Visit, Evaluates, TabInv, VisitsInv
<1>3. /\ v.q = q /\ v.alive = Evaluates(q) /\ v.done = FALSE /\ v.looked = FALSE
      /\ v.merging = FALSE
  OBVIOUS
<1> HIDE DEF v
<1> QED BY <1>1, <1>2, <1>3

LEMMA OnloadVisits ==
  ASSUME PageApart, TabInv, Onload
  PROVE  LET n == Len(visits)
         IN  /\ visits' \in Seq(Visit) /\ Len(visits') = n /\ n \in Nat \ {0}
             /\ DOMAIN visits = 1..n /\ DOMAIN visits' = 1..n
             /\ \A i \in 1..(n - 1) : visits'[i] = visits[i]
             /\ visits'[n].q = page.q /\ visits'[n].alive = page.alive
             /\ visits'[n].done = TRUE <=> ~Ends(Loading)
             /\ visits'[n].looked = TRUE <=> visits[n].looked = TRUE \/ ~Ends(Loading)
             /\ visits'[n].merging = TRUE <=>
                  page.q.mergeaccountprocess = None /\ asked = "1"
             /\ asked' = IF page.q.mergeaccountprocess # None
                         THEN page.q.mergeaccountprocess ELSE asked
<1> DEFINE n == Len(visits)
           v == [visits[n] EXCEPT !.done = ~page'.threw, !.looked = @ \/ ~page'.threw,
                    !.merging = page.q.mergeaccountprocess = None /\ asked = "1"]
<1>1. page # None
  BY DEF Onload
<1>2. /\ n \in Nat \ {0} /\ visits \in Seq(Visit) /\ visits[n] \in Visit
      /\ visits[n].q = page.q /\ visits[n].alive = page.alive
  BY <1>1, LastVisit DEF TabInv, VisitsInv
<1>3. visits' = [visits EXCEPT ![n] = v]
  BY <1>1, <1>2 DEF Onload
<1>4. page'.threw \in BOOLEAN /\ (page'.threw = TRUE <=> Ends(Loading))
  <2>1. Fresh(Loading) /\ page' = onload(Loading).page
    BY LoadIs
  <2>2. onload(Loading).page.threw \in BOOLEAN
        /\ (onload(Loading).page.threw = TRUE <=> Ends(Loading))
    BY <2>1, OnloadIs
  <2> QED BY <2>1, <2>2
<1>5. /\ v \in Visit /\ v.q = page.q /\ v.alive = page.alive
      /\ v.done = TRUE <=> ~Ends(Loading)
      /\ v.looked = TRUE <=> visits[n].looked = TRUE \/ ~Ends(Loading)
      /\ v.merging = TRUE <=> page.q.mergeaccountprocess = None /\ asked = "1"
  BY <1>2, <1>4 DEF Visit
<1>6. asked' = IF page.q.mergeaccountprocess # None
               THEN page.q.mergeaccountprocess ELSE asked
  BY DEF Onload
<1> HIDE DEF v
<1> QED BY <1>2, <1>3, <1>5, <1>6

LEMMA Below == ASSUME NEW n \in Nat, NEW i \in 1..(n - 1) PROVE i \in 1..n /\ i # n
  OBVIOUS

LEMMA HandledVisits ==
  ASSUME TabInv, Handled
  PROVE  LET n == Len(visits)
         IN  /\ visits' \in Seq(Visit) /\ Len(visits') = n /\ n \in Nat \ {0}
             /\ DOMAIN visits = 1..n /\ DOMAIN visits' = 1..n
             /\ \A i \in 1..(n - 1) : visits'[i] = visits[i]
             /\ \A i \in 1..n : /\ visits'[i].q = visits[i].q
                                /\ visits'[i].alive = visits[i].alive
                                /\ visits'[i].done = visits[i].done
                                /\ visits'[i].merging = visits[i].merging
             /\ \/ /\ visits' = visits /\ session'.automerge = session.automerge
                \/ /\ visits'[n].looked = TRUE /\ session'.automerge = Value(Here, "automerge")
                   /\ page.alive = TRUE
             /\ visits[n].looked = TRUE => visits'[n].looked = TRUE
<1> DEFINE n == Len(visits)
           v == [visits[n] EXCEPT !.looked = TRUE]
<1>1. /\ n \in Nat \ {0} /\ visits \in Seq(Visit) /\ visits[n] \in Visit
      /\ DOMAIN visits = 1..n
  BY LastVisit DEF TabInv, VisitsInv, Handled
<1>2. CASE visits' = visits /\ session'.automerge = session.automerge
  BY <1>1, <1>2
<1>3. CASE /\ visits' = [visits EXCEPT ![n] = v] /\ page.alive = TRUE
           /\ session'.automerge = Value(Here, "automerge")
  <2>1. /\ v \in Visit /\ v.q = visits[n].q /\ v.alive = visits[n].alive
        /\ v.done = visits[n].done /\ v.merging = visits[n].merging /\ v.looked = TRUE
    BY <1>1 DEF Visit
  <2> HIDE DEF v
  <2>2. /\ visits' \in Seq(Visit) /\ Len(visits') = n
        /\ \A i \in 1..n : visits'[i] = IF i = n THEN v ELSE visits[i]
    BY <1>1, <1>3, <2>1, ExceptSeq
  <2>3. \A i \in 1..n : /\ visits'[i].q = visits[i].q
                        /\ visits'[i].alive = visits[i].alive
                        /\ visits'[i].done = visits[i].done
                        /\ visits'[i].merging = visits[i].merging
    BY <1>1, <2>1, <2>2
  <2>4. visits'[n].looked = TRUE /\ DOMAIN visits' = 1..n
    <3>1. n \in 1..n
      BY <1>1
    <3>2. visits'[n] = v
      BY <2>2, <3>1
    <3>3. DOMAIN visits' = 1..Len(visits')
      BY <2>2
    <3> QED BY <2>1, <2>2, <3>2, <3>3
  <2>5. \A i \in 1..(n - 1) : visits'[i] = visits[i]
    <3>1. \A i \in 1..(n - 1) : i \in 1..n /\ i # n
      BY <1>1, Below
    <3> QED BY <2>2, <3>1
  <2> QED BY <1>1, <1>3, <2>2, <2>3, <2>4, <2>5
<1> QED BY <1>2, <1>3 DEF Handled, Looks

-----------------------------------------------------------------------------
(* Every step keeps the tab. *)
LEMMA NewSessionIs ==
  /\ DOMAIN NewSession = SessionItems /\ NewSession.passwordFailCount = 0
  /\ \A k \in SessionItems \ {"passwordFailCount"} : NewSession[k] = None
<1>1. DOMAIN EmptySession = SessionItems \ {"renderingType"}
  BY DEF EmptySession, SessionItems
<1>2. DOMAIN EmptySession \cup {"renderingType"} = SessionItems
  BY <1>1 DEF SessionItems
<1>3. /\ DOMAIN NewSession = SessionItems
      /\ \A k \in SessionItems :
            NewSession[k] = IF k = "renderingType" THEN None ELSE EmptySession[k]
  BY <1>2 DEF NewSession
<1>4. EmptySession["passwordFailCount"] = 0
      /\ \A k \in SessionItems \ {"renderingType", "passwordFailCount"} :
            EmptySession[k] = None
  BY DEF EmptySession, SessionItems
<1>5. "passwordFailCount" \in SessionItems /\ "passwordFailCount" # "renderingType"
  BY DEF SessionItems
<1>6. NewSession["passwordFailCount"] = 0
  BY <1>3, <1>4, <1>5
<1>7. \A k \in SessionItems \ {"passwordFailCount"} : NewSession[k] = None
  BY <1>3, <1>4
<1> QED BY <1>3, <1>6, <1>7

LEMMA InitTab == ASSUME Init PROVE TabInv
<1>1. SessionType
  <2>1. DOMAIN session = SessionItems /\ session.passwordFailCount = 0
        /\ \A k \in SessionItems \ {"passwordFailCount"} : session[k] = None
    BY NewSessionIs DEF Init
  <2>2. None # Null /\ \A k : None \in Given(k)
    BY NamesAssumption DEF Given
  <2> QED BY <2>1, <2>2 DEF SessionType, SessionItems
<1>2. StoragesType
  BY DEF Init, EmptyLocal, StoragesType, Given
<1>3. PageInv /\ VisitsInv
  BY BoundsAssumption DEF Init, PageInv, VisitsInv
<1>4. CountInv
  BY NewSessionIs DEF Init, CountInv
<1> QED BY <1>1, <1>2, <1>3, <1>4 DEF TabInv

LEMMA NewTabKeeps == ASSUME TabInv, NewTab PROVE TabInv'
<1>1. SessionType'
  <2>1. DOMAIN session' = SessionItems /\ session'.passwordFailCount = 0
        /\ \A k \in SessionItems \ {"passwordFailCount"} : session'[k] = None
    BY NewSessionIs DEF NewTab
  <2>2. None # Null /\ \A k : None \in Given(k)
    BY NamesAssumption DEF Given
  <2> QED BY <2>1, <2>2 DEF SessionType, SessionItems
<1>2. StoragesType'
  BY DEF NewTab, StoragesType, TabInv
<1>3. PageInv' /\ VisitsInv'
  BY BoundsAssumption DEF NewTab, PageInv, VisitsInv
<1>4. CountInv'
  BY NewSessionIs DEF NewTab, CountInv
<1> QED BY <1>1, <1>2, <1>3, <1>4 DEF TabInv

LEMMA OpenKeeps ==
  ASSUME PageApart, TabInv, NEW q \in Requests, Open(q)
  PROVE  TabInv'
<1>1. /\ page' = NewPage(q) /\ page' # None /\ DOMAIN page' = PageFields
      /\ DOMAIN session' = SessionItems
      /\ \A k \in SessionItems \ {"redirect_uri", "renderingType"} : session'[k] = session[k]
      /\ session'.renderingType \in {session.renderingType, "queryParams", "sessionStorage"}
      /\ session'.redirect_uri = (IF Evaluates(q) /\ q.redirect_uri # None
                                  THEN q.redirect_uri ELSE session.redirect_uri)
      /\ session_url' = (IF Evaluates(q) /\ session_url = None THEN q ELSE session_url)
      /\ local' = local
  BY OpenIs
<1>2. SessionType'
  <2>1. /\ session'["version"] = session["version"]
        /\ session'["automerge"] = session["automerge"]
        /\ session'["goBackUrl"] = session["goBackUrl"]
        /\ session'["identifierValue"] = session["identifierValue"]
        /\ session'["url"] = session["url"]
        /\ session'["passwordFailCount"] = session["passwordFailCount"]
    BY <1>1 DEF SessionItems
  <2>2. q.redirect_uri \in Given("redirect_uri") /\ q.redirect_uri # Null
    BY RequestsAssumption DEF Given
  <2> QED BY <1>1, <2>1, <2>2 DEF SessionType, TabInv
<1>3. StoragesType'
  BY <1>1 DEF StoragesType, TabInv
<1>4. PageInv'
  <2> DEFINE p == NewPage(q)
  <2>1. /\ p.q = q /\ p.alive = Evaluates(q) /\ p.loaded = FALSE /\ p.threw = FALSE
        /\ p.disabled = FALSE /\ p.unClickable = FALSE
        /\ p.orgInfo \in {"asked", "never"} /\ p.hidden = InitiallyHidden \cap Elements(q)
        /\ p.signIn = "login" /\ p.goBack = None /\ p.forgotVersion = None
        /\ p.submitting = 0 /\ p.leaving = 0 /\ p.submits = 0 /\ p.early = 0
        /\ p.clicks = (IF page = None THEN 0 ELSE page.clicks)
    BY DEF NewPage
  <2> HIDE DEF p
  <2>2. page' = p
    BY <1>1 DEF p
  <2>3. (IF page = None THEN 0 ELSE page.clicks) \in 0..MaxSteps
    BY BoundsAssumption DEF TabInv, PageInv, TimersType
  <2>4. p.alive \in BOOLEAN /\ (p.alive = TRUE <=> Evaluates(q))
    BY <2>1 DEF Evaluates
  <2>5. OpenPage'
    BY <2>1, <2>2, <2>4 DEF OpenPage, Given
  <2>6. AsRendered'
    BY <2>1, <2>2 DEF AsRendered
  <2>7. TimersType'
    BY <2>1, <2>2, <2>3 DEF TimersType
  <2> QED BY <1>1, <2>5, <2>6, <2>7 DEF PageInv
<1>5. /\ page'.q = q /\ page'.alive = Evaluates(q) /\ page'.loaded = FALSE
      /\ page'.threw = FALSE
  BY <1>1 DEF NewPage
<1>6. VisitsInv'
  <2> DEFINE n == Len(visits)
  <2>1. /\ visits' \in Seq(Visit) /\ Len(visits') = n + 1 /\ n \in Nat /\ n < MaxPages
        /\ visits'[n + 1].q = q /\ visits'[n + 1].alive = Evaluates(q)
        /\ visits'[n + 1].done = FALSE
    BY OpenVisits
  <2>2. visits' # <<>> /\ Len(visits') <= MaxPages
    BY <2>1, BoundsAssumption
  <2> QED BY <1>1, <1>5, <2>1, <2>2 DEF VisitsInv
<1>7. CountInv'
  <2>1. session'["passwordFailCount"] = session["passwordFailCount"]
    BY <1>1 DEF SessionItems
  <2>2. session.passwordFailCount \in Nat /\ session.passwordFailCount <= Len(visits)
        /\ Len(visits) \in Nat /\ Len(visits') = Len(visits) + 1
    <3>1. Len(visits) \in Nat /\ Len(visits') = Len(visits) + 1
      BY OpenVisits
    <3>2. session.passwordFailCount \in Nat
      BY DEF TabInv, SessionType
    <3>3. session.passwordFailCount <= Len(visits)
      BY <3>1, <3>2 DEF TabInv, CountInv
    <3> QED BY <3>1, <3>2, <3>3
  <2> QED BY <1>1, <1>5, <2>1, <2>2 DEF CountInv
<1> QED BY <1>2, <1>3, <1>4, <1>6, <1>7 DEF TabInv

LEMMA HandledKeeps ==
  ASSUME TabInv, Handled
  PROVE  TabInv'
<1>1. page # None /\ Stays /\ Ticks /\ Shaped(Here) /\ Here.page = page /\ Here.session = session
  BY HereIs DEF Handled
<1>2. /\ page.q \in Requests
      /\ \A k \in {"version", "redirect_uri"} : Value(Here, k) \in Given(k) \ {Null}
      /\ Value(Here, "automerge") \in Given("automerge")
  <2>1. page.q \in Requests
    BY <1>1 DEF TabInv, PageInv, OpenPage
  <2>2. \A k : page.q[k] \in Given(k)
    BY <2>1 DEF Given
  <2>3. page.q.version # Null /\ page.q.redirect_uri # Null
    BY <2>1, RequestsAssumption
  <2> QED BY <1>1, <2>1, <2>2, <2>3 DEF Value, TabInv, SessionType
<1>3. SessionType'
  <2>1. \A k \in {"version", "redirect_uri"} : session'[k] \in Given(k) \ {Null}
    BY <1>1, <1>2 DEF Stays, TabInv, SessionType
  <2>2. session'["automerge"] \in Given("automerge")
    BY <1>2 DEF Handled, Looks, TabInv, SessionType
  <2>3. \A k \in {"goBackUrl", "identifierValue"} : session'[k] \in Given(k)
    BY <1>1 DEF Stays, TabInv, SessionType
  <2>4. session'.passwordFailCount = session.passwordFailCount
    <3>1. session'["passwordFailCount"] = session["passwordFailCount"]
      BY <1>1 DEF Stays
    <3> QED BY <3>1
  <2> QED BY <1>1, <1>2, <2>1, <2>2, <2>3, <2>4 DEF SessionType, Stays, TabInv
<1>4. StoragesType'
  BY <1>1 DEF Stays, StoragesType, TabInv
<1>5. /\ page' # None /\ DOMAIN page' = PageFields
      /\ page'.q = page.q /\ page'.alive = page.alive /\ page'.loaded = page.loaded
      /\ page'.threw = page.threw /\ page'.signIn = page.signIn /\ page'.goBack = page.goBack
      /\ page'.forgotVersion = page.forgotVersion
  BY <1>1 DEF Stays
<1>6. TimersType'
  <2>1. TimersType
    BY <1>1 DEF TabInv, PageInv
  <2>2. CASE LoginClick
    BY <2>1, <2>2 DEF LoginClick, TimersType
  <2>3. CASE LoginTimer
    BY <2>1, <2>3 DEF LoginTimer, TimersType
  <2>4. CASE ForgotClick
    <3>1. /\ page'["submitting"] = page["submitting"] /\ page'["submits"] = page["submits"]
          /\ page'["early"] = page["early"] /\ page'["disabled"] = page["disabled"]
      BY <2>4 DEF ForgotClick
    <3> QED BY <2>1, <2>4, <3>1 DEF ForgotClick, TimersType
  <2>5. CASE ForgotTimer
    <3>1. /\ page'["submitting"] = page["submitting"] /\ page'["submits"] = page["submits"]
          /\ page'["early"] = page["early"] /\ page'["disabled"] = page["disabled"]
          /\ page'["clicks"] = page["clicks"]
      BY <2>5 DEF ForgotTimer
    <3> QED BY <2>1, <2>5, <3>1 DEF ForgotTimer, TimersType
  <2>6. CASE NoTimer
    BY <2>1, <2>6 DEF NoTimer, TimersType
  <2> QED BY <1>1, <2>2, <2>3, <2>4, <2>5, <2>6 DEF Ticks
<1>7. page'.disabled \in BOOLEAN /\ page'.unClickable \in BOOLEAN
  <2>1. page.disabled \in BOOLEAN
    BY <1>1 DEF TabInv, PageInv, OpenPage
  <2> QED BY <1>1, <2>1 DEF Handled, Ticks, LoginClick, LoginTimer, ForgotClick, ForgotTimer,
              NoTimer
<1>8. OpenPage'
  <2>1. page'.hidden \subseteq Elements(page.q)
    BY <1>1 DEF Stays, TabInv, PageInv, OpenPage
  <2> QED BY <1>1, <1>5, <1>7, <2>1 DEF Handled, TabInv, PageInv, OpenPage
<1>9. AsRendered'
  BY <1>1, <1>5 DEF Stays, AsRendered, TabInv, PageInv
<1>10. VisitsInv'
  <2> DEFINE n == Len(visits)
  <2>1. /\ visits' \in Seq(Visit) /\ Len(visits') = n /\ n \in Nat \ {0}
        /\ visits'[n].q = visits[n].q /\ visits'[n].alive = visits[n].alive
        /\ visits'[n].done = visits[n].done
        /\ visits[n].looked = TRUE => visits'[n].looked = TRUE
    <3>1. n \in Nat \ {0} => n \in 1..n
      OBVIOUS
    <3> HIDE DEF n
    <3>2. /\ visits' \in Seq(Visit) /\ Len(visits') = n /\ n \in Nat \ {0}
          /\ visits[n].looked = TRUE => visits'[n].looked = TRUE
      BY HandledVisits DEF n
    <3>3. \A i \in 1..n : /\ visits'[i].q = visits[i].q
                          /\ visits'[i].alive = visits[i].alive
                          /\ visits'[i].done = visits[i].done
      BY HandledVisits DEF n
    <3> QED BY <3>1, <3>2, <3>3
  <2>2. /\ visits[n].q = page.q /\ visits[n].alive = page.alive
        /\ visits[n].done = TRUE <=> page.loaded = TRUE /\ page.threw = FALSE
        /\ visits[n].done = TRUE => visits[n].looked = TRUE
        /\ n <= MaxPages
    BY <1>1 DEF TabInv, VisitsInv
  <2> QED BY <1>5, <2>1, <2>2 DEF VisitsInv
<1>11. CountInv'
  <2>1. session'["passwordFailCount"] = session["passwordFailCount"]
    BY <1>1 DEF Stays
  <2> QED BY <1>1, <1>5, <2>1, HandledVisits DEF CountInv, TabInv
<1> QED BY <1>3, <1>4, <1>5, <1>6, <1>8, <1>9, <1>10, <1>11 DEF TabInv, PageInv

LEMMA OnloadKeeps ==
  ASSUME PageApart, TabInv, Onload
  PROVE  TabInv'
<1> DEFINE b == Loading
           r == onload(b)
<1>1. /\ Fresh(b) /\ page # None /\ page.alive = TRUE /\ page.loaded = FALSE
      /\ b.session = session /\ b.session_url = session_url
      /\ b.local = local /\ b.page.loaded = TRUE
      /\ \A f \in PageFields \ {"loaded"} : b.page[f] = page[f]
      /\ session' = r.session /\ session_url' = r.session_url
      /\ local' = r.local /\ page' = r.page /\ page' # None
  BY LoadIs
<1>2. /\ Unmoved(b, r) /\ r.page.hidden \subseteq Elements(b.page.q)
      /\ r.page.threw \in BOOLEAN /\ (r.page.threw = TRUE <=> Ends(b))
  BY <1>1, OnloadIs
<1>3. /\ r.session.version = Value(b, "version")
      /\ r.session.redirect_uri \in {Value(b, "redirect_uri"), b.session.redirect_uri}
      /\ r.session.automerge \in {b.session.automerge, Value(b, "automerge")}
      /\ \A k \in {"goBackUrl", "identifierValue"} :
            r.session[k] \in {Stored(Value(b, k)), b.session[k]}
      /\ r.session.passwordFailCount \in {b.session.passwordFailCount,
                                          b.session.passwordFailCount + 1}
      /\ r.session_url \in {b.page.q, b.session_url}
  <2>1. /\ r.session.version = Value(b, "version")
        /\ r.session.redirect_uri = (IF Automatic(b) /\ b.page.q.automerge # None
                                     THEN Value(b, "redirect_uri")
                                     ELSE b.session.redirect_uri)
        /\ r.session.automerge = (IF Ends(b) THEN b.session.automerge
                                  ELSE Value(b, "automerge"))
        /\ \A k \in {"goBackUrl", "identifierValue"} :
              r.session[k] = (IF Automatic(b) THEN Stored(Value(b, k)) ELSE b.session[k])
    BY <1>1, OnloadIs
  <2>2. /\ r.session.passwordFailCount =
             (IF Counts(b) THEN b.session.passwordFailCount + 1
              ELSE b.session.passwordFailCount)
        /\ r.session_url = (IF Automatic(b) /\ b.page.q.automerge # None THEN b.page.q
                            ELSE b.session_url)
    BY <1>1, OnloadIs
  <2> HIDE DEF r
  <2> QED BY <2>1, <2>2
<1>4. /\ r.local = b.local \/ r.local = EmptyLocal
           \/ r.local = MergeRecord(b.page.q, "1", VersionOf(b))
      /\ r.page.signIn \in {"merge", b.page.signIn}
      /\ r.page.goBack \in {b.page.goBack, Value(b, "goBackUrl"), b.local.redirectUrl,
                            b.page.q.goBackUrl}
      /\ r.page.forgotVersion \in {b.page.forgotVersion, Stored(VersionOf(b))}
  BY <1>1, OnloadIs
<1> HIDE DEF r
<1>5. /\ \A f \in {"q", "alive", "loaded", "orgInfo", "disabled", "unClickable",
                   "submitting", "leaving", "clicks", "submits", "early"} :
            r.page[f] = b.page[f]
      /\ DOMAIN r.page = PageFields /\ DOMAIN r.session = SessionItems
      /\ r.session.url = b.session.url
      /\ r.session.renderingType \in {b.session.renderingType, "queryParams",
                                      "sessionStorage"}
  BY <1>2 DEF Unmoved, Shaped
<1>6. /\ \A f \in {"q", "alive", "orgInfo", "disabled", "unClickable", "submitting", "leaving",
                   "clicks", "submits", "early"} : page'[f] = page[f]
      /\ page'.loaded = TRUE
  <2>1. \A f \in {"q", "alive", "orgInfo", "disabled", "unClickable", "submitting", "leaving",
                  "clicks", "submits", "early"} : b.page[f] = page[f]
    BY <1>1 DEF PageFields
  <2>2. r.page["loaded"] = b.page["loaded"]
    BY <1>5
  <2> QED BY <1>1, <1>5, <2>1, <2>2
<1>7. /\ b.page.q = page.q /\ b.page.goBack = page.goBack
      /\ b.page.forgotVersion = page.forgotVersion
      /\ b.page.signIn = page.signIn
  <2>1. /\ b.page["q"] = page["q"] /\ b.page["goBack"] = page["goBack"]
        /\ b.page["forgotVersion"] = page["forgotVersion"]
        /\ b.page["signIn"] = page["signIn"]
    BY <1>1 DEF PageFields
  <2> QED BY <2>1
<1>8. OpenPage /\ TimersType /\ page.q \in Requests
  BY <1>1 DEF TabInv, PageInv, OpenPage
<1> HIDE DEF b
<1>9. /\ \A k \in {"version", "redirect_uri"} : Value(b, k) \in Given(k) \ {Null}
      /\ \A k \in {"automerge", "goBackUrl", "identifierValue"} : Value(b, k) \in Given(k)
      /\ VersionOf(b) \in Given("version") /\ page.q.goBackUrl \in Given("goBackUrl")
      /\ local.version \in Given("version") /\ local.redirectUrl \in Given("goBackUrl")
  <2>1. \A k : page.q[k] \in Given(k)
    BY <1>8 DEF Given
  <2>2. page.q.version # Null /\ page.q.redirect_uri # Null
    BY <1>8, RequestsAssumption
  <2>3. /\ \A k \in {"version", "redirect_uri"} : Value(b, k) \in Given(k) \ {Null}
        /\ \A k \in {"automerge", "goBackUrl", "identifierValue"} : Value(b, k) \in Given(k)
    BY <1>1, <1>7, <2>1, <2>2 DEF Value, TabInv, SessionType
  <2>4. local.version \in Given("version") /\ local.redirectUrl \in Given("goBackUrl")
    BY DEF TabInv, StoragesType
  <2> QED BY <1>1, <2>1, <2>3, <2>4 DEF VersionOf
<1>10. \A k, v : v \in Given(k) => Stored(v) \in Given(k)
  BY DEF Stored, Given
<1>11. SessionType'
  <2>1. session.passwordFailCount \in Nat
    BY DEF TabInv, SessionType
  <2> QED BY <1>1, <1>3, <1>5, <1>9, <1>10, <2>1 DEF SessionType, TabInv
<1>12. StoragesType'
  <2>1. session_url' \in Requests \cup {None}
    BY <1>1, <1>3, <1>7, <1>8 DEF TabInv, StoragesType
  <2>2. /\ EmptyLocal.mergeaccountprocess = None /\ EmptyLocal.version = None
        /\ EmptyLocal.redirectUrl = None /\ None \in Given("version")
        /\ None \in Given("goBackUrl")
    BY DEF EmptyLocal, Given
  <2> DEFINE m == MergeRecord(b.page.q, "1", VersionOf(b))
  <2>3. /\ m.mergeaccountprocess = "1" /\ m.version \in Given("version")
        /\ m.redirectUrl \in Given("goBackUrl")
    BY <1>7, <1>9, <1>10 DEF MergeRecord
  <2> HIDE DEF m
  <2>4. local' = local \/ local' = EmptyLocal \/ local' = m
    BY <1>1, <1>4 DEF m
  <2> QED BY <2>1, <2>2, <2>3, <2>4 DEF StoragesType, TabInv
<1>13. OpenPage'
  <2>1. page'.forgotVersion \in Given("version") /\ page'.goBack \in Given("goBackUrl")
    BY <1>1, <1>4, <1>7, <1>8, <1>9, <1>10 DEF OpenPage
  <2>2. page'.hidden \subseteq Elements(page.q) /\ page'.signIn \in {"login", "merge"}
    BY <1>1, <1>2, <1>4, <1>7, <1>8 DEF OpenPage
  <2>3. page'.threw \in BOOLEAN
    BY <1>1, <1>2
  <2>4. /\ page'["q"] = page["q"] /\ page'["alive"] = page["alive"]
        /\ page'["orgInfo"] = page["orgInfo"] /\ page'["disabled"] = page["disabled"]
        /\ page'["unClickable"] = page["unClickable"]
    BY <1>6
  <2> QED BY <1>1, <1>6, <1>8, <2>1, <2>2, <2>3, <2>4 DEF OpenPage
<1>14. AsRendered'
  BY <1>6 DEF AsRendered
<1>15. TimersType'
  <2>1. /\ page'["submitting"] = page["submitting"] /\ page'["leaving"] = page["leaving"]
        /\ page'["clicks"] = page["clicks"] /\ page'["submits"] = page["submits"]
        /\ page'["early"] = page["early"] /\ page'["disabled"] = page["disabled"]
    BY <1>6
  <2> QED BY <1>8, <2>1 DEF TimersType
<1>16. VisitsInv'
  <2> DEFINE n == Len(visits)
  <2>1. /\ visits' \in Seq(Visit) /\ Len(visits') = n /\ n \in Nat \ {0}
        /\ visits'[n].q = page.q /\ visits'[n].alive = page.alive
        /\ visits'[n].done = TRUE <=> ~Ends(b)
        /\ visits'[n].looked = TRUE <=> visits[n].looked = TRUE \/ ~Ends(b)
    BY OnloadVisits DEF b
  <2>2. page'["q"] = page["q"] /\ page'["alive"] = page["alive"]
    BY <1>6
  <2>3. page'.threw = TRUE <=> Ends(b)
    BY <1>1, <1>2
  <2>4. page'.threw = FALSE <=> ~Ends(b)
    BY <1>1, <1>2, <2>3
  <2>5. n <= MaxPages
    BY DEF TabInv, VisitsInv
  <2> QED BY <1>1, <1>6, <2>1, <2>2, <2>4, <2>5 DEF VisitsInv
<1>17. CountInv'
  <2>1. session.passwordFailCount \in Nat /\ session.passwordFailCount + 1 <= Len(visits)
        /\ Len(visits) \in Nat /\ Len(visits') = Len(visits)
    BY <1>1, OnloadVisits DEF TabInv, SessionType, CountInv
  <2> QED BY <1>1, <1>3, <1>6, <2>1 DEF CountInv
<1> QED BY <1>1, <1>5, <1>11, <1>12, <1>13, <1>14, <1>15, <1>16, <1>17 DEF TabInv, PageInv

LEMMA TabStep == ASSUME PageApart, TabInv, [Next]_vars PROVE TabInv'
<1>1. CASE Next
  <2>1. CASE UNCHANGED <<session, session_url, local, page, visits, asked>>
    BY <2>1 DEF TabInv, SessionType, StoragesType, PageInv, OpenPage, AsRendered, TimersType,
       VisitsInv, CountInv
  <2> QED BY <1>1, <2>1, StepIs, OpenKeeps, NewTabKeeps, OnloadKeeps, HandledKeeps
<1>2. CASE UNCHANGED vars
  BY <1>2 DEF vars, TabInv, SessionType, StoragesType, PageInv, OpenPage, AsRendered,
     TimersType, VisitsInv, CountInv
<1> QED BY <1>1, <1>2

LEMMA TabAlways == ASSUME PageApart PROVE Spec => []TabInv
<1>1. Init => TabInv
  BY InitTab
<1>2. TabInv /\ [Next]_vars => TabInv'
  BY TabStep
<1> QED BY <1>1, <1>2, PTL DEF Spec

\* TypeOK: the storages hold parameters that some page was given, or "null" in
\* their place, and never "null" for what only getValueFromSession stores; the
\* count of wrong passwords never exceeds the pages of the tab.
THEOREM TypeCorrect == ASSUME PageApart PROVE Spec => []TypeOK
<1>1. TabInv => TypeOK
  <2> SUFFICES ASSUME TabInv PROVE TypeOK
    OBVIOUS
  <2>1. session.passwordFailCount \in 0..MaxPages
    <3>1. session.passwordFailCount \in Nat /\ Len(visits) \in Nat /\ Len(visits) <= MaxPages
      BY DEF TabInv, SessionType, VisitsInv
    <3>2. session.passwordFailCount <= Len(visits)
      BY <3>1 DEF TabInv, CountInv
    <3> QED BY <3>1, <3>2, BoundsAssumption
  <2>2. ASSUME page # None PROVE PageType(page)
    <3>1. OpenPage /\ TimersType
      BY <2>2 DEF TabInv, PageInv
    <3>2. /\ page.submitting \in 0..MaxSteps /\ page.leaving \in 0..MaxSteps
          /\ page.clicks \in 0..MaxSteps /\ page.submits \in 0..MaxSteps
          /\ page.early \in 0..MaxSteps
      BY <3>1, BoundsAssumption DEF TimersType
    <3> QED BY <3>1, <3>2 DEF PageType, OpenPage
  <2> QED BY <2>1, <2>2 DEF TypeOK, TabInv, SessionType, StoragesType
<1> QED BY <1>1, TabAlways, PTL

\* NoLateSubmit: the timers of a double click on the login button both submit
\* the form, and no click after the first submit starts another.
THEOREM SubmitsAreEarly == ASSUME PageApart PROVE Spec => []NoLateSubmit
<1>1. TabInv => NoLateSubmit
  BY DEF TabInv, PageInv, TimersType, NoLateSubmit
<1> QED BY <1>1, TabAlways, PTL

-----------------------------------------------------------------------------
(* What the redirects go back to, with the page it comes from at hand. *)
MergedAt == {i \in DOMAIN visits : visits[i].done /\ visits[i].q.automerge = "1"}
AliveAt  == {i \in DOMAIN visits : visits[i].alive}
GivenAt  == {i \in DOMAIN visits : visits[i].alive /\ visits[i].q.redirect_uri # None}

IsLast(i, S)  == i \in S /\ \A j \in S : j <= i
IsFirst(i, S) == i \in S /\ \A j \in S : i <= j

EntryInv ==
  /\ MergedAt # {} => \E i \in MergedAt : IsLast(i, MergedAt) /\ session_url = visits[i].q
  /\ MergedAt = {} /\ AliveAt # {} =>
       \E i \in AliveAt : IsFirst(i, AliveAt) /\ session_url = visits[i].q
  /\ MergedAt = {} /\ AliveAt = {} => session_url = None

UriInv ==
  /\ GivenAt # {} =>
       \E i \in GivenAt : IsLast(i, GivenAt) /\ session.redirect_uri = visits[i].q.redirect_uri
  /\ GivenAt = {} => session.redirect_uri = None

LEMMA Between == ASSUME NEW i \in Nat, NEW j \in Nat, i <= j, j <= i PROVE i = j
  OBVIOUS

LEMMA LastIs ==
  ASSUME NEW S, S \subseteq Nat, NEW i \in S, IsLast(i, S)
  PROVE  Last(S) = i
<1>1. \E l \in S : \A j \in S : j <= l
  BY DEF IsLast
<1>2. Last(S) \in S /\ \A j \in S : j <= Last(S)
  BY <1>1 DEF Last
<1>3. i <= Last(S) /\ Last(S) <= i /\ i \in Nat /\ Last(S) \in Nat
  BY <1>2 DEF IsLast
<1> QED BY <1>3, Between

LEMMA FirstIs ==
  ASSUME NEW S, S \subseteq Nat, NEW i \in S, IsFirst(i, S)
  PROVE  First(S) = i
<1>1. \E l \in S : \A j \in S : l <= j
  BY DEF IsFirst
<1>2. First(S) \in S /\ \A j \in S : First(S) <= j
  BY <1>1 DEF First
<1>3. i <= First(S) /\ First(S) <= i /\ i \in Nat /\ First(S) \in Nat
  BY <1>2 DEF IsFirst
<1> QED BY <1>3, Between

LEMMA VisitsDomain == ASSUME TabInv PROVE DOMAIN visits \subseteq Nat
  BY DEF TabInv, VisitsInv

LEMMA EntryIs == ASSUME TabInv, EntryInv PROVE session_url = Entry
<1>1. MergedAt \subseteq Nat /\ AliveAt \subseteq Nat
  BY VisitsDomain DEF MergedAt, AliveAt
<1>2. Entry = IF MergedAt # {} THEN visits[Last(MergedAt)].q
              ELSE IF AliveAt # {} THEN visits[First(AliveAt)].q ELSE None
  BY DEF Entry, MergedAt, AliveAt
<1>3. CASE MergedAt # {}
  BY <1>1, <1>2, <1>3, LastIs DEF EntryInv
<1>4. CASE MergedAt = {} /\ AliveAt # {}
  BY <1>1, <1>2, <1>4, FirstIs DEF EntryInv
<1>5. CASE MergedAt = {} /\ AliveAt = {}
  BY <1>2, <1>5 DEF EntryInv
<1> QED BY <1>3, <1>4, <1>5

LEMMA LatestUriIs == ASSUME TabInv, UriInv PROVE session.redirect_uri = LatestUri
<1>1. GivenAt \subseteq Nat
  BY VisitsDomain DEF GivenAt
<1>2. LatestUri = IF GivenAt = {} THEN None ELSE visits[Last(GivenAt)].q.redirect_uri
  BY DEF LatestUri, GivenAt
<1> QED BY <1>1, <1>2, LastIs DEF UriInv

(* A page whose script runs finds the redirect_uri that is stored. *)
LEMMA UriFound ==
  ASSUME TabInv, UriInv, page # None, page.alive = TRUE
  PROVE  Value(Here, "redirect_uri") = session.redirect_uri
<1> DEFINE n == Len(visits)
<1>1. Here.page = page /\ Here.session = session
  BY HereIs
<1>2. CASE page.q.redirect_uri = None
  BY <1>1, <1>2 DEF Value
<1>3. CASE page.q.redirect_uri # None
  <2>1. n \in DOMAIN visits /\ DOMAIN visits = 1..n /\ n \in Nat
    BY LastVisit
  <2>2. visits[n].q = page.q /\ visits[n].alive = page.alive
    BY DEF TabInv, VisitsInv
  <2>3. n \in GivenAt /\ GivenAt \subseteq 1..n
    BY <1>3, <2>1, <2>2 DEF GivenAt
  <2>4. PICK i \in GivenAt : IsLast(i, GivenAt)
                             /\ session.redirect_uri = visits[i].q.redirect_uri
    BY <2>3 DEF UriInv
  <2>5. i = n
    <3>1. i <= n /\ n <= i /\ i \in Nat /\ n \in Nat
      BY <2>1, <2>3, <2>4 DEF IsLast
    <3> HIDE DEF n
    <3> QED BY <3>1, Between
  <2> QED BY <1>1, <1>3, <2>2, <2>4, <2>5 DEF Value
<1> QED BY <1>2, <1>3

LEMMA EntryKept ==
  ASSUME EntryInv, MergedAt' = MergedAt, AliveAt' = AliveAt, session_url' = session_url,
         \A i \in DOMAIN visits : visits'[i].q = visits[i].q
  PROVE  EntryInv'
<1>1. \A i \in MergedAt : visits'[i].q = visits[i].q
  BY DEF MergedAt
<1>2. \A i \in AliveAt : visits'[i].q = visits[i].q
  BY DEF AliveAt
<1> QED BY <1>1, <1>2 DEF EntryInv, IsLast, IsFirst

LEMMA UriKept ==
  ASSUME UriInv, GivenAt' = GivenAt, session'.redirect_uri = session.redirect_uri,
         \A i \in DOMAIN visits : visits'[i].q = visits[i].q
  PROVE  UriInv'
<1>1. \A i \in GivenAt : visits'[i].q = visits[i].q
  BY DEF GivenAt
<1> QED BY <1>1 DEF UriInv, IsLast

LEMMA OpenEntry ==
  ASSUME PageApart, TabInv, EntryInv, UriInv, NEW q \in Requests, Open(q)
  PROVE  EntryInv' /\ UriInv'
<1> DEFINE n == Len(visits)
<1>1. /\ n \in Nat /\ DOMAIN visits = 1..n /\ DOMAIN visits' = 1..(n + 1)
      /\ \A i \in 1..n : visits'[i] = visits[i]
      /\ visits'[n + 1].q = q /\ visits'[n + 1].alive = Evaluates(q)
      /\ visits'[n + 1].done = FALSE
  BY OpenVisits
<1>2. /\ session'.redirect_uri = (IF Evaluates(q) /\ q.redirect_uri # None
                                  THEN q.redirect_uri ELSE session.redirect_uri)
      /\ session_url' = (IF Evaluates(q) /\ session_url = None THEN q ELSE session_url)
  BY OpenIs
<1>0. \A i \in DOMAIN visits : visits[i] \in Visit
  BY ElementOfSeq DEF TabInv, VisitsInv
<1> HIDE DEF n
<1>3. \A i : i \in 1..(n + 1) <=> i \in 1..n \/ i = n + 1
  BY <1>1
<1>4. n + 1 \notin 1..n /\ n + 1 \in Nat
  BY <1>1
<1>5. MergedAt' = MergedAt
  BY <1>1, <1>3 DEF MergedAt
<1>6. AliveAt' = AliveAt \cup (IF Evaluates(q) THEN {n + 1} ELSE {})
  BY <1>1, <1>3 DEF AliveAt
<1>7. GivenAt' = GivenAt \cup (IF Evaluates(q) /\ q.redirect_uri # None THEN {n + 1} ELSE {})
  BY <1>1, <1>3 DEF GivenAt
<1>8. \A i \in DOMAIN visits : visits'[i].q = visits[i].q /\ i <= n + 1 /\ n + 1 > i
  BY <1>1
<1>9. /\ \A i \in MergedAt : i \in DOMAIN visits
      /\ \A i \in AliveAt : i \in DOMAIN visits
      /\ \A i \in GivenAt : i \in DOMAIN visits
  BY DEF MergedAt, AliveAt, GivenAt
<1>10. session_url = None <=> MergedAt = {} /\ AliveAt = {}
  <2>1. \A i \in DOMAIN visits : visits[i].q # None
    BY <1>0, NamesAssumption DEF Visit
  <2> QED BY <1>9, <2>1 DEF EntryInv
<1>11. EntryInv'
  <2>1. CASE Evaluates(q) /\ session_url = None
    <3>1. MergedAt' = {} /\ AliveAt' = {n + 1} /\ session_url' = q
      BY <1>2, <1>5, <1>6, <1>10, <2>1
    <3>2. n + 1 \in AliveAt' /\ IsFirst(n + 1, AliveAt')
      BY <1>4, <3>1 DEF IsFirst
    <3> QED BY <1>1, <3>1, <3>2 DEF EntryInv, IsFirst
  <2>2. CASE ~Evaluates(q)
    <3>1. AliveAt' = AliveAt /\ session_url' = session_url
      BY <1>2, <1>6, <2>2
    <3> QED BY <1>5, <1>8, <3>1, EntryKept
  <2>3. CASE Evaluates(q) /\ session_url # None
    <3>1. session_url' = session_url
      BY <1>2, <2>3
    <3>2. CASE MergedAt # {}
      BY <1>5, <1>8, <1>9, <3>1, <3>2 DEF EntryInv, IsLast
    <3>3. CASE MergedAt = {} /\ AliveAt # {}
      <4>1. PICK i \in AliveAt : IsFirst(i, AliveAt) /\ session_url = visits[i].q
        BY <3>3 DEF EntryInv
      <4>2. i \in AliveAt' /\ i <= n + 1 /\ visits'[i].q = visits[i].q
        BY <1>6, <1>8, <1>9, <4>1
      <4>3. \A j \in AliveAt' : i <= j
        BY <1>6, <4>1, <4>2 DEF IsFirst
      <4> QED BY <1>5, <3>1, <3>3, <4>1, <4>2, <4>3 DEF EntryInv, IsFirst
    <3> QED BY <1>10, <2>3, <3>2, <3>3
  <2> QED BY <2>1, <2>2, <2>3
<1>12. UriInv'
  <2>1. CASE Evaluates(q) /\ q.redirect_uri # None
    <3>1. n + 1 \in GivenAt' /\ \A j \in GivenAt' : j <= n + 1
      BY <1>4, <1>7, <1>8, <1>9, <2>1
    <3>2. session'.redirect_uri = visits'[n + 1].q.redirect_uri
      BY <1>1, <1>2, <2>1
    <3> QED BY <3>1, <3>2 DEF UriInv, IsLast
  <2>2. CASE ~(Evaluates(q) /\ q.redirect_uri # None)
    <3>1. GivenAt' = GivenAt /\ session'.redirect_uri = session.redirect_uri
      BY <1>2, <1>7, <2>2
    <3> QED BY <1>8, <3>1, UriKept
  <2> QED BY <2>1, <2>2
<1> QED BY <1>11, <1>12

LEMMA OnloadEntry ==
  ASSUME PageApart, TabInv, EntryInv, UriInv, Onload
  PROVE  EntryInv' /\ UriInv'
<1> DEFINE n == Len(visits)
           b == Loading
<1>1. /\ n \in Nat \ {0} /\ DOMAIN visits = 1..n /\ DOMAIN visits' = 1..n
      /\ \A i \in 1..(n - 1) : visits'[i] = visits[i]
      /\ visits'[n].q = page.q /\ visits'[n].alive = page.alive
      /\ visits'[n].done = TRUE <=> ~Ends(b)
      /\ visits' \in Seq(Visit) /\ Len(visits') = n
  BY OnloadVisits
<1>2. /\ Fresh(b) /\ page # None /\ page.alive = TRUE /\ page.loaded = FALSE
      /\ b.session = session /\ b.session_url = session_url
      /\ \A f \in PageFields \ {"loaded"} : b.page[f] = page[f]
      /\ session' = onload(b).session /\ session_url' = onload(b).session_url
  BY LoadIs
<1>3. /\ visits[n].q = page.q /\ visits[n].alive = page.alive
      /\ visits[n].done = FALSE
  <2>1. /\ visits[n].q = page.q /\ visits[n].alive = page.alive
        /\ visits[n].done = TRUE <=> page.loaded = TRUE /\ page.threw = FALSE
    BY <1>2 DEF TabInv, VisitsInv
  <2>2. visits[n] \in Visit
    BY <1>1, <1>2, LastVisit
  <2> QED BY <1>2, <2>1, <2>2 DEF Visit
<1>4. b.page.q = page.q
  <2>1. b.page["q"] = page["q"]
    BY <1>2 DEF PageFields
  <2> QED BY <2>1
<1>5. /\ session'.redirect_uri \in {Value(b, "redirect_uri"), session.redirect_uri}
      /\ session_url' = (IF Automatic(b) /\ page.q.automerge # None THEN page.q ELSE session_url)
  <2>1. /\ onload(b).session.redirect_uri = (IF Automatic(b) /\ b.page.q.automerge # None
                                             THEN Value(b, "redirect_uri")
                                             ELSE b.session.redirect_uri)
        /\ onload(b).session_url = (IF Automatic(b) /\ b.page.q.automerge # None THEN b.page.q
                                    ELSE b.session_url)
    BY <1>2, OnloadIs
  <2> QED BY <1>2, <1>4, <2>1
<1>6. Automatic(b) /\ page.q.automerge # None <=> page.q.automerge = "1" /\ ~Ends(b)
  BY <1>4, NamesAssumption DEF Automatic, Value
<1>7. Value(b, "redirect_uri") = session.redirect_uri
  <2>1. Value(b, "redirect_uri") = Value(Here, "redirect_uri")
    BY <1>2, <1>4, HereIs DEF Value
  <2> QED BY <1>2, <2>1, UriFound
<1> HIDE DEF n, b
<1>8. \A i \in 1..n : i \in 1..(n - 1) \/ i = n
  BY <1>1
<1>9. n \in 1..n /\ (\A i \in 1..n : i <= n) /\ 1..(n - 1) \subseteq 1..n
  BY <1>1
<1>10. /\ DOMAIN visits' = DOMAIN visits
       /\ \A i \in DOMAIN visits : visits'[i].q = visits[i].q
       /\ \A i \in DOMAIN visits : visits'[i].alive = visits[i].alive
       /\ \A i \in DOMAIN visits : i # n => visits'[i].done = visits[i].done
  BY <1>1, <1>3, <1>8
<1>11. AliveAt' = AliveAt /\ GivenAt' = GivenAt
  BY <1>10 DEF AliveAt, GivenAt
<1>12. UriInv'
  <2>1. session'.redirect_uri = session.redirect_uri
    BY <1>5, <1>7
  <2>2. \A i \in DOMAIN visits : visits'[i].q = visits[i].q
    BY <1>10
  <2> QED BY <1>11, <2>1, <2>2, UriKept
<1>13. CASE page.q.automerge = "1" /\ ~Ends(b)
  <2>1. session_url' = page.q
    BY <1>5, <1>6, <1>13
  <2>2. n \in MergedAt' /\ \A j \in MergedAt' : j <= n
    BY <1>1, <1>9, <1>13 DEF MergedAt
  <2>3. \E i \in MergedAt' : /\ \A j \in MergedAt' : j <= i
                             /\ session_url' = visits'[i].q
    BY <1>1, <2>1, <2>2
  <2>4. EntryInv'
    BY <2>2, <2>3 DEF EntryInv, IsLast
  <2> QED BY <1>12, <2>4
<1>14. CASE ~(page.q.automerge = "1" /\ ~Ends(b))
  <2>1. session_url' = session_url
    BY <1>5, <1>6, <1>14
  <2>2. ~(visits'[n].done /\ visits'[n].q.automerge = "1")
    <3>1. visits'[n] \in Visit
      BY <1>1, <1>9
    <3> QED BY <1>1, <1>14, <3>1 DEF Visit
  <2>3. ~visits[n].done
    BY <1>3
  <2>4. MergedAt' = MergedAt
    BY <1>1, <1>10, <2>2, <2>3 DEF MergedAt
  <2>5. \A i \in DOMAIN visits : visits'[i].q = visits[i].q
    BY <1>10
  <2> QED BY <1>11, <1>12, <2>1, <2>4, <2>5, EntryKept
<1> QED BY <1>13, <1>14

LEMMA HandledEntry ==
  ASSUME TabInv, EntryInv, UriInv, Handled
  PROVE  EntryInv' /\ UriInv'
<1> DEFINE n == Len(visits)
<1>1. /\ DOMAIN visits = 1..n /\ DOMAIN visits' = 1..n
      /\ \A i \in 1..n : /\ visits'[i].q = visits[i].q
                         /\ visits'[i].alive = visits[i].alive
                         /\ visits'[i].done = visits[i].done
  BY HandledVisits
<1> HIDE DEF n
<1>2. MergedAt' = MergedAt /\ AliveAt' = AliveAt /\ GivenAt' = GivenAt
  BY <1>1 DEF MergedAt, AliveAt, GivenAt
<1>3. session_url' = session_url
  BY DEF Handled, Stays
<1>4. session'.redirect_uri = session.redirect_uri
  <2>1. session'["redirect_uri"] \in {session["redirect_uri"], Value(Here, "redirect_uri")}
        /\ Scripted(session'.redirect_uri, page'.to)
    BY DEF Handled, Stays
  <2>2. CASE page.alive = TRUE
    BY <2>1, <2>2, UriFound DEF Handled
  <2> QED BY <2>1, <2>2 DEF Scripted
<1> QED BY <1>1, <1>2, <1>3, <1>4, EntryKept, UriKept

UrlInv == TabInv /\ EntryInv /\ UriInv

LEMMA InitUrl == ASSUME Init PROVE UrlInv
<1>1. DOMAIN visits = {} /\ session_url = None /\ session = NewSession
  BY DEF Init
<1>2. session.redirect_uri = None
  <2>1. NewSession["redirect_uri"] = None
    BY NewSessionIs DEF SessionItems
  <2> QED BY <1>1, <2>1
<1>3. MergedAt = {} /\ AliveAt = {} /\ GivenAt = {}
  BY <1>1 DEF MergedAt, AliveAt, GivenAt
<1> QED BY <1>1, <1>2, <1>3, InitTab DEF UrlInv, EntryInv, UriInv

LEMMA UrlStep == ASSUME PageApart, UrlInv, [Next]_vars PROVE UrlInv'
<1>1. CASE NewTab
  <2>1. DOMAIN visits' = {} /\ session_url' = None /\ session' = NewSession
    BY <1>1 DEF NewTab
  <2>2. session'.redirect_uri = None
    <3>1. NewSession["redirect_uri"] = None
      BY NewSessionIs DEF SessionItems
    <3> QED BY <2>1, <3>1
  <2>3. MergedAt' = {} /\ AliveAt' = {} /\ GivenAt' = {}
    BY <2>1 DEF MergedAt, AliveAt, GivenAt
  <2>4. EntryInv' /\ UriInv'
    BY <2>1, <2>2, <2>3 DEF EntryInv, UriInv
  <2> QED BY <1>1, <2>4, NewTabKeeps DEF UrlInv
<1>2. CASE UNCHANGED <<session, session_url, local, page, visits, asked>>
  <2>1. MergedAt' = MergedAt /\ AliveAt' = AliveAt /\ GivenAt' = GivenAt
    BY <1>2 DEF MergedAt, AliveAt, GivenAt
  <2>2. EntryInv' /\ UriInv'
    BY <1>2, <2>1, EntryKept, UriKept DEF UrlInv
  <2> QED BY <2>2, TabStep DEF UrlInv
<1>3. CASE Next
  BY <1>1, <1>2, <1>3, StepIs, TabStep, OpenEntry, OnloadEntry, HandledEntry DEF UrlInv
<1>4. CASE UNCHANGED vars
  BY <1>2, <1>4 DEF vars
<1> QED BY <1>3, <1>4

LEMMA UrlAlways == ASSUME PageApart PROVE Spec => []UrlInv
<1>1. Init => UrlInv
  BY InitUrl
<1>2. UrlInv /\ [Next]_vars => UrlInv'
  BY UrlStep
<1> QED BY <1>1, <1>2, PTL DEF Spec

\* SessionUrlIsEntry: session_url is the first page of the tab whose script
\* ran, or the last that was opened to merge accounts and came to the end of
\* its onload, whatever retries and other applications' pages came between.
THEOREM UrlIsEntry == ASSUME PageApart PROVE Spec => []SessionUrlIsEntry
<1>1. UrlInv => SessionUrlIsEntry
  BY EntryIs DEF UrlInv, SessionUrlIsEntry
<1> QED BY <1>1, UrlAlways, PTL

LEMMA RedirectStep ==
  ASSUME PageApart, UrlInv, [Next]_vars, page' # None, page'.to # None,
         page'.to.query \in Requests
  PROVE  \/ page # None /\ page.to = page'.to
         \/ page'.to.query = Entry /\ page'.to.host \in {LatestUri, Entry.host}
<1>1. CASE \E q \in Requests : Open(q)
  <2>1. PICK q \in Requests : page' = NewPage(q)
    BY <1>1, OpenIs DEF UrlInv
  <2> QED BY <2>1 DEF NewPage
<1>2. CASE NewTab
  BY <1>2 DEF NewTab
<1>3. CASE Onload
  <2>1. /\ Fresh(Loading) /\ page # None /\ page' = onload(Loading).page
        /\ \A f \in PageFields \ {"loaded"} : Loading.page[f] = page[f]
    BY <1>3, LoadIs DEF UrlInv
  <2>2. Loading.page["to"] = page["to"]
    BY <2>1 DEF PageFields
  <2>3. onload(Loading).page.to \in {StatusError(Loading.page.q), Loading.page.to}
    BY <2>1, OnloadIs
  <2>4. StatusError(Loading.page.q).query \notin Requests
    BY NoQuery DEF StatusError
  <2> QED BY <2>1, <2>2, <2>3, <2>4
<1>4. CASE Handled
  <2>1. page # None /\ Led(Here, page'.to) /\ Scripted(session'.redirect_uri, page'.to)
    BY <1>4 DEF Handled, Stays
  <2>2. Here.page = page /\ Here.session_url = session_url
    BY <2>1, HereIs DEF UrlInv
  <2>3. CASE page.to = page'.to
    BY <2>1, <2>3
  <2>4. CASE page.to # page'.to
    <3>1. page.alive = TRUE
      BY <2>1, <2>4 DEF Scripted
    <3>2. uri(Here) = LatestUri
      BY <2>1, <3>1, UriFound, LatestUriIs DEF uri, UrlInv
    <3>3. session_url = Entry
      BY EntryIs DEF UrlInv
    <3> QED BY <2>1, <2>2, <2>4, <3>2, <3>3 DEF Led
  <2> QED BY <2>3, <2>4
<1>5. CASE UNCHANGED <<session, session_url, local, page, visits, asked>>
  BY <1>5
<1>6. CASE UNCHANGED vars
  BY <1>5, <1>6 DEF vars
<1> QED BY <1>1, <1>2, <1>3, <1>4, <1>5, <1>6, StepIs DEF UrlInv

\* RedirectsOfEntry: a click that leaves with the query of a page leaves with
\* that of the tab's entry, and for the host of the latest redirect_uri or of
\* the entry.
THEOREM RedirectsAreOfEntry == ASSUME PageApart PROVE Spec => RedirectsOfEntry
<1>1. UrlInv /\ [Next]_vars =>
        [(page' # None /\ page'.to # None /\ page'.to.query \in Requests)
           => \/ page # None /\ page.to = page'.to
              \/ page'.to.query = Entry /\ page'.to.host \in {LatestUri, Entry.host}]_vars
  BY RedirectStep
<1> QED BY <1>1, UrlAlways, PTL DEF Spec, RedirectsOfEntry

-----------------------------------------------------------------------------
(* The account to be merged that the tab last looked for. *)
LookedAt == {i \in DOMAIN visits : visits[i].looked /\ visits[i].q.automerge # None}

AutoInv ==
  /\ LookedAt # {} =>
       \E i \in LookedAt : IsLast(i, LookedAt) /\ session.automerge = visits[i].q.automerge
  /\ LookedAt = {} => session.automerge = None

LEMMA AutoKept ==
  ASSUME AutoInv, LookedAt' = LookedAt, session'.automerge = session.automerge,
         \A i \in DOMAIN visits : visits'[i].q = visits[i].q
  PROVE  AutoInv'
<1>1. \A i \in LookedAt : visits'[i].q = visits[i].q
  BY DEF LookedAt
<1> QED BY <1>1 DEF AutoInv, IsLast

LEMMA AutoMergingIs == ASSUME TabInv, AutoInv PROVE AutoMerging <=> session.automerge = "1"
<1>1. LookedAt \subseteq Nat
  BY VisitsDomain DEF LookedAt
<1>2. AutoMerging <=> LookedAt # {} /\ visits[Last(LookedAt)].q.automerge = "1"
  BY DEF AutoMerging, LookedAt
<1> QED BY <1>1, <1>2, LastIs, NamesAssumption DEF AutoInv

(* What a page looked for is what the tab holds. *)
LEMMA AutoFound ==
  ASSUME TabInv, AutoInv, page # None, visits[Len(visits)].looked = TRUE
  PROVE  Value(Here, "automerge") = session.automerge
<1> DEFINE n == Len(visits)
<1>1. Here.page = page /\ Here.session = session
  BY HereIs
<1>2. CASE page.q.automerge = None
  BY <1>1, <1>2 DEF Value
<1>3. CASE page.q.automerge # None
  <2>1. n \in DOMAIN visits /\ DOMAIN visits = 1..n /\ n \in Nat
    BY LastVisit
  <2>2. visits[n].q = page.q
    BY DEF TabInv, VisitsInv
  <2>3. n \in LookedAt /\ LookedAt \subseteq 1..n
    BY <1>3, <2>1, <2>2 DEF LookedAt
  <2>4. PICK i \in LookedAt : IsLast(i, LookedAt)
                              /\ session.automerge = visits[i].q.automerge
    BY <2>3 DEF AutoInv
  <2>5. i = n
    <3>1. i <= n /\ n <= i /\ i \in Nat /\ n \in Nat
      BY <2>1, <2>3, <2>4 DEF IsLast
    <3> HIDE DEF n
    <3> QED BY <3>1, Between
  <2> QED BY <1>1, <1>3, <2>2, <2>4, <2>5 DEF Value
<1> QED BY <1>2, <1>3

(* The last page looks for automerge. *)
LEMMA LookedNow ==
  ASSUME TabInv, AutoInv, page # None, NEW n, n = Len(visits),
         DOMAIN visits' = DOMAIN visits,
         \A i \in DOMAIN visits : visits'[i].q = visits[i].q,
         \A i \in DOMAIN visits : i # n => visits'[i].looked = visits[i].looked,
         visits'[n].looked = TRUE, session'.automerge = Value(Here, "automerge")
  PROVE  AutoInv'
<1>1. n \in DOMAIN visits /\ DOMAIN visits = 1..n /\ n \in Nat
  BY LastVisit
<1>2. visits[n].q = page.q /\ visits'[n].q = page.q
  BY <1>1 DEF TabInv, VisitsInv
<1>3. Here.page = page /\ Here.session = session
  BY HereIs
<1>4. CASE page.q.automerge = None
  <2>1. LookedAt' = LookedAt
    BY <1>2, <1>4 DEF LookedAt
  <2>2. session'.automerge = session.automerge
    BY <1>3, <1>4 DEF Value
  <2> QED BY <2>1, <2>2, AutoKept
<1>5. CASE page.q.automerge # None
  <2>1. n \in LookedAt'
    BY <1>1, <1>2, <1>5 DEF LookedAt
  <2>2. \A j \in LookedAt' : j <= n
    <3>1. \A j \in LookedAt' : j \in DOMAIN visits
      BY DEF LookedAt
    <3> QED BY <1>1, <3>1
  <2>3. session'.automerge = visits'[n].q.automerge
    BY <1>2, <1>3, <1>5 DEF Value
  <2> QED BY <2>1, <2>2, <2>3 DEF AutoInv, IsLast
<1> QED BY <1>4, <1>5

LEMMA OpenAuto ==
  ASSUME PageApart, TabInv, AutoInv, NEW q \in Requests, Open(q)
  PROVE  AutoInv'
<1> DEFINE n == Len(visits)
<1>1. /\ n \in Nat /\ DOMAIN visits = 1..n /\ DOMAIN visits' = 1..(n + 1)
      /\ \A i \in 1..n : visits'[i] = visits[i]
      /\ visits'[n + 1].looked = FALSE
  BY OpenVisits
<1>2. session'["automerge"] = session["automerge"]
  BY OpenIs DEF SessionItems
<1> HIDE DEF n
<1>3. \A i : i \in 1..(n + 1) <=> i \in 1..n \/ i = n + 1
  BY <1>1
<1>4. LookedAt' = LookedAt
  BY <1>1, <1>3 DEF LookedAt
<1>5. \A i \in DOMAIN visits : visits'[i].q = visits[i].q
  BY <1>1
<1> QED BY <1>2, <1>4, <1>5, AutoKept

LEMMA OnloadAuto ==
  ASSUME PageApart, TabInv, AutoInv, Onload
  PROVE  AutoInv'
<1> DEFINE n == Len(visits)
           b == Loading
<1>1. /\ n \in Nat \ {0} /\ DOMAIN visits = 1..n /\ DOMAIN visits' = 1..n
      /\ \A i \in 1..(n - 1) : visits'[i] = visits[i]
      /\ visits'[n].q = page.q
      /\ visits'[n].looked = TRUE <=> visits[n].looked = TRUE \/ ~Ends(b)
      /\ visits' \in Seq(Visit) /\ Len(visits') = n
  BY OnloadVisits
<1>2. /\ Fresh(b) /\ page # None /\ b.session = session
      /\ \A f \in PageFields \ {"loaded"} : b.page[f] = page[f]
      /\ session' = onload(b).session
  BY LoadIs
<1>3. session'.automerge = (IF Ends(b) THEN session.automerge ELSE Value(b, "automerge"))
  BY <1>2, OnloadIs
<1>4. Value(b, "automerge") = Value(Here, "automerge")
  <2>1. b.page["q"] = page["q"]
    BY <1>2 DEF PageFields
  <2> QED BY <1>2, <2>1, HereIs DEF Value
<1>5. visits[n].q = page.q /\ n \in 1..n /\ visits[n] \in Visit /\ visits'[n] \in Visit
  <2>1. n \in 1..n
    BY <1>1
  <2> QED BY <1>1, <1>2, <2>1, LastVisit DEF TabInv, VisitsInv
<1>0. n = Len(visits)
  OBVIOUS
<1> HIDE DEF n, b
<1>6. \A i \in 1..n : i \in 1..(n - 1) \/ i = n
  BY <1>1
<1>7. /\ DOMAIN visits' = DOMAIN visits
      /\ \A i \in DOMAIN visits : visits'[i].q = visits[i].q
      /\ \A i \in DOMAIN visits : i # n => visits'[i].looked = visits[i].looked
  BY <1>1, <1>5, <1>6
<1>8. CASE Ends(b)
  <2>1. visits'[n].looked = visits[n].looked
    BY <1>1, <1>5, <1>8 DEF Visit
  <2>2. \A i \in DOMAIN visits : visits'[i].looked = visits[i].looked
    BY <1>7, <2>1
  <2>3. LookedAt' = LookedAt
    BY <1>7, <2>2 DEF LookedAt
  <2>4. session'.automerge = session.automerge
    BY <1>3, <1>8
  <2> QED BY <1>7, <2>3, <2>4, AutoKept
<1>9. CASE ~Ends(b)
  <2>1. visits'[n].looked = TRUE /\ session'.automerge = Value(Here, "automerge")
    BY <1>1, <1>3, <1>4, <1>9
  <2> QED BY <1>0, <1>2, <1>7, <2>1, LookedNow
<1> QED BY <1>8, <1>9

LEMMA HandledAuto == ASSUME TabInv, AutoInv, Handled PROVE AutoInv'
<1> DEFINE n == Len(visits)
<1>1. /\ n \in Nat \ {0} /\ DOMAIN visits = 1..n /\ DOMAIN visits' = 1..n
      /\ \A i \in 1..(n - 1) : visits'[i] = visits[i]
      /\ \A i \in 1..n : visits'[i].q = visits[i].q
      /\ \/ visits' = visits /\ session'.automerge = session.automerge
         \/ visits'[n].looked = TRUE /\ session'.automerge = Value(Here, "automerge")
  BY HandledVisits
<1>2. page # None
  BY DEF Handled
<1>0. n = Len(visits)
  OBVIOUS
<1> HIDE DEF n
<1>3. \A i \in 1..n : i \in 1..(n - 1) \/ i = n
  BY <1>1
<1>4. /\ DOMAIN visits' = DOMAIN visits
      /\ \A i \in DOMAIN visits : visits'[i].q = visits[i].q
      /\ \A i \in DOMAIN visits : i # n => visits'[i].looked = visits[i].looked
  BY <1>1, <1>3
<1>5. CASE visits' = visits /\ session'.automerge = session.automerge
  <2>1. LookedAt' = LookedAt
    BY <1>5 DEF LookedAt
  <2> QED BY <1>4, <1>5, <2>1, AutoKept
<1>6. CASE visits'[n].looked = TRUE /\ session'.automerge = Value(Here, "automerge")
  BY <1>0, <1>2, <1>4, <1>6, LookedNow
<1> QED BY <1>1, <1>5, <1>6

-----------------------------------------------------------------------------
(* What a loaded login page offers. *)
Offers == page # None /\ page.loaded = TRUE /\ page.threw = FALSE /\ page.q.form = "login"

ForgotInv ==
  /\ page # None /\ page.loaded = TRUE /\ page.q.version # None =>
       session.version = page.q.version
  /\ Offers /\ page.signIn = "login" =>
       /\ "fgtPortalFlow" \in page.hidden <=> ~AtLeast(session.version, 4)
       /\ "fgtKeycloakFlow" \in page.hidden <=> AtLeast(session.version, 4)

LEMMA LoginShown ==
  ASSUME NEW b, b.page.q \in Requests, b.page.q.form = "login"
  PROVE  /\ ~Unshown(b.page.q) /\ ~Ends(b)
         /\ {"signIn", "goBack"} \cup Four \subseteq Elements(b.page.q)
<1>1. {"success-msg", "error-msg", "signIn", "goBack"} \cup Four \subseteq Elements(b.page.q)
  BY ElementsAre
<1>2. ~Unshown(b.page.q)
  BY <1>1, RequestsAssumption DEF Unshown
<1> QED BY <1>1, <1>2 DEF Ends

(* The page that is loaded, seen from the step that loads it. *)
LEMMA LoginLoads ==
  ASSUME PageApart, TabInv, Onload, page.q.form = "login"
  PROVE  LET b == Loading
         IN  /\ ~Ends(b) /\ page.q \in Requests /\ page # None
             /\ page'.signIn = "merge" <=> Merges(b) \/ Automatic(b)
             /\ page'.signIn = "login" <=> ~(Merges(b) \/ Automatic(b))
             /\ session'.version = Value(b, "version")
             /\ \A e \in Four \cup {"goBack"} :
                  (e \in page'.hidden <=>
                     \/ /\ e \in page.hidden
                        /\ e \notin Uncovered(page.q, VersionOf(b))
                        /\ e # Forgot(VersionOf(b))
                        /\ Merges(b) \/ Automatic(b) => e # "goBack"
                     \/ (Merges(b) \/ Automatic(b)) /\ e \in Four)
<1> DEFINE b == Loading
           r == onload(b)
<1>1. /\ Fresh(b) /\ page # None /\ session' = r.session /\ page' = r.page
      /\ \A f \in PageFields \ {"loaded"} : b.page[f] = page[f]
  BY LoadIs
<1>2. b.page.q = page.q /\ b.page.hidden = page.hidden /\ page.q \in Requests
      /\ b.page.signIn = "login"
  <2>1. b.page["q"] = page["q"] /\ b.page["hidden"] = page["hidden"]
    BY <1>1 DEF PageFields
  <2>2. page.q \in Requests
    BY <1>1 DEF TabInv, PageInv, OpenPage
  <2> QED BY <1>1, <2>1, <2>2 DEF Fresh
<1>3. /\ ~Unshown(page.q) /\ ~Ends(b)
      /\ {"signIn", "goBack"} \cup Four \subseteq Elements(page.q)
  BY <1>2, LoginShown
<1>4. /\ r.page.signIn = (IF (Merges(b) \/ Automatic(b)) /\ "signIn" \in Elements(b.page.q)
                          THEN "merge" ELSE b.page.signIn)
      /\ r.session.version = Value(b, "version")
  BY <1>1, OnloadIs
<1>5. \A e : e # "googleSignInBtn" =>
         (e \in r.page.hidden <=>
            \/ /\ e \in b.page.hidden /\ e \notin Uncovered(b.page.q, VersionOf(b))
               /\ ~Unshown(b.page.q) => e # Forgot(VersionOf(b))
               /\ Merges(b) \/ Automatic(b) => e # "goBack"
               /\ Merges(b) /\ ~FromLocal(b) => e # "mergeAccountMessage"
               /\ Automatic(b) => e # "migrateAccountMessage"
               /\ Automatic(b) /\ Kept(b) => e # "selfSingUp"
               /\ Counts(b) => e # "inCorrectPasswordError"
            \/ (Merges(b) \/ Automatic(b)) /\ e \in Four \cap Elements(b.page.q)
            \/ Automatic(b) /\ e \in Labels \cap Elements(b.page.q)
            \/ Automatic(b) /\ Kept(b) /\ e = "error-summary" /\ e \in Elements(b.page.q))
  BY <1>1, OnloadIs
<1> HIDE DEF b, r
<1>6. \A e \in Four \cup {"goBack"} :
         e \notin Labels \cup {"googleSignInBtn", "mergeAccountMessage", "error-summary",
                               "migrateAccountMessage", "selfSingUp", "inCorrectPasswordError"}
  BY DEF Four, Labels
<1>7. \A e \in Four \cup {"goBack"} :
                  (e \in r.page.hidden <=>
                     \/ /\ e \in page.hidden
                        /\ e \notin Uncovered(page.q, VersionOf(b))
                        /\ e # Forgot(VersionOf(b))
                        /\ Merges(b) \/ Automatic(b) => e # "goBack"
                     \/ (Merges(b) \/ Automatic(b)) /\ e \in Four)
  BY <1>2, <1>3, <1>5, <1>6
<1>8. /\ page'.signIn = "merge" <=> Merges(b) \/ Automatic(b)
      /\ page'.signIn = "login" <=> ~(Merges(b) \/ Automatic(b))
  BY <1>1, <1>2, <1>3, <1>4
<1> QED BY <1>1, <1>2, <1>3, <1>4, <1>7, <1>8 DEF b

LEMMA LoadStays ==
  ASSUME PageApart, TabInv, Onload
  PROVE  /\ page # None /\ page'.q = page.q /\ page.q \in Requests
         /\ session'.version = Value(Loading, "version")
         /\ Loading.page.q = page.q /\ Loading.session = session /\ Loading.local = local
<1> DEFINE b == Loading
           r == onload(b)
<1>1. /\ Fresh(b) /\ page # None /\ session' = r.session /\ page' = r.page
      /\ b.session = session /\ b.local = local
      /\ \A f \in PageFields \ {"loaded"} : b.page[f] = page[f]
  BY LoadIs
<1>2. Unmoved(b, r) /\ r.session.version = Value(b, "version")
  BY <1>1, OnloadIs
<1>3. b.page["q"] = page["q"] /\ page.q \in Requests
  BY <1>1 DEF PageFields, TabInv, PageInv, OpenPage
<1>4. r.page.q = b.page.q
  BY <1>2 DEF Unmoved
<1> HIDE DEF b, r
<1> QED BY <1>1, <1>2, <1>3, <1>4 DEF b

LEMMA OnloadForgot == ASSUME PageApart, TabInv, ForgotInv, Onload PROVE ForgotInv'
<1> DEFINE b == Loading
<1>1. /\ page # None /\ page'.q = page.q /\ page.q \in Requests
      /\ session'.version = Value(b, "version")
      /\ b.page.q = page.q /\ b.session = session /\ b.local = local
  BY LoadStays
<1>2. page.q.version # None => session'.version = page.q.version
  BY <1>1 DEF Value
<1>3. ASSUME page.q.form = "login", page'.signIn = "login"
      PROVE  /\ "fgtPortalFlow" \in page'.hidden <=> ~AtLeast(session'.version, 4)
             /\ "fgtKeycloakFlow" \in page'.hidden <=> AtLeast(session'.version, 4)
  <2>1. /\ ~Ends(b) /\ ~(Merges(b) \/ Automatic(b))
        /\ \A e \in Four \cup {"goBack"} :
                  (e \in page'.hidden <=>
                     \/ /\ e \in page.hidden
                        /\ e \notin Uncovered(page.q, VersionOf(b))
                        /\ e # Forgot(VersionOf(b))
                        /\ Merges(b) \/ Automatic(b) => e # "goBack"
                     \/ (Merges(b) \/ Automatic(b)) /\ e \in Four)
    BY <1>3, LoginLoads
  <2>2. VersionOf(b) = session'.version
    <3>1. ~FromLocal(b)
      BY <1>1, <1>3, <2>1, LoginShown DEF FromLocal, Merges
    <3> QED BY <1>1, <3>1 DEF VersionOf
  <2>3. {"fgtPortalFlow", "fgtKeycloakFlow"} \subseteq page.hidden
    <3>1. {"fgtPortalFlow", "fgtKeycloakFlow"} \subseteq InitiallyHidden \ Labels
      BY DEF InitiallyHidden, Labels
    <3>2. {"fgtPortalFlow", "fgtKeycloakFlow"} \subseteq Elements(page.q)
      BY <1>1, <1>3, ElementsAre DEF Four
    <3>3. AsRendered /\ page.loaded = FALSE
      BY LoadIs DEF TabInv, PageInv
    <3> QED BY <3>1, <3>2, <3>3 DEF AsRendered
  <2>4. \A e \in {"fgtPortalFlow", "fgtKeycloakFlow"} :
           e \notin Uncovered(page.q, VersionOf(b)) /\ e \in Four
    <3>1. page.q.message \in {None, "success-msg", "error-msg"}
      BY <1>1, RequestsAssumption
    <3> QED BY <3>1 DEF Uncovered, Four
  <2>5. \A e \in {"fgtPortalFlow", "fgtKeycloakFlow"} :
           e \in page'.hidden <=> e # Forgot(session'.version)
    BY <2>1, <2>2, <2>3, <2>4
  <2> QED BY <2>5 DEF Forgot
<1> QED BY <1>1, <1>2, <1>3 DEF ForgotInv, Offers

LEMMA HandledPage ==
  ASSUME Handled
  PROVE  /\ page # None /\ page' # None
         /\ page'.q = page.q /\ page'.loaded = page.loaded /\ page'.threw = page.threw
         /\ page'.signIn = page.signIn /\ local' = local /\ asked' = asked
         /\ \A e : e \notin Labels => (e \in page'.hidden <=> e \in page.hidden)
         /\ session'["version"] \in {session["version"], Value(Here, "version")}
  BY DEF Handled, Stays

LEMMA HandledForgot == ASSUME TabInv, ForgotInv, Handled PROVE ForgotInv'
<1>1. /\ page # None /\ page' # None
      /\ page'.q = page.q /\ page'.loaded = page.loaded /\ page'.threw = page.threw
      /\ page'.signIn = page.signIn
      /\ \A e : e \notin Labels => (e \in page'.hidden <=> e \in page.hidden)
      /\ session'["version"] \in {session["version"], Value(Here, "version")}
  BY HandledPage
<1>2. Here.page = page /\ Here.session = session
  BY <1>1, HereIs
<1>3. page.loaded = TRUE => session'["version"] = session["version"]
  BY <1>1, <1>2 DEF ForgotInv, Value
<1>4. "fgtPortalFlow" \notin Labels /\ "fgtKeycloakFlow" \notin Labels
  BY DEF Labels
<1>5. /\ "fgtPortalFlow" \in page'.hidden <=> "fgtPortalFlow" \in page.hidden
      /\ "fgtKeycloakFlow" \in page'.hidden <=> "fgtKeycloakFlow" \in page.hidden
  BY <1>1, <1>4
<1> QED BY <1>1, <1>3, <1>5 DEF ForgotInv, Offers

LEMMA OpenForgot ==
  ASSUME PageApart, TabInv, NEW q \in Requests, Open(q)
  PROVE  page' # None /\ page'.loaded = FALSE /\ page'.threw = FALSE /\ asked' = asked
         /\ local' = local /\ page'.to = None
<1>1. page' = NewPage(q) /\ page' # None /\ local' = local
  BY OpenIs
<1> QED BY <1>1 DEF NewPage, Open

LEMMA ForgotStep == ASSUME PageApart, TabInv, ForgotInv, [Next]_vars PROVE ForgotInv'
<1>1. CASE \E q \in Requests : Open(q)
  BY <1>1, OpenForgot DEF ForgotInv, Offers
<1>2. CASE NewTab
  BY <1>2 DEF NewTab, ForgotInv, Offers
<1>3. CASE UNCHANGED <<session, session_url, local, page, visits, asked>>
  BY <1>3 DEF ForgotInv, Offers
<1>4. CASE Next
  BY <1>1, <1>2, <1>3, <1>4, StepIs, OnloadForgot, HandledForgot
<1>5. CASE UNCHANGED vars
  BY <1>3, <1>5 DEF vars
<1> QED BY <1>4, <1>5

\* OneForgotLink: a loaded login page that does not merge accounts shows one of
\* the two links to a new password, the portal's from version 4 on, however
\* the version reached the tab and whatever was clicked since.
THEOREM OneLinkShown == ASSUME PageApart PROVE Spec => []OneForgotLink
<1>1. Init => TabInv /\ ForgotInv
  BY InitTab DEF Init, ForgotInv, Offers
<1>2. TabInv /\ ForgotInv /\ [Next]_vars => TabInv' /\ ForgotInv'
  BY TabStep, ForgotStep
<1>3. TabInv /\ ForgotInv => OneForgotLink
  <2> SUFFICES ASSUME TabInv, ForgotInv, page # None, page.loaded, ~page.threw,
                      page.q.form = "login", page.signIn = "login"
               PROVE  /\ Shown("fgtPortalFlow") <=> ~Shown("fgtKeycloakFlow")
                      /\ Shown("fgtPortalFlow") <=> AtLeast(session.version, 4)
    BY DEF OneForgotLink
  <2>1. Offers /\ page.q \in Requests
    BY DEF Offers, TabInv, PageInv, OpenPage
  <2>2. {"fgtPortalFlow", "fgtKeycloakFlow"} \subseteq Elements(page.q)
    BY <2>1, ElementsAre DEF Four
  <2>3. \A e \in {"fgtPortalFlow", "fgtKeycloakFlow"} : Shown(e) <=> e \notin page.hidden
    BY <2>1, <2>2 DEF Shown, ShownOn
  <2> QED BY <2>1, <2>3 DEF ForgotInv
<1> QED BY <1>1, <1>2, <1>3, PTL DEF Spec

-----------------------------------------------------------------------------
(* What is asked of the browser, and what a login page offers. *)
AskedInv == local.mergeaccountprocess = "1" <=> asked = "1"

OfferInv ==
  Offers =>
    /\ page.signIn = "merge" <=> asked = "1" \/ session.automerge = "1"
    /\ page.signIn = "merge" => "goBack" \notin page.hidden /\ Four \subseteq page.hidden

OnloadOffer ==
  PageApart /\ MergesOnLogin /\ TabInv /\ AskedInv /\ Onload

LEMMA OnloadAsked == ASSUME OnloadOffer PROVE AskedInv'
<1> DEFINE b == Loading
           r == onload(b)
<1>1. /\ page # None /\ page.q \in Requests /\ b.page.q = page.q /\ b.local = local
  BY LoadStays DEF OnloadOffer
<1>2. Fresh(b) /\ local' = r.local
  BY LoadIs DEF OnloadOffer
<1>3. r.local = (IF b.page.q.mergeaccountprocess = None THEN b.local
                 ELSE IF Merges(b) /\ ~Ends(b)
                      THEN MergeRecord(b.page.q, "1", VersionOf(b)) ELSE EmptyLocal)
  BY <1>2, OnloadIs
<1>4. asked' = IF page.q.mergeaccountprocess # None
               THEN page.q.mergeaccountprocess ELSE asked
  BY OnloadVisits DEF OnloadOffer
<1> HIDE DEF r, b
<1>5. CASE page.q.mergeaccountprocess = None
  BY <1>1, <1>2, <1>3, <1>4, <1>5 DEF OnloadOffer, AskedInv
<1>6. CASE page.q.mergeaccountprocess # None
  <2>1. ~Unshown(b.page.q) /\ ~Ends(b)
    BY <1>1, <1>6, LoginShown DEF OnloadOffer, MergesOnLogin
  <2>2. Merges(b) <=> asked' = "1"
    BY <1>1, <1>4, <1>6, <2>1 DEF Merges, MergeOf
  <2>3. local' = IF asked' = "1" THEN MergeRecord(b.page.q, "1", VersionOf(b)) ELSE EmptyLocal
    BY <1>1, <1>2, <1>3, <1>6, <2>1, <2>2
  <2>4. /\ MergeRecord(b.page.q, "1", VersionOf(b)).mergeaccountprocess = "1"
        /\ EmptyLocal.mergeaccountprocess # "1"
    BY NamesAssumption DEF MergeRecord, EmptyLocal
  <2> QED BY <2>3, <2>4 DEF AskedInv
<1> QED BY <1>5, <1>6

LEMMA OnloadOffers == ASSUME OnloadOffer, AutoInv PROVE OfferInv'
<1> SUFFICES ASSUME page'.q.form = "login" PROVE OfferInv'
  BY DEF OfferInv, Offers
<1> DEFINE b == Loading
<1>1. /\ page # None /\ page'.q = page.q /\ page.q \in Requests
      /\ b.page.q = page.q /\ b.session = session /\ b.local = local
  BY LoadStays DEF OnloadOffer
<1>2. /\ ~Ends(b)
      /\ page'.signIn = "merge" <=> Merges(b) \/ Automatic(b)
      /\ \A e \in Four \cup {"goBack"} :
                  (e \in page'.hidden <=>
                     \/ /\ e \in page.hidden
                        /\ e \notin Uncovered(page.q, VersionOf(b))
                        /\ e # Forgot(VersionOf(b))
                        /\ Merges(b) \/ Automatic(b) => e # "goBack"
                     \/ (Merges(b) \/ Automatic(b)) /\ e \in Four)
  BY <1>1, LoginLoads DEF OnloadOffer
<1>3. Merges(b) <=> asked' = "1"
  <2>1. asked' = IF page.q.mergeaccountprocess # None
                 THEN page.q.mergeaccountprocess ELSE asked
    BY OnloadVisits DEF OnloadOffer
  <2>2. ~Unshown(b.page.q)
    BY <1>1, LoginShown
  <2> QED BY <1>1, <2>1, <2>2 DEF Merges, MergeOf, OnloadOffer, AskedInv
<1>4. Automatic(b) <=> session'.automerge = "1"
  <2>1. session' = onload(b).session /\ Fresh(b)
    BY LoadIs DEF OnloadOffer
  <2>2. onload(b).session.automerge = (IF Ends(b) THEN b.session.automerge
                                       ELSE Value(b, "automerge"))
    BY <2>1, OnloadIs
  <2> QED BY <1>2, <2>1, <2>2 DEF Automatic
<1>5. "goBack" \notin Four
  BY DEF Four
<1> HIDE DEF b
<1>6. page'.signIn = "merge" <=> asked' = "1" \/ session'.automerge = "1"
  BY <1>2, <1>3, <1>4
<1>7. page'.signIn = "merge" => "goBack" \notin page'.hidden /\ Four \subseteq page'.hidden
  BY <1>2, <1>5
<1> QED BY <1>6, <1>7 DEF OfferInv

LEMMA HandledOffers == ASSUME TabInv, AutoInv, OfferInv, Handled PROVE OfferInv'
<1>1. /\ page # None
      /\ page'.q = page.q /\ page'.loaded = page.loaded /\ page'.threw = page.threw
      /\ page'.signIn = page.signIn /\ asked' = asked
      /\ \A e : e \notin Labels => (e \in page'.hidden <=> e \in page.hidden)
  BY HandledPage
<1>2. \A e \in Four \cup {"goBack"} : e \notin Labels
  BY DEF Four, Labels
<1>3. ASSUME Offers PROVE session'.automerge = session.automerge
  <2>1. visits[Len(visits)].looked = TRUE
    BY <1>3 DEF Offers, TabInv, VisitsInv
  <2>2. Value(Here, "automerge") = session.automerge
    BY <1>1, <2>1, AutoFound
  <2> QED BY <2>2, HandledVisits
<1>4. Offers' => Offers
  BY <1>1 DEF Offers
<1>5. \A e \in Four \cup {"goBack"} : e \in page'.hidden <=> e \in page.hidden
  BY <1>1, <1>2
<1> QED BY <1>1, <1>3, <1>4, <1>5 DEF OfferInv

MergeInv == TabInv /\ AutoInv /\ AskedInv /\ OfferInv

LEMMA InitMerge == ASSUME Init PROVE MergeInv
<1>1. DOMAIN visits = {} /\ session = NewSession /\ local = EmptyLocal /\ page = None
      /\ asked = None
  BY DEF Init
<1>2. session.automerge = None
  <2>1. NewSession["automerge"] = None
    BY NewSessionIs DEF SessionItems
  <2> QED BY <1>1, <2>1
<1>3. LookedAt = {}
  BY <1>1 DEF LookedAt
<1>4. AskedInv
  BY <1>1, NamesAssumption DEF AskedInv, EmptyLocal
<1> QED BY <1>1, <1>2, <1>3, <1>4, InitTab DEF MergeInv, AutoInv, OfferInv, Offers

LEMMA NewTabMerge == ASSUME MergeInv, NewTab PROVE MergeInv'
<1>1. DOMAIN visits' = {} /\ session' = NewSession /\ local' = local /\ page' = None
      /\ asked' = asked
  BY DEF NewTab
<1>2. session'.automerge = None
  <2>1. NewSession["automerge"] = None
    BY NewSessionIs DEF SessionItems
  <2> QED BY <1>1, <2>1
<1>3. LookedAt' = {}
  BY <1>1 DEF LookedAt
<1>4. AskedInv'
  BY <1>1 DEF AskedInv, MergeInv
<1> QED BY <1>1, <1>2, <1>3, <1>4, NewTabKeeps DEF MergeInv, AutoInv, OfferInv, Offers

LEMMA MergeStep == ASSUME PageApart, MergesOnLogin, MergeInv, [Next]_vars PROVE MergeInv'
<1>1. CASE \E q \in Requests : Open(q)
  <2>1. PICK q \in Requests : Open(q)
    BY <1>1
  <2>2. AutoInv'
    BY <2>1, OpenAuto DEF MergeInv
  <2>3. AskedInv' /\ OfferInv'
    BY <2>1, OpenForgot DEF MergeInv, AskedInv, OfferInv, Offers
  <2> QED BY <2>2, <2>3, TabStep DEF MergeInv
<1>2. CASE Onload
  BY <1>2, OnloadAuto, OnloadAsked, OnloadOffers, TabStep DEF MergeInv, OnloadOffer
<1>3. CASE Handled
  <2>1. AskedInv'
    BY <1>3, HandledPage DEF MergeInv, AskedInv
  <2> QED BY <1>3, <2>1, HandledAuto, HandledOffers, TabStep DEF MergeInv
<1>4. CASE UNCHANGED <<session, session_url, local, page, visits, asked>>
  <2>1. LookedAt' = LookedAt
    BY <1>4 DEF LookedAt
  <2>2. AutoInv'
    BY <1>4, <2>1, AutoKept DEF MergeInv
  <2>3. AskedInv' /\ OfferInv'
    BY <1>4 DEF MergeInv, AskedInv, OfferInv, Offers
  <2> QED BY <2>2, <2>3, TabStep DEF MergeInv
<1>5. CASE Next
  <2>1. \/ \E q \in Requests : Open(q)
        \/ NewTab \/ Onload \/ Handled
        \/ UNCHANGED <<session, session_url, local, page, visits, asked>>
    BY <1>5, StepIs DEF MergeInv
  <2> QED BY <1>1, <1>2, <1>3, <1>4, <2>1, NewTabMerge
<1>6. CASE UNCHANGED vars
  BY <1>4, <1>6 DEF vars
<1> QED BY <1>5, <1>6

LEMMA MergeAlways == ASSUME PageApart, MergesOnLogin PROVE Spec => []MergeInv
<1>1. Init => MergeInv
  BY InitMerge
<1>2. MergeInv /\ [Next]_vars => MergeInv'
  BY MergeStep
<1> QED BY <1>1, <1>2, PTL DEF Spec

\* MergingIsAsked: a loaded login page offers to merge accounts when the browser
\* was last asked to, in whatever tab, or this tab was, and only then; it then
\* shows the link back, and neither a way to register nor a new password.  It
\* is so where only login pages are opened to merge accounts.
THEOREM MergesWhenAsked ==
  ASSUME PageApart, MergesOnLogin PROVE Spec => []MergingIsAsked
<1>1. MergeInv => MergingIsAsked
  <2> SUFFICES ASSUME MergeInv, page # None, page.loaded, ~page.threw, page.q.form = "login"
               PROVE  LET merging == asked = "1" \/ AutoMerging
                      IN  /\ page.signIn = "merge" <=> merging
                          /\ merging => /\ Shown("goBack")
                                        /\ \A e \in {"kc-registration", "stateButton",
                                               "fgtKeycloakFlow", "fgtPortalFlow"} : ~Shown(e)
    BY DEF MergingIsAsked
  <2>1. Offers /\ page.q \in Requests
    BY DEF Offers, MergeInv, TabInv, PageInv, OpenPage
  <2>2. AutoMerging <=> session.automerge = "1"
    BY AutoMergingIs DEF MergeInv
  <2>3. /\ page.signIn = "merge" <=> asked = "1" \/ AutoMerging
        /\ page.signIn = "merge" => "goBack" \notin page.hidden /\ Four \subseteq page.hidden
    BY <2>1, <2>2 DEF MergeInv, OfferInv
  <2>4. "goBack" \in Elements(page.q)
    BY <2>1, ElementsAre DEF Offers
  <2>5. "goBack" \notin page.hidden => Shown("goBack")
    BY <2>1, <2>4 DEF Shown, ShownOn, Offers
  <2>6. Four \subseteq page.hidden =>
          \A e \in {"kc-registration", "stateButton", "fgtKeycloakFlow", "fgtPortalFlow"} :
             ~Shown(e)
    BY DEF Shown, ShownOn, Four
  <2> QED BY <2>3, <2>5, <2>6
<1> QED BY <1>1, MergeAlways, PTL

-----------------------------------------------------------------------------
(* The account to be merged, when the page i was opened. *)
Retried(i) ==
  \E j \in 1..(i - 1) :
     /\ visits[j].looked /\ visits[j].q.automerge = "1"
     /\ \A k \in (j + 1)..(i - 1) : visits[k].looked => visits[k].q.automerge = None

Fails(i) ==
  /\ visits[i].done /\ ~visits[i].merging /\ visits[i].q.error = "wrong"
  /\ visits[i].q.automerge = None /\ visits[i].q.identifierValue = None
  /\ visits[i].q.goBackUrl = None
  /\ Retried(i)

LEMMA FailedIs == Failed = {i \in DOMAIN visits : Fails(i)}
  BY DEF Failed, Fails, Retried

LEMMA RetriedKept ==
  ASSUME NEW i \in Nat, \A j \in 1..(i - 1) : visits'[j] = visits[j]
  PROVE  Retried(i)' <=> Retried(i)
<1>1. \A j \in 1..(i - 1) : \A k \in (j + 1)..(i - 1) : k \in 1..(i - 1)
  OBVIOUS
<1>2. \A j \in 1..(i - 1) : \A k \in (j + 1)..(i - 1) : visits'[k] = visits[k]
  BY <1>1
<1> QED BY <1>2 DEF Retried

LEMMA RetriedNow ==
  ASSUME TabInv, AutoInv, page # None, NEW n, n = Len(visits), page.q.automerge = None
  PROVE  Retried(n) <=> session.automerge = "1"
<1>1. n \in DOMAIN visits /\ DOMAIN visits = 1..n /\ n \in Nat \ {0}
  BY LastVisit
<1>2. visits[n].q = page.q
  BY <1>1 DEF TabInv, VisitsInv
<1>3. \A i \in LookedAt : i \in 1..(n - 1) /\ visits[i].looked /\ visits[i].q.automerge # None
  <2> SUFFICES ASSUME NEW i \in LookedAt PROVE i \in 1..(n - 1)
    BY DEF LookedAt
  <2>1. i \in 1..n /\ i # n
    BY <1>1, <1>2 DEF LookedAt
  <2> QED BY <1>1, <2>1
<1>4. ASSUME session.automerge = "1" PROVE Retried(n)
  <2>1. PICK i \in LookedAt : IsLast(i, LookedAt) /\ session.automerge = visits[i].q.automerge
    BY <1>4, NamesAssumption DEF AutoInv
  <2>2. i \in 1..(n - 1) /\ visits[i].looked /\ visits[i].q.automerge = "1"
    BY <1>3, <1>4, <2>1
  <2>3. ASSUME NEW k \in (i + 1)..(n - 1), visits[k].looked PROVE visits[k].q.automerge = None
    <3>1. k \in 1..n /\ ~(k <= i)
      BY <1>1, <2>2
    <3>2. k \notin LookedAt
      BY <2>1, <3>1 DEF IsLast
    <3> QED BY <1>1, <2>3, <3>1, <3>2 DEF LookedAt
  <2> QED BY <2>2, <2>3 DEF Retried
<1>5. ASSUME Retried(n) PROVE session.automerge = "1"
  <2>1. PICK j \in 1..(n - 1) :
          /\ visits[j].looked /\ visits[j].q.automerge = "1"
          /\ \A k \in (j + 1)..(n - 1) : visits[k].looked => visits[k].q.automerge = None
    BY <1>5 DEF Retried
  <2>2. j \in LookedAt
    <3>1. j \in 1..n
      BY <1>1
    <3> QED BY <1>1, <2>1, <3>1, NamesAssumption DEF LookedAt
  <2>3. PICK i \in LookedAt : IsLast(i, LookedAt) /\ session.automerge = visits[i].q.automerge
    BY <2>2 DEF AutoInv
  <2>4. i \in 1..(n - 1) /\ visits[i].looked /\ visits[i].q.automerge # None /\ j <= i
    BY <1>3, <2>2, <2>3 DEF IsLast
  <2>5. i \notin (j + 1)..(n - 1)
    BY <2>1, <2>4
  <2>6. i = j
    BY <1>1, <2>4, <2>5
  <2> QED BY <2>1, <2>3, <2>6
<1> QED BY <1>4, <1>5

LEMMA CountsIs ==
  ASSUME PageApart, RetriesBare, TabInv, AutoInv, AskedInv, Onload, NEW n, n = Len(visits)
  PROVE  Counts(Loading) <=> Fails(n)'
<1> DEFINE b == Loading
           q == page.q
<1>0. b = Loading
  OBVIOUS
<1>1. /\ n \in Nat \ {0} /\ \A i \in 1..(n - 1) : visits'[i] = visits[i]
      /\ visits'[n].q = q
      /\ visits'[n].done = TRUE <=> ~Ends(b)
      /\ visits'[n].merging = TRUE <=> q.mergeaccountprocess = None /\ asked = "1"
      /\ visits' \in Seq(Visit) /\ Len(visits') = n
  BY OnloadVisits
<1>2. page # None /\ q \in Requests /\ b.page.q = q /\ b.session = session /\ b.local = local
  BY LoadStays
<1>3. visits'[n].done \in BOOLEAN /\ visits'[n].merging \in BOOLEAN
  <2>1. visits'[n] \in Visit
    BY <1>1
  <2> QED BY <2>1 DEF Visit
<1>4. Retried(n)' <=> Retried(n)
  BY <1>1, RetriedKept
<1>5. FromLocal(b) <=> q.mergeaccountprocess = None /\ asked = "1"
  BY <1>2 DEF FromLocal, MergeOf, AskedInv
<1> HIDE DEF b, q
<1>6. Fails(n)' <=> /\ ~Ends(b) /\ ~FromLocal(b) /\ q.error = "wrong" /\ q.automerge = None
                    /\ q.identifierValue = None /\ q.goBackUrl = None
                    /\ Retried(n)
  BY <1>1, <1>3, <1>4, <1>5 DEF Fails
<1>7. Counts(b) <=> /\ ~Ends(b) /\ Value(b, "automerge") = "1" /\ Kept(b)
                    /\ ErrorOf(b) = "wrong"
  BY DEF Counts, Automatic, Wrong
<1>8. ErrorOf(b) = "wrong" <=> ~FromLocal(b) /\ q.error = "wrong"
  <2>1. "to merge" # "wrong" /\ None # "wrong"
    BY NamesAssumption
  <2> QED BY <1>2, <2>1 DEF ErrorOf
<1>9. Value(b, "automerge") = IF q.automerge # None THEN q.automerge ELSE session.automerge
  BY <1>2 DEF Value
<1>10. CASE q.error = "wrong" /\ q.goBackUrl = None
  <2>1. q.automerge = None /\ q.identifierValue = None
    BY <1>2, <1>10 DEF RetriesBare
  <2>2. Value(b, "automerge") = session.automerge
    BY <1>9, <2>1
  <2>3. Retried(n) <=> session.automerge = "1"
    BY <1>2, <2>1, RetriedNow DEF q
  <2>4. session.automerge = "1" => session.automerge # None
    BY NamesAssumption
  <2>5. session.automerge = "1" => Kept(b)
    BY <1>2, <1>10, <2>1, <2>4 DEF Kept, Rendered, RenderedFrom
  <2> QED BY <1>0, <1>6, <1>7, <1>8, <1>10, <2>1, <2>2, <2>3, <2>5
<1>11. CASE q.goBackUrl # None
  <2>1. ~Kept(b)
    BY <1>2, <1>11 DEF Kept, Rendered, RenderedFrom
  <2> QED BY <1>0, <1>6, <1>7, <1>11, <2>1
<1>12. CASE q.error # "wrong"
  BY <1>0, <1>6, <1>7, <1>8, <1>12
<1> QED BY <1>10, <1>11, <1>12

(* The pages that failed are counted, and two sent the user away. *)
FailedInv ==
  /\ session.passwordFailCount = Cardinality(Failed)
  /\ page # None /\ page.to # None /\ page.to.path = StatusPath
       => session.passwordFailCount >= 2

FailInv == MergeInv /\ FailedInv

LEMMA FailedFinite ==
  ASSUME TabInv PROVE IsFiniteSet(Failed) /\ Cardinality(Failed) \in Nat
<1>1. /\ Len(visits) \in Nat /\ DOMAIN visits = 1..Len(visits)
  BY DEF TabInv, VisitsInv
<1>2. IsFiniteSet(1..Len(visits))
  BY <1>1, FS_Interval
<1>3. Failed \subseteq 1..Len(visits)
  BY <1>1, FailedIs
<1>4. IsFiniteSet(Failed)
  BY <1>2, <1>3, FS_Subset
<1> QED BY <1>4, FS_CardinalityType

LEMMA NoneFailed == ASSUME visits = <<>> PROVE Failed = {} /\ Cardinality(Failed) = 0
<1>1. DOMAIN visits = {}
  OBVIOUS
<1>2. Failed = {}
  BY <1>1, FailedIs
<1> QED BY <1>2, FS_EmptySet

LEMMA InitFailed == ASSUME Init PROVE FailInv
<1>1. visits = <<>> /\ session = NewSession /\ page = None
  BY DEF Init
<1>2. session.passwordFailCount = 0
  BY <1>1, NewSessionIs DEF SessionItems
<1> QED BY <1>1, <1>2, NoneFailed, InitMerge DEF FailInv, FailedInv

LEMMA NewTabFailed == ASSUME MergeInv, NewTab PROVE FailedInv'
<1>1. visits' = <<>> /\ session' = NewSession /\ page' = None
  BY DEF NewTab
<1>2. session'.passwordFailCount = 0
  BY <1>1, NewSessionIs DEF SessionItems
<1>3. Failed' = {}
  BY <1>1 DEF Failed
<1> QED BY <1>1, <1>2, <1>3, FS_EmptySet DEF FailedInv

(* What is known of the pages before the one that is open. *)
LEMMA FailsKept ==
  ASSUME NEW i \in Nat \ {0}, \A j \in 1..(i - 1) : visits'[j] = visits[j],
         visits'[i].q = visits[i].q, visits'[i].done = visits[i].done,
         visits'[i].merging = visits[i].merging
  PROVE  Fails(i)' <=> Fails(i)
<1>1. Retried(i)' <=> Retried(i)
  BY RetriedKept
<1> QED BY <1>1 DEF Fails

LEMMA OpenFailed ==
  ASSUME PageApart, MergeInv, FailedInv, NEW q \in Requests, Open(q)
  PROVE  FailedInv'
<1>0. PICK n : n = Len(visits)
  OBVIOUS
<1>1. /\ n \in Nat /\ DOMAIN visits = 1..n /\ DOMAIN visits' = 1..(n + 1)
      /\ \A i \in 1..n : visits'[i] = visits[i]
      /\ visits'[n + 1].done = FALSE
  BY <1>0, OpenVisits DEF MergeInv
<1>2. \A i \in 1..n : Fails(i)' <=> Fails(i)
  <2> SUFFICES ASSUME NEW i \in 1..n PROVE Fails(i)' <=> Fails(i)
    OBVIOUS
  <2>1. i \in Nat \ {0} /\ \A j \in 1..(i - 1) : j \in 1..n
    BY <1>1
  <2> QED BY <1>1, <2>1, FailsKept
<1>3. ~Fails(n + 1)'
  BY <1>1 DEF Fails
<1>4. Failed' = Failed
  <2>1. \A i : i \in 1..(n + 1) <=> i \in 1..n \/ i = n + 1
    BY <1>1
  <2>2. Failed' = {i \in DOMAIN visits' : Fails(i)'}
    BY DEF Failed, Fails, Retried
  <2>3. n + 1 \notin 1..n
    BY <1>1
  <2> QED BY <1>1, <1>2, <1>3, <2>1, <2>2, <2>3, FailedIs
<1>5. page'.to = None
  BY OpenForgot DEF MergeInv
<1>6. session'.passwordFailCount = session.passwordFailCount
  <2>1. \A k \in SessionItems \ {"redirect_uri", "renderingType"} : session'[k] = session[k]
    BY OpenIs DEF MergeInv
  <2> QED BY <2>1 DEF SessionItems
<1> QED BY <1>4, <1>5, <1>6 DEF FailedInv

LEMMA HandledFailed == ASSUME MergeInv, FailedInv, Handled PROVE FailedInv'
<1>0. PICK n : n = Len(visits)
  OBVIOUS
<1>1. /\ n \in Nat \ {0} /\ DOMAIN visits = 1..n /\ DOMAIN visits' = 1..n
      /\ \A i \in 1..(n - 1) : visits'[i] = visits[i]
      /\ \A i \in 1..n : /\ visits'[i].q = visits[i].q /\ visits'[i].done = visits[i].done
                          /\ visits'[i].merging = visits[i].merging
  BY <1>0, HandledVisits DEF MergeInv
<1>2. \A i \in 1..n : Fails(i)' <=> Fails(i)
  <2> SUFFICES ASSUME NEW i \in 1..n PROVE Fails(i)' <=> Fails(i)
    OBVIOUS
  <2>1. i \in Nat \ {0} /\ \A j \in 1..(i - 1) : j \in 1..(n - 1)
    BY <1>1
  <2> QED BY <1>1, <2>1, FailsKept
<1>3. Failed' = Failed
  <2>1. Failed' = {i \in DOMAIN visits' : Fails(i)'}
    BY DEF Failed, Fails, Retried
  <2> QED BY <1>1, <1>2, <2>1, FailedIs
<1>4. session'.passwordFailCount = session.passwordFailCount
  BY DEF Handled, Stays
<1>5. page # None /\ (page'.to = page.to \/ page'.to.path # StatusPath)
  BY HereIs DEF Handled, Stays, Led, MergeInv
<1> QED BY <1>3, <1>4, <1>5 DEF FailedInv

LEMMA OnloadFailed ==
  ASSUME PageApart, RetriesBare, MergeInv, FailedInv, Onload
  PROVE  FailedInv'
<1>0. PICK n : n = Len(visits)
  OBVIOUS
<1> DEFINE b == Loading
<1>1. /\ n \in Nat \ {0} /\ DOMAIN visits = 1..n /\ DOMAIN visits' = 1..n
      /\ \A i \in 1..(n - 1) : visits'[i] = visits[i]
      /\ b = Loading
  BY <1>0, OnloadVisits DEF MergeInv
<1>2. /\ Fresh(b) /\ page # None /\ page.loaded = FALSE /\ b.session = session
      /\ \A f \in PageFields \ {"loaded"} : b.page[f] = page[f]
      /\ session' = onload(b).session /\ page' = onload(b).page
  BY LoadIs DEF MergeInv
<1>3. Counts(b) <=> Fails(n)'
  BY <1>0, CountsIs DEF MergeInv
<1>4. ~Fails(n)
  BY <1>0, <1>2 DEF MergeInv, TabInv, VisitsInv, Fails
<1> DEFINE counted == session.passwordFailCount + 1
<1>5. /\ session'.passwordFailCount =
           (IF Counts(b) THEN counted ELSE session.passwordFailCount)
      /\ page'.to = (IF Counts(b) /\ counted >= 2 THEN StatusError(b.page.q) ELSE b.page.to)
  BY <1>2, OnloadIs
<1>6. b.page.to = page.to
  BY <1>2 DEF PageFields
<1> HIDE DEF b
<1>7. \A i \in 1..(n - 1) : Fails(i)' <=> Fails(i)
  <2> SUFFICES ASSUME NEW i \in 1..(n - 1) PROVE Fails(i)' <=> Fails(i)
    OBVIOUS
  <2>1. i \in Nat \ {0} /\ \A j \in 1..(i - 1) : j \in 1..(n - 1)
    BY <1>1
  <2> QED BY <1>1, <2>1, FailsKept
<1>8. /\ Failed = {i \in 1..(n - 1) : Fails(i)}
      /\ Failed' = {i \in 1..(n - 1) : Fails(i)} \cup {i \in {n} : Fails(n)'}
  <2>1. \A i : i \in 1..n <=> i \in 1..(n - 1) \/ i = n
    BY <1>1
  <2>2. Failed' = {i \in 1..n : Fails(i)'}
    BY <1>1 DEF Failed, Fails, Retried
  <2>3. Failed = {i \in 1..n : Fails(i)}
    BY <1>1, FailedIs
  <2> QED BY <1>4, <1>7, <2>1, <2>2, <2>3
<1>9. n \notin Failed
  BY <1>1, <1>8
<1>10. IsFiniteSet(Failed) /\ Cardinality(Failed) \in Nat
  BY FailedFinite DEF MergeInv
<1>11. Cardinality(Failed') = Cardinality(Failed) + (IF Counts(b) THEN 1 ELSE 0)
  <2>1. CASE Counts(b)
    <3>1. Failed' = Failed \cup {n}
      BY <1>3, <1>8, <2>1
    <3> QED BY <1>9, <1>10, <2>1, <3>1, FS_AddElement
  <2>2. CASE ~Counts(b)
    <3>1. Failed' = Failed
      BY <1>3, <1>8, <2>2
    <3> QED BY <1>10, <2>2, <3>1
  <2> QED BY <2>1, <2>2
<1>12. session'.passwordFailCount = Cardinality(Failed')
  BY <1>5, <1>10, <1>11 DEF FailedInv
<1>13. page'.to # None /\ page'.to.path = StatusPath => session'.passwordFailCount >= 2
  BY <1>2, <1>5, <1>6, <1>10 DEF FailedInv
<1> QED BY <1>12, <1>13 DEF FailedInv

LEMMA FailedStep ==
  ASSUME PageApart, MergesOnLogin, RetriesBare, FailInv, [Next]_vars
  PROVE  FailInv'
<1>1. MergeInv'
  BY MergeStep DEF FailInv
<1>2. CASE UNCHANGED <<session, session_url, local, page, visits, asked>>
  <2>1. Failed' = Failed
    BY <1>2 DEF Failed
  <2> QED BY <1>1, <1>2, <2>1 DEF FailInv, FailedInv
<1>3. CASE Next
  <2>1. \/ \E q \in Requests : Open(q)
        \/ NewTab \/ Onload \/ Handled
        \/ UNCHANGED <<session, session_url, local, page, visits, asked>>
    BY <1>3, StepIs DEF FailInv, MergeInv
  <2> QED BY <1>1, <1>2, <2>1, OpenFailed, NewTabFailed, OnloadFailed, HandledFailed DEF FailInv
<1>4. CASE UNCHANGED vars
  BY <1>2, <1>4 DEF vars
<1> QED BY <1>3, <1>4

\* FailuresCounted: the count of wrong passwords is that of the pages of this
\* tab that retried an automerge after one, and the user is sent away with the
\* second of them, whatever other pages, links and tabs came between.  It is so
\* where only login pages are opened to merge accounts, and where a page with
\* the message of a wrong password brings no account without its link back.
THEOREM FailuresAreCounted ==
  ASSUME PageApart, MergesOnLogin, RetriesBare PROVE Spec => []FailuresCounted
<1>1. Init => FailInv
  BY InitFailed
<1>2. FailInv /\ [Next]_vars => FailInv'
  BY FailedStep
<1>3. FailInv => FailuresCounted
  BY DEF FailInv, FailedInv, FailuresCounted, StatusPath
<1> QED BY <1>1, <1>2, <1>3, PTL DEF Spec

-----------------------------------------------------------------------------
(* The earlier script, login.js: its pages are these without one button. *)

PlainFields == {"q", "runs", "loaded", "hidden", "signIn", "goBack", "forgotVersion", "to"}

(* A page of the earlier script is not None either. *)
PlainApart == DOMAIN None # PlainFields

(* The two modules mean the same by the names of LoginForms. *)
LEMMA SameForms ==
  /\ \A q : Plain!Elements(q) = Elements(q)
  /\ \A h, p, r : Plain!To(h, p, r) = To(h, p, r)
  /\ \A d, a : Plain!With(d, a) = With(d, a)
  /\ \A h : Plain!PlainHost(h) = PlainHost(h)
  /\ \A v : Plain!Stored(v) = Stored(v)
  /\ \A v : Plain!AtLeastText3(v) <=> AtLeastText3(v)
  /\ \A v, n : Plain!AtLeast(v, n) <=> AtLeast(v, n)
  /\ Plain!InitiallyHidden = InitiallyHidden /\ Plain!urlMap = urlMap /\ Plain!apps = apps
  /\ Plain!EmptySession = EmptySession /\ Plain!EmptyLocal = EmptyLocal
<1>1. \A q : Plain!Elements(q) = Elements(q)
  BY DEF Plain!Elements, Elements
<1>2. \A h, p, r : Plain!To(h, p, r) = To(h, p, r)
  BY DEF Plain!To, To
<1>3. \A d, a : Plain!With(d, a) = With(d, a)
  BY DEF Plain!With, With
<1>4. \A h : Plain!PlainHost(h) = PlainHost(h)
  BY DEF Plain!PlainHost, PlainHost
<1>5. \A v : Plain!Stored(v) = Stored(v)
  BY DEF Plain!Stored, Stored
<1>6. \A v : Plain!AtLeastText3(v) <=> AtLeastText3(v)
  BY DEF Plain!AtLeastText3, AtLeastText3
<1>7. \A v, n : Plain!AtLeast(v, n) <=> AtLeast(v, n)
  BY DEF Plain!AtLeast, AtLeast
<1>8. Plain!InitiallyHidden = InitiallyHidden /\ Plain!urlMap = urlMap /\ Plain!apps = apps
  BY DEF Plain!InitiallyHidden, InitiallyHidden, Plain!urlMap, urlMap, Plain!apps, apps
<1>9. Plain!EmptySession = EmptySession /\ Plain!EmptyLocal = EmptyLocal
  BY DEF Plain!EmptySession, EmptySession, Plain!EmptyLocal, EmptyLocal
<1> QED BY <1>1, <1>2, <1>3, <1>4, <1>5, <1>6, <1>7, <1>8, <1>9

(* The page without its googleSignInBtn. *)
PlainHidden == page.hidden \ {"googleSignInBtn"}

LEMMA PlainIs ==
  ASSUME PlainApart, page # None
  PROVE  /\ PlainPage # None
         /\ PlainPage = [q |-> page.q, runs |-> page.alive, loaded |-> page.loaded,
                         hidden |-> PlainHidden, signIn |-> page.signIn, goBack |-> page.goBack,
                         forgotVersion |-> page.forgotVersion, to |-> page.to]
<1>1. DOMAIN PlainPage = PlainFields
  BY DEF PlainPage, PlainFields
<1> QED BY <1>1 DEF PlainApart, PlainPage, PlainHidden

PlainItems == DOMAIN EmptySession

LEMMA PlainItemsAre ==
  /\ PlainItems = SessionItems \ {"renderingType"}
  /\ DOMAIN PlainSession = PlainItems /\ \A k \in PlainItems : PlainSession[k] = session[k]
  BY DEF PlainItems, EmptySession, SessionItems, PlainSession

LEMMA PlainValue ==
  ASSUME PlainApart, TabInv, page # None, NEW k \in Items
  PROVE  Plain!getValueFromSession(k) = Value(Here, k)
<1>1. k \in PlainItems
  BY PlainItemsAre DEF Items, SessionItems
<1> QED BY <1>1, PlainIs, PlainItemsAre, HereIs DEF Plain!getValueFromSession, Value

(* A step that looks up the items ks. *)
LEMMA PlainLookedUp ==
  ASSUME PlainApart, TabInv, page # None, NEW ks, ks \subseteq Items,
         \A k \in ks : session'[k] = Value(Here, k),
         \A k \in PlainItems \ ks : session'[k] = session[k]
  PROVE  PlainSession' = Plain!LookedUp(ks)
<1>1. \A k \in PlainItems :
         session'[k] = IF k \in ks THEN Plain!getValueFromSession(k) ELSE PlainSession[k]
  BY PlainValue, PlainItemsAre
<1>2. PlainSession' = [k \in PlainItems |-> session'[k]]
  BY DEF PlainSession, PlainItems
<1> QED BY <1>1, <1>2, PlainItemsAre DEF Plain!LookedUp

LEMMA PlainSessionKept ==
  ASSUME \A k \in PlainItems : session'[k] = session[k]
  PROVE  PlainSession' = PlainSession
  BY DEF PlainSession, PlainItems

(* A step that leaves the page, but for what it hides and where it leads. *)
LEMMA PlainKept ==
  ASSUME page # None, page' # None,
         \A f \in {"q", "alive", "loaded", "signIn", "goBack", "forgotVersion"} :
           page'[f] = page[f]
  PROVE  /\ PlainPage' = [PlainPage EXCEPT !.hidden = PlainHidden', !.to = page'.to]
         /\ page'.hidden = page.hidden => PlainPage' = [PlainPage EXCEPT !.to = page'.to]
         /\ page'.hidden = page.hidden /\ page'.to = page.to => PlainPage' = PlainPage
<1> DEFINE p == [q |-> page.q, runs |-> page.alive, loaded |-> page.loaded,
                 hidden |-> PlainHidden, signIn |-> page.signIn, goBack |-> page.goBack,
                 forgotVersion |-> page.forgotVersion, to |-> page.to]
<1>1. PlainPage = p
  BY DEF PlainPage, PlainHidden
<1>2. PlainPage' = [q |-> page'.q, runs |-> page'.alive, loaded |-> page'.loaded,
                    hidden |-> PlainHidden', signIn |-> page'.signIn, goBack |-> page'.goBack,
                    forgotVersion |-> page'.forgotVersion, to |-> page'.to]
  BY DEF PlainPage, PlainHidden
<1>3. /\ page'.q = page.q /\ page'.alive = page.alive /\ page'.loaded = page.loaded
      /\ page'.signIn = page.signIn /\ page'.goBack = page.goBack
      /\ page'.forgotVersion = page.forgotVersion
  OBVIOUS
<1>4. page'.hidden = page.hidden => PlainHidden' = PlainHidden
  BY DEF PlainHidden
<1>5. \A h, t : [p EXCEPT !.hidden = h, !.to = t]
                  = [q |-> page.q, runs |-> page.alive, loaded |-> page.loaded, hidden |-> h,
                     signIn |-> page.signIn, goBack |-> page.goBack,
                     forgotVersion |-> page.forgotVersion, to |-> t]
  <2> TAKE h, t
  <2> DEFINE r == [p EXCEPT !.hidden = h, !.to = t]
             s == [q |-> page.q, runs |-> page.alive, loaded |-> page.loaded, hidden |-> h,
                   signIn |-> page.signIn, goBack |-> page.goBack,
                   forgotVersion |-> page.forgotVersion, to |-> t]
  <2>1. DOMAIN p = PlainFields
    BY DEF PlainFields
  <2>2. r = [f \in PlainFields |-> IF f = "to" THEN t ELSE IF f = "hidden" THEN h ELSE p[f]]
    BY <2>1 DEF PlainFields
  <2>3. DOMAIN s = PlainFields /\ s = [f \in PlainFields |-> s[f]]
    BY DEF PlainFields
  <2>4. \A f \in PlainFields :
           s[f] = IF f = "to" THEN t ELSE IF f = "hidden" THEN h ELSE p[f]
    BY DEF PlainFields
  <2> HIDE DEF p, r, s
  <2>5. r = s
    BY <2>2, <2>3, <2>4
  <2> QED BY <2>5 DEF r, s
<1>6. \A t : [p EXCEPT !.to = t]
               = [q |-> page.q, runs |-> page.alive, loaded |-> page.loaded,
                  hidden |-> PlainHidden, signIn |-> page.signIn, goBack |-> page.goBack,
                  forgotVersion |-> page.forgotVersion, to |-> t]
  OBVIOUS
<1>7. PlainPage' = [PlainPage EXCEPT !.hidden = PlainHidden', !.to = page'.to]
  BY <1>1, <1>2, <1>3, <1>5
<1>8. page'.hidden = page.hidden => PlainPage' = [PlainPage EXCEPT !.to = page'.to]
  BY <1>1, <1>2, <1>3, <1>4, <1>6
<1>9. page'.hidden = page.hidden /\ page'.to = page.to => PlainPage' = PlainPage
  BY <1>1, <1>2, <1>3, <1>4
<1> QED BY <1>7, <1>8, <1>9

LEMMA PlainShown ==
  ASSUME PlainApart, NEW e, Shown(e) PROVE page # None /\ Plain!Shown(e)
<1>1. page # None /\ e \in Elements(page.q) \ page.hidden
  BY DEF Shown, ShownOn
<1> QED BY <1>1, PlainIs, SameForms DEF Shown, ShownOn, Plain!Shown, Plain!ShownOn, PlainHidden

-----------------------------------------------------------------------------
(* Where a click leads. *)
PlainStep == Plain!Next \/ LostClick \/ DockClick \/ UNCHANGED (Plain!plain)

LEMMA PlainTos ==
  ASSUME PlainApart, TabInv, page # None
  PROVE  /\ Plain!uri = uri(Here) /\ \A path : Plain!redirect(path) = RedirectTo(Here, path)
         /\ Plain!handleSsoEvent = SsoTo(Here) /\ Plain!handleGoogleAuthEvent = GoogleTo(Here)
<1>1. PlainPage.q = page.q /\ Here.page = page /\ Here.session_url = session_url
  BY PlainIs, HereIs
<1>2. Plain!uri = uri(Here)
  BY PlainValue DEF Plain!uri, uri, Items
<1>3. \A app, other : Plain!Redirected(app, other) = Destination(Here, app, other)
  BY <1>1, <1>2, SameForms DEF Plain!Redirected, Destination, Plain!redirectToLib
<1>4. \A path : Plain!redirect(path) = RedirectTo(Here, path)
  BY <1>1, <1>2, <1>3, SameForms DEF Plain!redirect, RedirectTo
<1>5. Plain!handleSsoEvent = SsoTo(Here)
  BY <1>1, <1>2, <1>3, SameForms DEF Plain!handleSsoEvent, SsoTo
<1>6. Plain!handleGoogleAuthEvent = GoogleTo(Here)
  BY <1>1, <1>2, <1>3, SameForms DEF Plain!handleGoogleAuthEvent, GoogleTo
<1> QED BY <1>2, <1>4, <1>5, <1>6

LEMMA LedPlain ==
  ASSUME PlainApart, TabInv, Handled, NEW ks \in SUBSET Items, NEW t, NEW r,
         NEW b, Shaped(b), b.session = session, b.session_url = session_url, b.local = local,
         \A f \in PageFields \ {"unClickable"} : b.page[f] = page[f],
         LeadsTo(b, r, ks, t), Click(r)
  PROVE  /\ PlainSession' = Plain!LookedUp(ks) /\ UNCHANGED <<session_url, local>>
         /\ PlainPage' = [PlainPage EXCEPT !.to = t]
         /\ t = page.to => PlainPage' = PlainPage
         /\ page'.leaving = page.leaving
<1>1. page # None /\ page' # None
  BY DEF Handled, Stays
<1>2. /\ Shaped(r) /\ \A k \in SessionItems \ (ks \cup {"renderingType"}) : r.session[k] = session[k]
      /\ \A k \in ks : r.session[k] = Value(b, k)
      /\ r.session_url = session_url /\ r.local = local
      /\ \A f \in PageFields \ {"to", "unClickable"} : r.page[f] = page[f]
      /\ r.page.to = t
  BY DEF LeadsTo, Unmoved
<1>3. /\ session' = r.session /\ session_url' = r.session_url /\ local' = r.local
      /\ \A f \in PageFields \ {"clicks"} : page'[f] = r.page[f]
  BY <1>2, ClickIs
<1>4. \A k : Value(b, k) = Value(Here, k)
  <2>1. b.page["q"] = page["q"]
    BY DEF PageFields
  <2> QED BY <1>1, <2>1, HereIs DEF Value
<1>5. PlainSession' = Plain!LookedUp(ks)
  <2>1. \A k \in PlainItems \ ks : session'[k] = session[k]
    BY <1>2, <1>3, PlainItemsAre
  <2> QED BY <1>1, <1>2, <1>3, <1>4, <2>1, PlainLookedUp
<1>6. /\ \A f \in {"q", "alive", "loaded", "signIn", "goBack", "forgotVersion"} :
           page'[f] = page[f]
      /\ page'.hidden = page.hidden /\ page'.to = t /\ page'.leaving = page.leaving
  BY <1>2, <1>3 DEF PageFields
<1> QED BY <1>1, <1>2, <1>3, <1>5, <1>6, PlainKept

LEMMA NavigatePlain ==
  ASSUME PageApart, PlainApart, TabInv,
         NEW e \in {"kc-registration", "googleSignInBtn", "stateButton"},
         NEW type \in {"self", "google", "state"},
         e = "kc-registration" <=> type = "self", e = "googleSignInBtn" <=> type = "google",
         Navigate(e, type)
  PROVE  PlainStep /\ page'.leaving = page.leaving
<1> DEFINE v == Value(Here, "version")
           r == navigate(Here, type)
           ks == NavigateLooksUp(Here)
           t == NavigateTo(Here, type)
<1>1. page # None /\ Plain!Shown(e) /\ page.alive = TRUE /\ Click(r) /\ Handled
  BY PlainShown, NavigateHandled DEF Navigate, Here, TabInv, PageInv, OpenPage
<1>2. /\ Shaped(Here) /\ Here.page = page /\ Here.session = session
      /\ Here.session_url = session_url /\ Here.local = local
  BY <1>1, HereIs
<1>3. LeadsTo(Here, r, ks, t)
  BY <1>2, NavigateIs
<1>4. ks \in SUBSET Items
  BY DEF NavigateLooksUp, Items
<1> HIDE DEF r, ks, t
<1>5. /\ PlainSession' = Plain!LookedUp(ks) /\ UNCHANGED <<session_url, local>>
      /\ PlainPage' = [PlainPage EXCEPT !.to = t]
      /\ t = page.to => PlainPage' = PlainPage
      /\ page'.leaving = page.leaving
  BY <1>1, <1>2, <1>3, <1>4, LedPlain
<1>6. PlainPage # None /\ PlainPage.runs = TRUE /\ PlainPage.q = page.q
  BY <1>1, PlainIs
<1>7. CASE ~Logs
  <2>1. ks = {"version"} /\ t = page.to
    BY <1>2, <1>7 DEF ks, t, NavigateLooksUp, Leaves, NavigateTo
  <2>2. LostClick
    BY <1>1, <1>5, <1>7, <2>1 DEF LostClick
  <2> QED BY <1>5, <2>2 DEF PlainStep
<1>8. Plain!getValueFromSession("version") = v
  BY <1>1, PlainValue DEF Items
<1>9. Logs => ks = {"version"} \cup (IF v \in {1, 2} \/ AtLeastText3(v)
                                       THEN {"redirect_uri"} ELSE {})
  BY DEF ks, NavigateLooksUp, Leaves
<1>10. /\ \A path : Plain!redirect(path) = RedirectTo(Here, path)
       /\ Plain!handleSsoEvent = SsoTo(Here) /\ Plain!handleGoogleAuthEvent = GoogleTo(Here)
       /\ Plain!uri = uri(Here)
  BY <1>1, PlainTos
<1>11. Logs => Plain!Clicked(v)
  BY <1>5, <1>9, SameForms DEF Plain!Clicked
<1>12. ASSUME Plain!navigate(type) PROVE PlainStep
  BY <1>1, <1>12 DEF PlainStep, Plain!Next
<1> DEFINE docked == /\ page.q.client_id = "portal" /\ urlMap[type] = "/sign-in/sso/select-org"
                     /\ uri(Here) \in Docks
<1>13. CASE Logs /\ v \in {1, 2}
  <2>1. t = IF type = "state" THEN SsoTo(Here) ELSE RedirectTo(Here, urlMap[type])
    BY <1>13 DEF t, NavigateTo
  <2>2. Plain!LeaveFor(t)
    BY <1>5 DEF Plain!LeaveFor
  <2>3. Plain!navigate(type)
    BY <1>6, <1>8, <1>10, <1>11, <1>13, <2>1, <2>2, SameForms DEF Plain!navigate
  <2> QED BY <1>5, <1>12, <2>3
<1>14. CASE Logs /\ v \notin {1, 2} /\ ~AtLeastText3(v)
  <2>1. t = page.to
    BY <1>2, <1>14 DEF t, NavigateTo
  <2>2. UNCHANGED <<session_url, local, PlainPage>>
    BY <1>5, <2>1
  <2>3. Plain!navigate(type)
    BY <1>6, <1>8, <1>11, <1>14, <2>2, SameForms DEF Plain!navigate
  <2> QED BY <1>5, <1>12, <2>3
<1>15. CASE Logs /\ v \notin {1, 2} /\ AtLeastText3(v) /\ type = "google"
  <2>1. t = GoogleTo(Here)
    BY <1>15 DEF t, NavigateTo
  <2>2. Plain!LeaveFor(t)
    BY <1>5 DEF Plain!LeaveFor
  <2>3. Plain!navigate(type)
    BY <1>6, <1>8, <1>10, <1>11, <1>15, <2>1, <2>2, SameForms DEF Plain!navigate
  <2> QED BY <1>5, <1>12, <2>3
<1>16. CASE Logs /\ v \notin {1, 2} /\ AtLeastText3(v) /\ type # "google"
  <2>1. t = PortalTo(Here, urlMap[type])
    BY <1>16 DEF t, NavigateTo
  <2>2. Plain!LeaveFor(t)
    BY <1>5 DEF Plain!LeaveFor
  <2>3. CASE docked /\ session_url # None /\ uri(Here) # None
    <3>1. type = "state"
      BY <2>3 DEF urlMap
    <3>2. "portal" \notin apps
      BY DEF apps
    <3>3. t = To(session_url.host, urlMap["state"], session_url)
      BY <1>2, <2>1, <2>3, <3>1, <3>2 DEF PortalTo, Destination
    <3>4. ks = {"version", "redirect_uri"}
      BY <1>9, <1>16
    <3>5. DockClick
      BY <1>1, <1>5, <2>2, <2>3, <3>3, <3>4 DEF DockClick, Here
    <3> QED BY <1>5, <3>5 DEF PlainStep
  <2>4. CASE ~(docked /\ session_url # None /\ uri(Here) # None)
    <3>1. t = RedirectTo(Here, urlMap[type])
      BY <1>2, <2>1, <2>4 DEF PortalTo, RedirectTo, Destination
    <3>2. t = Plain!redirectToPortal(Plain!urlMap[type])
      BY <1>10, <3>1, SameForms DEF Plain!redirectToPortal
    <3>3. Plain!navigate(type)
      BY <1>6, <1>8, <1>11, <1>16, <2>2, <3>2, SameForms DEF Plain!navigate
    <3> QED BY <1>5, <1>12, <3>3
  <2> QED BY <2>3, <2>4
<1> QED BY <1>7, <1>13, <1>14, <1>15, <1>16

-----------------------------------------------------------------------------
(* The other clicks, and the timers. *)
LEMMA ForgotPortalPlain ==
  ASSUME PageApart, PlainApart, TabInv, ForgotPortal
  PROVE  PlainStep /\ page'.leaving = page.leaving
<1> DEFINE b == [Browser(page) EXCEPT !.page.unClickable = TRUE]
           r == IF Logs THEN forgetPassword(b, "/recover/identify/account") ELSE b
           t == IF Logs THEN RedirectTo(b, "/recover/identify/account") ELSE page.to
           ks == IF Logs THEN {"redirect_uri"} ELSE {}
<1>1. page # None /\ Shown("fgtPortalFlow") /\ Click(r) /\ Handled
  BY PlainShown, ForgotPortalHandled DEF ForgotPortal
<1>2. Plain!Shown("fgtPortalFlow")
  BY <1>1, PlainShown
<1>3. /\ Shaped(b) /\ b.session = session /\ b.session_url = session_url /\ b.local = local
      /\ \A f \in PageFields \ {"unClickable"} : b.page[f] = page[f]
      /\ b.page.to = page.to
  BY <1>1, HereIs DEF Shaped, PageFields
<1>4. LeadsTo(b, r, ks, t)
  <2> HIDE DEF b
  <2>1. CASE Logs
    <3>1. LeadsTo(b, forgetPassword(b, "/recover/identify/account"), {"redirect_uri"},
                  RedirectTo(b, "/recover/identify/account"))
      BY <1>3, RedirectsAre DEF forgetPassword
    <3> QED BY <2>1, <3>1
  <2>2. CASE ~Logs
    <3>1. LeadsTo(b, b, {}, page.to)
      BY <1>3 DEF LeadsTo, Unmoved
    <3> QED BY <2>2, <3>1
  <2> QED BY <2>1, <2>2
<1>5. ks \in SUBSET Items
  BY DEF Items
<1>6. t = IF Logs THEN RedirectTo(Here, "/recover/identify/account") ELSE page.to
  <2>1. Here.page.q = page.q /\ Here.session = session /\ Here.session_url = session_url
    BY <1>1, HereIs
  <2>2. b.page.q = page.q
    BY <1>3 DEF PageFields
  <2> HIDE DEF b
  <2>3. uri(b) = uri(Here)
    BY <1>3, <2>1, <2>2 DEF uri, Value
  <2> QED BY <1>3, <2>1, <2>2, <2>3 DEF RedirectTo, Destination
<1> HIDE DEF b, r, ks, t
<1>7. /\ PlainSession' = Plain!LookedUp(ks) /\ UNCHANGED <<session_url, local>>
      /\ PlainPage' = [PlainPage EXCEPT !.to = t]
      /\ t = page.to => PlainPage' = PlainPage
      /\ page'.leaving = page.leaving
  BY <1>1, <1>3, <1>4, <1>5, LedPlain
<1>8. CASE Logs
  <2>1. Plain!redirect("/recover/identify/account") = t
    BY <1>1, <1>6, <1>8, PlainTos
  <2>2. Plain!forgetPassword
    BY <1>2, <1>7, <1>8, <2>1 DEF Plain!forgetPassword, Plain!LeaveFor, ks
  <2> QED BY <1>7, <2>2 DEF PlainStep, Plain!Next
<1>9. CASE ~Logs
  <2>1. Plain!LookedUp({}) = PlainSession
    BY PlainItemsAre DEF Plain!LookedUp, PlainSession, PlainItems
  <2>2. UNCHANGED Plain!plain
    BY <1>6, <1>7, <1>9, <2>1 DEF Plain!plain, ks
  <2> QED BY <1>7, <2>2 DEF PlainStep
<1> QED BY <1>8, <1>9

LEMMA ForgotKeycloakPlain ==
  ASSUME PageApart, PlainApart, TabInv, ForgotKeycloak
  PROVE  /\ PlainStep /\ page # None /\ page' # None
         /\ session'.url = page.q /\ Shown("fgtKeycloakFlow")
<1> DEFINE b == [Browser(page) EXCEPT !.page.unClickable = TRUE, !.session.url = page.q]
           r == IF Logs THEN [b EXCEPT !.page.leaving = @ + 1] ELSE b
<1>1. page # None /\ Shown("fgtKeycloakFlow") /\ Click(r) /\ Handled
  BY PlainShown, ForgotKeycloakHandled DEF ForgotKeycloak
<1>2. Plain!Shown("fgtKeycloakFlow")
  BY <1>1, PlainShown
<1>3. /\ Shaped(b) /\ b.session_url = session_url /\ b.local = local
      /\ \A f \in PageFields \ {"unClickable"} : b.page[f] = page[f]
      /\ b.session.url = page.q
      /\ \A k \in SessionItems \ {"url"} : b.session[k] = session[k]
  BY <1>1, HereIs DEF Shaped, PageFields, SessionItems
<1> HIDE DEF b
<1>4. /\ Shaped(r) /\ r.session = b.session /\ r.session_url = session_url /\ r.local = local
      /\ \A f \in PageFields \ {"unClickable", "leaving"} : r.page[f] = page[f]
  BY <1>3 DEF Shaped, PageFields
<1> HIDE DEF r
<1>5. /\ session' = b.session /\ session_url' = session_url /\ local' = local
      /\ \A f \in PageFields \ {"clicks"} : page'[f] = r.page[f]
  BY <1>1, <1>4, ClickIs
<1>6. \A f \in {"q", "alive", "loaded", "signIn", "goBack", "forgotVersion", "hidden", "to"} :
         page'[f] = page[f]
  BY <1>4, <1>5 DEF PageFields
<1>7. page' # None
  BY <1>1 DEF Handled, Stays
<1>8. PlainPage' = PlainPage
  BY <1>1, <1>6, <1>7, PlainKept
<1>9. PlainSession' = [PlainSession EXCEPT !.url = PlainPage.q]
  <2>1. PlainPage.q = page.q
    BY <1>1, PlainIs
  <2>2. \A k \in PlainItems : session'[k] = IF k = "url" THEN page.q ELSE PlainSession[k]
    BY <1>3, <1>5, PlainItemsAre
  <2>3. PlainSession' = [k \in PlainItems |-> session'[k]]
    BY DEF PlainSession, PlainItems
  <2>4. "url" \in PlainItems /\ PlainSession = [k \in PlainItems |-> PlainSession[k]]
    BY PlainItemsAre DEF SessionItems, PlainSession, PlainItems
  <2> QED BY <2>1, <2>2, <2>3, <2>4
<1>10. Plain!storeLocation
  BY <1>2, <1>5, <1>8, <1>9 DEF Plain!storeLocation
<1> QED BY <1>1, <1>3, <1>5, <1>7, <1>10 DEF PlainStep, Plain!Next

(* A step that leaves for t, and looks nothing up. *)
LEMMA LeftPlain ==
  ASSUME page # None, page' # None,
         \A f \in {"q", "alive", "loaded", "signIn", "goBack", "forgotVersion", "hidden"} :
            page'[f] = page[f],
         session' = session, session_url' = session_url, local' = local
  PROVE  /\ PlainSession' = PlainSession /\ UNCHANGED <<session_url, local>>
         /\ Plain!LeaveFor(page'.to)
         /\ page'.to = page.to => UNCHANGED Plain!plain
<1>1. PlainSession' = PlainSession
  BY PlainSessionKept
<1>2. /\ PlainPage' = [PlainPage EXCEPT !.to = page'.to]
      /\ page'.to = page.to => PlainPage' = PlainPage
  BY PlainKept
<1> QED BY <1>1, <1>2 DEF Plain!LeaveFor, Plain!plain

LEMMA ClickLeft ==
  ASSUME Handled, NEW r, Shaped(r), r.session = session,
         r.session_url = session_url, r.local = local,
         \A f \in {"q", "alive", "loaded", "signIn", "goBack", "forgotVersion", "hidden",
                   "leaving"} : r.page[f] = page[f],
         Click(r)
  PROVE  /\ PlainSession' = PlainSession /\ UNCHANGED <<session_url, local>>
         /\ page'.to = r.page.to /\ Plain!LeaveFor(page'.to)
         /\ page'.to = page.to => UNCHANGED Plain!plain
         /\ page'.leaving = page.leaving
<1>1. page # None /\ page' # None
  BY DEF Handled, Stays
<1>2. /\ session' = session /\ session_url' = session_url /\ local' = local
      /\ \A f \in PageFields \ {"clicks"} : page'[f] = r.page[f]
  BY ClickIs
<1>3. /\ \A f \in {"q", "alive", "loaded", "signIn", "goBack", "forgotVersion", "hidden"} :
           page'[f] = page[f]
      /\ page'.to = r.page.to /\ page'.leaving = page.leaving
  BY <1>2 DEF PageFields
<1> QED BY <1>1, <1>2, <1>3, LeftPlain

LEMMA LoginClickPlain ==
  ASSUME PageApart, PlainApart, TabInv, doLogin
  PROVE  PlainStep /\ page'.leaving = page.leaving
<1> DEFINE c == [Browser(page) EXCEPT !.page.submitting = @ + 1,
                    !.page.early = @ + (IF page.submits = 0 THEN 1 ELSE 0)]
           r == IF ~Logs THEN Browser(page) ELSE c
<1>1. page # None /\ Click(r) /\ Handled
  BY LoginHandled DEF doLogin
<1>2. /\ Shaped(r) /\ r.session = session /\ r.session_url = session_url /\ r.local = local
      /\ \A f \in PageFields \ {"submitting", "early"} : r.page[f] = page[f]
  <2>1. CASE Logs
    <3>1. r = c
      BY <2>1
    <3> HIDE DEF r
    <3> QED BY <1>1, <3>1, HereIs DEF Shaped, PageFields
  <2>2. CASE ~Logs
    <3>1. r = Browser(page)
      BY <2>2
    <3> HIDE DEF r
    <3> QED BY <1>1, <3>1, HereIs DEF Shaped, PageFields
  <2> QED BY <2>1, <2>2
<1> HIDE DEF r
<1>3. /\ \A f \in {"q", "alive", "loaded", "signIn", "goBack", "forgotVersion", "hidden",
                   "leaving"} : r.page[f] = page[f]
      /\ r.page.to = page.to
  BY <1>2 DEF PageFields
<1> QED BY <1>1, <1>2, <1>3, ClickLeft DEF PlainStep

LEMMA GoBackPlain ==
  ASSUME PageApart, PlainApart, TabInv, GoBack
  PROVE  PlainStep /\ page'.leaving = page.leaving
<1> DEFINE t == To(page.goBack, "", None)
           r == [Browser(page) EXCEPT !.page.to = t]
<1>1. page # None /\ Plain!Shown("goBack") /\ Click(r) /\ Handled
  BY PlainShown, GoBackHandled DEF GoBack, Leave
<1> HIDE DEF t
<1>2. /\ Shaped(r) /\ r.session = session /\ r.session_url = session_url /\ r.local = local
      /\ \A f \in {"q", "alive", "loaded", "signIn", "goBack", "forgotVersion", "hidden",
                   "leaving"} : r.page[f] = page[f]
      /\ r.page.to = t
  BY <1>1, HereIs DEF Shaped, PageFields
<1> HIDE DEF r
<1>3. PlainPage.goBack = page.goBack
  BY <1>1, PlainIs
<1>4. t = Plain!To(PlainPage.goBack, "", None)
  BY <1>3, SameForms DEF t
<1>5. Plain!GoBack /\ page'.leaving = page.leaving
  BY <1>1, <1>2, <1>4, ClickLeft DEF Plain!GoBack
<1> QED BY <1>5 DEF PlainStep, Plain!Next

LEMMA UnclickablePlain ==
  ASSUME PageApart, PlainApart, TabInv, makeDivUnclickable
  PROVE  PlainStep /\ page'.leaving = page.leaving
<1> DEFINE t == To("login", "loginAction", None)
           r == [Browser(page) EXCEPT !.page.unClickable = @ \/ Logs, !.page.to = t]
<1>1. page # None /\ Click(r) /\ Handled
  BY UnclickableHandled DEF makeDivUnclickable
<1> HIDE DEF t
<1>2. /\ Shaped(r) /\ r.session = session /\ r.session_url = session_url /\ r.local = local
      /\ \A f \in {"q", "alive", "loaded", "signIn", "goBack", "forgotVersion", "hidden",
                   "leaving"} : r.page[f] = page[f]
      /\ r.page.to = t
  BY <1>1, HereIs DEF Shaped, PageFields
<1> HIDE DEF r
<1>3. PlainPage # None /\ t = Plain!To("login", "loginAction", None)
  BY <1>1, PlainIs, SameForms DEF t
<1>4. Plain!Submit /\ page'.leaving = page.leaving
  BY <1>1, <1>2, <1>3, ClickLeft DEF Plain!Submit
<1> QED BY <1>4 DEF PlainStep, Plain!Next

LEMMA SubmitPlain ==
  ASSUME PageApart, PlainApart, TabInv, Submit
  PROVE  PlainStep /\ page'.leaving = page.leaving
<1> DEFINE t == To("login", "loginAction", None)
           r == [Browser(page) EXCEPT !.page.submitting = @ - 1, !.page.submits = @ + 1,
                                      !.page.disabled = TRUE, !.page.to = t]
<1>1. page # None /\ Handled
  BY SubmitHandled DEF Submit
<1> HIDE DEF t
<1>2. /\ session' = r.session /\ session_url' = r.session_url /\ local' = r.local
      /\ page' = r.page
  BY DEF Submit, Handler, Commit, t
<1>3. /\ r.session = session /\ r.session_url = session_url /\ r.local = local
      /\ \A f \in {"q", "alive", "loaded", "signIn", "goBack", "forgotVersion", "hidden",
                   "leaving"} : r.page[f] = page[f]
      /\ r.page.to = t
  BY <1>1, HereIs DEF Shaped, PageFields
<1> HIDE DEF r
<1>4. PlainPage # None /\ t = Plain!To("login", "loginAction", None)
  BY <1>1, PlainIs, SameForms DEF t
<1>5. page' # None
  BY <1>1 DEF Handled, Stays
<1>6. Plain!Submit
  BY <1>1, <1>2, <1>3, <1>4, <1>5, LeftPlain DEF Plain!Submit
<1> QED BY <1>2, <1>3, <1>6 DEF PlainStep, Plain!Next

LEMMA FocusPlain ==
  ASSUME PageApart, PlainApart, TabInv, NEW in \in BOOLEAN, inputBoxFocus(in)
  PROVE  PlainStep /\ page'.leaving = page.leaving
<1> DEFINE shown == IF in THEN "usernameLabelPlaceholder" ELSE "usernameLabel"
           other == IF in THEN "usernameLabel" ELSE "usernameLabelPlaceholder"
<1>1. /\ page # None /\ page.alive = TRUE /\ session_url' = session_url /\ local' = local
      /\ \A k \in SessionItems \ {"automerge", "renderingType"} : session'[k] = session[k]
      /\ session'.automerge = Value(Here, "automerge")
      /\ \A f \in {"q", "alive", "loaded", "threw", "signIn", "goBack", "forgotVersion",
                   "orgInfo", "unClickable", "submitting", "submits", "early", "disabled",
                   "leaving", "to"} : page'[f] = page[f]
  BY FocusIs
<1>2. page'.hidden = (IF Value(Here, "automerge") = "1" THEN page.hidden
                      ELSE (page.hidden \ {shown}) \cup ({other} \cap Elements(page.q)))
  BY FocusIs
<1>3. page' # None /\ page'.leaving = page.leaving
  BY <1>1, FocusHandled DEF Handled, Stays
<1>4. other \in Elements(page.q)
  <2>1. "username" \in Elements(page.q) /\ page.q \in Requests
    BY <1>1 DEF inputBoxFocus, TabInv, PageInv, OpenPage
  <2>2. page.q.form \in {"login", "reset", "update"}
    BY <2>1, RequestsAssumption
  <2>3. page.q.form # "update"
    BY <2>1 DEF Elements
  <2>4. CASE page.q.form = "login"
    BY <2>4 DEF Elements
  <2>5. CASE page.q.form = "reset"
    BY <2>5 DEF Elements
  <2> QED BY <2>2, <2>3, <2>4, <2>5
<1>5. PlainSession' = Plain!LookedUp({"automerge"})
  <2>1. \A k \in PlainItems \ {"automerge"} : session'[k] = session[k]
    BY <1>1, PlainItemsAre
  <2> QED BY <1>1, <2>1, PlainLookedUp DEF Items
<1>6. /\ PlainPage # None /\ PlainPage.runs = TRUE
      /\ Plain!getValueFromSession("automerge") = Value(Here, "automerge")
      /\ PlainPage.hidden = PlainHidden
  BY <1>1, PlainIs, PlainValue DEF Items
<1>7. /\ PlainPage' = [PlainPage EXCEPT !.hidden = PlainHidden', !.to = page'.to]
      /\ page'.hidden = page.hidden => PlainPage' = PlainPage
  BY <1>1, <1>3, PlainKept
<1>8. CASE Value(Here, "automerge") = "1"
  <2>1. PlainPage' = PlainPage
    BY <1>2, <1>7, <1>8
  <2>2. Plain!inputBoxFocus(shown, other)
    BY <1>1, <1>5, <1>6, <1>8, <2>1 DEF Plain!inputBoxFocus
  <2>3. Plain!Next
    BY <2>2 DEF Plain!Next
  <2> QED BY <1>3, <2>3 DEF PlainStep
<1>9. CASE Value(Here, "automerge") # "1"
  <2>1. PlainHidden' = (PlainPage.hidden \ {shown}) \cup {other}
    <3>1. other # "googleSignInBtn"
      OBVIOUS
    <3> QED BY <1>2, <1>4, <1>6, <1>9, <3>1 DEF PlainHidden
  <2>2. PlainPage' = [PlainPage EXCEPT !.hidden = (@ \ {shown}) \cup {other}]
    <3>1. page'.to = page.to /\ PlainPage.to = page.to
      BY <1>1, PlainIs
    <3>2. \A h : [PlainPage EXCEPT !.hidden = h, !.to = page.to] = [PlainPage EXCEPT !.hidden = h]
      <4> TAKE h
      <4>1. DOMAIN PlainPage = PlainFields
        BY <1>1 DEF PlainPage, PlainFields
      <4> QED BY <3>1, <4>1 DEF PlainFields
    <3> QED BY <1>7, <2>1, <3>1, <3>2
  <2>3. Plain!inputBoxFocus(shown, other)
    BY <1>1, <1>5, <1>6, <1>9, <2>2 DEF Plain!inputBoxFocus
  <2>4. Plain!Next
    BY <2>3 DEF Plain!Next
  <2> QED BY <1>3, <2>4 DEF PlainStep
<1> QED BY <1>8, <1>9

(* The link to a new password waits for the page it is on. *)
WaitInv ==
  page # None /\ page.leaving > 0 => session.url = page.q /\ Shown("fgtKeycloakFlow")

LEMMA WaitKept ==
  ASSUME TabInv, WaitInv, Handled, page'.leaving > 0 => page.leaving > 0
  PROVE  WaitInv'
<1>1. /\ page # None /\ page' # None /\ page'.q = page.q /\ session'.url \in {session.url, page.q}
      /\ \A e : e \notin Labels => (e \in page'.hidden <=> e \in page.hidden)
  BY DEF Handled, Stays
<1>2. "fgtKeycloakFlow" \notin Labels
  BY DEF Labels
<1>3. page.leaving > 0 => "fgtKeycloakFlow" \in Elements(page.q) /\ "fgtKeycloakFlow" \notin page.hidden
  BY <1>1 DEF WaitInv, Shown, ShownOn
<1>4. page.leaving > 0 =>
        "fgtKeycloakFlow" \in Elements(page'.q) /\ "fgtKeycloakFlow" \notin page'.hidden
  BY <1>1, <1>2, <1>3
<1>5. page.leaving > 0 => Shown("fgtKeycloakFlow")'
  BY <1>1, <1>4 DEF Shown, ShownOn
<1> QED BY <1>1, <1>5 DEF WaitInv

LEMMA LeaveForgotPlain ==
  ASSUME PageApart, PlainApart, TabInv, WaitInv, LeaveForgot
  PROVE  PlainStep /\ (page'.leaving > 0 => page.leaving > 0)
<1> DEFINE t == With(To("login", "loginResetCredentials", None), page.forgotVersion)
           r == [Browser(page) EXCEPT !.page.leaving = @ - 1, !.page.to = t]
<1>1. page # None /\ page.leaving > 0 /\ Handled
  BY LeaveForgotHandled DEF LeaveForgot
<1> HIDE DEF t
<1>2. /\ session' = r.session /\ session_url' = r.session_url /\ local' = r.local
      /\ page' = r.page
  BY DEF LeaveForgot, Handler, Commit, t
<1>3. /\ r.session = session /\ r.session_url = session_url /\ r.local = local
      /\ \A f \in {"q", "alive", "loaded", "signIn", "goBack", "forgotVersion", "hidden"} :
           r.page[f] = page[f]
      /\ r.page.to = t
  BY <1>1, HereIs DEF Shaped, PageFields
<1> HIDE DEF r
<1>4. session.url = page.q /\ Plain!Shown("fgtKeycloakFlow")
  BY <1>1, PlainShown DEF WaitInv
<1>5. PlainPage.q = page.q /\ PlainPage.forgotVersion = page.forgotVersion
  BY <1>1, PlainIs
<1>6. PlainSession.url = session.url
  BY PlainItemsAre DEF SessionItems
<1>7. t = Plain!With(Plain!To("login", "loginResetCredentials", None), PlainPage.forgotVersion)
  BY <1>5, SameForms DEF t
<1>8. page' # None
  BY <1>1 DEF Handled, Stays
<1>9. Plain!FollowForgot
  BY <1>1, <1>2, <1>3, <1>4, <1>5, <1>6, <1>7, <1>8, LeftPlain DEF Plain!FollowForgot
<1> QED BY <1>1, <1>9 DEF PlainStep, Plain!Next

LEMMA OrgPlain ==
  ASSUME TabInv, NEW found \in BOOLEAN, OrgAnswered(found), page' # None
  PROVE  PlainStep /\ page'.leaving = page.leaving
<1>1. /\ page # None /\ DOMAIN page = PageFields
      /\ \A f \in PageFields \ {"orgInfo"} : page'[f] = page[f]
      /\ UNCHANGED <<session, session_url, local>>
  BY DEF OrgAnswered, TabInv, PageInv, PageFields
<1>2. /\ \A f \in {"q", "alive", "loaded", "signIn", "goBack", "forgotVersion", "hidden"} :
           page'[f] = page[f]
      /\ page'.to = page.to /\ page'.leaving = page.leaving
  BY <1>1 DEF PageFields
<1> QED BY <1>1, <1>2, LeftPlain DEF PlainStep

-----------------------------------------------------------------------------
(* A page is opened, in this tab or in another. *)
LEMMA PlainNewSession == Plain!EmptySession = [k \in PlainItems |-> NewSession[k]]
<1>1. Plain!EmptySession = EmptySession /\ EmptySession = [k \in PlainItems |-> EmptySession[k]]
  BY SameForms DEF PlainItems, EmptySession
<1>2. \A k \in PlainItems : NewSession[k] = EmptySession[k]
  <2>1. \A k \in PlainItems :
           k \in DOMAIN EmptySession \cup {"renderingType"} /\ k # "renderingType"
    BY PlainItemsAre DEF PlainItems
  <2> QED BY <2>1 DEF NewSession
<1> QED BY <1>1, <1>2

LEMMA OpenPlain ==
  ASSUME PageApart, PlainApart, TabInv, NEW q \in Requests, Open(q)
  PROVE  Plain!Next /\ page'.leaving = 0
<1>1. /\ page' = NewPage(q) /\ page' # None
      /\ \A k \in SessionItems \ {"redirect_uri", "renderingType"} : session'[k] = session[k]
      /\ session'.redirect_uri = (IF Evaluates(q) /\ q.redirect_uri # None
                                  THEN q.redirect_uri ELSE session.redirect_uri)
      /\ session_url' = (IF Evaluates(q) /\ session_url = None THEN q ELSE session_url)
      /\ local' = local
  BY OpenIs
<1>2. Evaluates(q) \in BOOLEAN
  BY DEF Evaluates
<1>3. PlainPage' = Plain!NewPage(q, Evaluates(q))
  <2>1. "googleSignInBtn" \notin InitiallyHidden
    BY DEF InitiallyHidden
  <2>2. (InitiallyHidden \cap Elements(q)) \ {"googleSignInBtn"} = InitiallyHidden \cap Elements(q)
    BY <2>1
  <2>3. /\ page'.q = q /\ page'.alive = Evaluates(q) /\ page'.loaded = FALSE
        /\ page'.hidden = InitiallyHidden \cap Elements(q)
        /\ page'.signIn = "login" /\ page'.goBack = None /\ page'.forgotVersion = None
        /\ page'.to = None
    BY <1>1 DEF NewPage
  <2> QED BY <1>1, <2>2, <2>3, SameForms DEF PlainPage, Plain!NewPage
<1>4. CASE Evaluates(q)
  <2>1. PlainSession' = [PlainSession EXCEPT !.redirect_uri =
                           IF q.redirect_uri # None THEN q.redirect_uri ELSE @]
    <3>1. \A k \in PlainItems : session'[k] = IF k = "redirect_uri" /\ q.redirect_uri # None
                                              THEN q.redirect_uri ELSE PlainSession[k]
      BY <1>1, <1>4, PlainItemsAre
    <3>2. PlainSession' = [k \in PlainItems |-> session'[k]]
      BY DEF PlainSession, PlainItems
    <3>3. "redirect_uri" \in PlainItems /\ PlainSession = [k \in PlainItems |-> PlainSession[k]]
      BY PlainItemsAre DEF SessionItems, PlainSession, PlainItems
    <3> QED BY <3>1, <3>2, <3>3
  <2>2. Plain!initialize(q)
    BY <1>1, <1>4, <2>1 DEF Plain!initialize
  <2>3. Evaluates(q) = TRUE
    BY <1>2, <1>4
  <2>4. Plain!Open(q)
    BY <1>1, <1>3, <2>2, <2>3 DEF Plain!Open
  <2> QED BY <1>1, <2>4 DEF Plain!Next, NewPage
<1>5. CASE ~Evaluates(q)
  <2>1. PlainSession' = PlainSession
    BY <1>1, <1>5, PlainSessionKept, PlainItemsAre
  <2>2. Evaluates(q) = FALSE
    BY <1>2, <1>5
  <2>3. Plain!Open(q)
    BY <1>1, <1>3, <1>5, <2>1, <2>2 DEF Plain!Open
  <2> QED BY <1>1, <2>3 DEF Plain!Next, NewPage
<1> QED BY <1>4, <1>5

LEMMA NewTabPlain == ASSUME NewTab PROVE Plain!Next
<1>1. session' = NewSession /\ session_url' = None /\ page' = None /\ local' = local
  BY DEF NewTab
<1>2. PlainSession' = Plain!EmptySession
  BY <1>1, PlainNewSession DEF PlainSession, PlainItems
<1>3. PlainPage' = None
  BY <1>1 DEF PlainPage
<1> QED BY <1>1, <1>2, <1>3 DEF Plain!NewTab, Plain!Next

LEMMA InitPlain == ASSUME Init PROVE Plain!Init
<1>1. session = NewSession /\ session_url = None /\ local = EmptyLocal /\ page = None
  BY DEF Init
<1>2. PlainSession = Plain!EmptySession
  BY <1>1, PlainNewSession DEF PlainSession, PlainItems
<1>3. PlainPage = None
  BY <1>1 DEF PlainPage
<1> QED BY <1>1, <1>2, <1>3, SameForms DEF Plain!Init

-----------------------------------------------------------------------------
(* What a page hides and has looked up before its onload. *)
ReadyInv ==
  page # None =>
    /\ page.loaded = FALSE => page.hidden \subseteq InitiallyHidden \cup Labels
    /\ page.alive = TRUE /\ page.q.redirect_uri # None =>
         session.redirect_uri = page.q.redirect_uri

LEMMA ReadyKept == ASSUME TabInv, ReadyInv, Handled PROVE ReadyInv'
<1>1. /\ page # None /\ page'.q = page.q /\ page'.loaded = page.loaded /\ page'.alive = page.alive
      /\ \A e : e \notin Labels => (e \in page'.hidden <=> e \in page.hidden)
      /\ session'.redirect_uri \in {session.redirect_uri, Value(Here, "redirect_uri")}
  BY DEF Handled, Stays
<1>2. page.q.redirect_uri # None => Value(Here, "redirect_uri") = page.q.redirect_uri
  BY <1>1, HereIs DEF Value
<1> QED BY <1>1, <1>2 DEF ReadyInv

LEMMA Single == ASSUME NEW S, NEW a \in S PROVE <<a>> \in Seq(S) /\ Len(<<a>>) = 1 /\ <<a>>[1] = a
  OBVIOUS

LEMMA Concatenated ==
  ASSUME NEW S, NEW s \in Seq(S), NEW a \in S, NEW b \in S
  PROVE  LET r == s \o <<a, b>>
         IN  /\ DOMAIN r = 1..(Len(s) + 2) /\ r \in Seq(S)
             /\ \A i \in 1..Len(s) : r[i] = s[i]
             /\ r[Len(s) + 1] = a /\ r[Len(s) + 2] = b
<1> DEFINE t == <<a, b>>
           r == s \o t
<1>1. t \in Seq(S) /\ Len(t) = 2 /\ t[1] = a /\ t[2] = b
  OBVIOUS
<1> HIDE DEF t
<1>2. /\ r \in Seq(S) /\ Len(r) = Len(s) + 2
      /\ \A i \in 1..(Len(s) + 2) : r[i] = IF i <= Len(s) THEN s[i] ELSE t[i - Len(s)]
  <2>1. /\ s \o t \in Seq(S) /\ Len(s \o t) = Len(s) + Len(t)
        /\ \A i \in 1..(Len(s) + Len(t)) :
              (s \o t)[i] = IF i <= Len(s) THEN s[i] ELSE t[i - Len(s)]
    BY <1>1, ConcatProperties
  <2> QED BY <1>1, <2>1
<1>3. Len(s) \in Nat
  OBVIOUS
<1> HIDE DEF r
<1>4. /\ \A i \in 1..Len(s) : r[i] = s[i]
      /\ r[Len(s) + 1] = a /\ r[Len(s) + 2] = b /\ DOMAIN r = 1..(Len(s) + 2)
  BY <1>1, <1>2, <1>3
<1> QED BY <1>2, <1>4 DEF r, t

(* The lookups of a page that merges automatically, by their end. *)
LEMMA PlainDecorates ==
  ASSUME PlainApart, TabInv, page # None, Value(Here, "automerge") = "1"
  PROVE  Plain!decoratePage <=> Kept(Here)
<1> DEFINE q == page.q
           A(k) == q[k] = None /\ session[k] # None
           N(k) == q[k] = None /\ session[k] = None
<1>1. /\ PlainPage.q = q /\ Here.page.q = q /\ Here.session = session
      /\ \A k \in Items : PlainSession[k] = session[k]
  BY PlainIs, HereIs, PlainItemsAre DEF Items, SessionItems
<1>2. ~N("automerge")
  BY <1>1, NamesAssumption DEF Value
<1>3. CASE q.automerge # None
  <2>0. Plain!LookUps = (<<"automerge">> \o <<"redirect_uri">>)
                          \o <<"identifierValue", "goBackUrl">>
    BY <1>1, <1>3 DEF Plain!LookUps
  <2>1. LET s == <<"automerge">> \o <<"redirect_uri">>
        IN  s \in Seq(Items) /\ Len(s) = 2 /\ s[1] = "automerge" /\ s[2] = "redirect_uri"
    <3>1. /\ <<"automerge">> \in Seq(Items) /\ <<"redirect_uri">> \in Seq(Items)
          /\ Len(<<"automerge">>) = 1 /\ Len(<<"redirect_uri">>) = 1
          /\ <<"automerge">>[1] = "automerge" /\ <<"redirect_uri">>[1] = "redirect_uri"
      BY Single DEF Items
    <3> QED BY <3>1, ConcatProperties
  <2>2. /\ DOMAIN Plain!LookUps = 1..4
        /\ Plain!LookUps[1] = "automerge" /\ Plain!LookUps[2] = "redirect_uri"
        /\ Plain!LookUps[3] = "identifierValue" /\ Plain!LookUps[4] = "goBackUrl"
    BY <2>0, <2>1, Concatenated DEF Items
  <2>3. Plain!decoratePage <=>
          \/ /\ A("automerge") /\ N("redirect_uri") /\ N("identifierValue") /\ N("goBackUrl")
          \/ /\ A("redirect_uri") /\ N("identifierValue") /\ N("goBackUrl")
          \/ /\ A("identifierValue") /\ N("goBackUrl")
          \/ A("goBackUrl")
    <3>1. \A i : i \in 1..4 <=> i = 1 \/ i = 2 \/ i = 3 \/ i = 4
      OBVIOUS
    <3>3. /\ PlainSession["automerge"] = session["automerge"]
          /\ PlainSession["redirect_uri"] = session["redirect_uri"]
          /\ PlainSession["identifierValue"] = session["identifierValue"]
          /\ PlainSession["goBackUrl"] = session["goBackUrl"]
      BY <1>1 DEF Items
    <3> QED BY <1>1, <2>2, <3>1, <3>3 DEF Plain!decoratePage
  <2> QED BY <1>1, <1>3, <2>3 DEF Kept, Rendered, RenderedFrom
<1>4. CASE q.automerge = None
  <2>0. Plain!LookUps = (<<"automerge">> \o <<>>) \o <<"identifierValue", "goBackUrl">>
    BY <1>1, <1>4 DEF Plain!LookUps
  <2>1. LET s == <<"automerge">> \o <<>>
        IN  s \in Seq(Items) /\ Len(s) = 1 /\ s[1] = "automerge"
    <3>1. /\ <<"automerge">> \in Seq(Items) /\ Len(<<"automerge">>) = 1
          /\ <<"automerge">>[1] = "automerge"
      BY Single DEF Items
    <3> QED BY <3>1, ConcatEmptySeq
  <2>2. /\ DOMAIN Plain!LookUps = 1..3
        /\ Plain!LookUps[1] = "automerge" /\ Plain!LookUps[2] = "identifierValue"
        /\ Plain!LookUps[3] = "goBackUrl"
    BY <2>0, <2>1, Concatenated DEF Items
  <2>3. Plain!decoratePage <=>
          \/ A("automerge") /\ N("identifierValue") /\ N("goBackUrl")
          \/ A("identifierValue") /\ N("goBackUrl")
          \/ A("goBackUrl")
    <3>1. \A i : i \in 1..3 <=> i = 1 \/ i = 2 \/ i = 3
      OBVIOUS
    <3>3. /\ PlainSession["automerge"] = session["automerge"]
          /\ PlainSession["identifierValue"] = session["identifierValue"]
          /\ PlainSession["goBackUrl"] = session["goBackUrl"]
      BY <1>1 DEF Items
    <3> QED BY <1>1, <2>2, <3>1, <3>3 DEF Plain!decoratePage
  <2> QED BY <1>1, <1>2, <1>4, <2>3 DEF Kept, Rendered, RenderedFrom
<1> QED BY <1>3, <1>4

-----------------------------------------------------------------------------
(* The onload of the two scripts. *)
PlainPageOf(q, runs, loaded, hidden, signIn, goBack, version, to) ==
  [q |-> q, runs |-> runs, loaded |-> loaded, hidden |-> hidden, signIn |-> signIn,
   goBack |-> goBack, forgotVersion |-> version, to |-> to]

LEMMA PlainSame ==
  ASSUME NEW r, NEW w, DOMAIN r = PlainFields, DOMAIN w = PlainFields,
         r = [f \in PlainFields |-> r[f]], w = [f \in PlainFields |-> w[f]],
         r["q"] = w["q"], r["runs"] = w["runs"], r["loaded"] = w["loaded"],
         r["hidden"] = w["hidden"], r["signIn"] = w["signIn"], r["goBack"] = w["goBack"],
         r["forgotVersion"] = w["forgotVersion"], r["to"] = w["to"]
  PROVE  r = w
<1>1. \A f \in PlainFields : r[f] = w[f]
  BY DEF PlainFields
<1> QED BY <1>1

PlainLoad(p, h, s, g, v, t) ==
  [p EXCEPT !.loaded = TRUE, !.hidden = h, !.signIn = s, !.goBack = g, !.forgotVersion = v,
            !.to = t]

LEMMA PlainLoaded ==
  ASSUME PlainApart, page # None, NEW h, NEW s, NEW g, NEW v, NEW t
  PROVE  PlainLoad(PlainPage, h, s, g, v, t)
           = PlainPageOf(page.q, page.alive, TRUE, h, s, g, v, t)
<1> DEFINE p == PlainPage
           q == page.q
           runs == page.alive
           r == [p EXCEPT !.loaded = TRUE, !.hidden = h, !.signIn = s, !.goBack = g,
                          !.forgotVersion = v, !.to = t]
           w == PlainPageOf(q, runs, TRUE, h, s, g, v, t)
<1>1. /\ DOMAIN p = PlainFields /\ p["q"] = q /\ p["runs"] = runs
  BY PlainIs DEF PlainFields
<1> HIDE DEF p
<1>2. /\ DOMAIN r = PlainFields /\ r["q"] = q /\ r["runs"] = runs /\ r["loaded"] = TRUE
      /\ r["hidden"] = h /\ r["signIn"] = s /\ r["goBack"] = g /\ r["forgotVersion"] = v
      /\ r["to"] = t
  BY <1>1 DEF PlainFields
<1>3. r = [f \in PlainFields |-> r[f]]
  BY <1>1 DEF PlainFields
<1>4. /\ DOMAIN w = PlainFields /\ w["q"] = q /\ w["runs"] = runs /\ w["loaded"] = TRUE
      /\ w["hidden"] = h /\ w["signIn"] = s /\ w["goBack"] = g /\ w["forgotVersion"] = v
      /\ w["to"] = t
  BY DEF PlainFields, PlainPageOf
<1>5. w = [f \in PlainFields |-> w[f]]
  BY DEF PlainFields, PlainPageOf
<1> HIDE DEF r, w
<1>6. r = w
  BY <1>2, <1>3, <1>4, <1>5, PlainSame
<1> QED BY <1>6 DEF p, r, w, PlainLoad

(* What a page that is loaded takes from the two scripts' notions. *)
LEMMA LoadingIs ==
  ASSUME PageApart, TabInv, Onload
  PROVE  /\ page # None /\ page' # None /\ page.q \in Requests /\ Fresh(Loading)
         /\ page.alive = TRUE /\ page.loaded = FALSE
         /\ Loading.session = session /\ Loading.local = local
         /\ Loading.session_url = session_url
         /\ \A f \in {"q", "alive", "hidden", "signIn", "goBack", "forgotVersion", "to",
                      "leaving"} : Loading.page[f] = page[f]
         /\ \A k \in Items : Value(Loading, k) = Value(Here, k)
         /\ Kept(Loading) <=> Kept(Here)
<1>1. /\ page # None /\ page' # None /\ Fresh(Loading)
      /\ page.alive = TRUE /\ page.loaded = FALSE
      /\ Loading.session = session /\ Loading.local = local
      /\ Loading.session_url = session_url
      /\ \A f \in PageFields \ {"loaded"} : Loading.page[f] = page[f]
  BY LoadIs
<1>2. \A f \in {"q", "alive", "hidden", "signIn", "goBack", "forgotVersion", "to",
                      "leaving"} : Loading.page[f] = page[f]
  BY <1>1 DEF PageFields
<1>3. page.q \in Requests
  BY <1>1 DEF TabInv, PageInv, OpenPage
<1>4. Loading.page.q = page.q /\ Here.page = page /\ Here.session = session
  BY <1>1, <1>2, HereIs
<1>5. \A k \in Items : Value(Loading, k) = Value(Here, k)
  BY <1>1, <1>4 DEF Value
<1>6. Kept(Loading) <=> Kept(Here)
  BY <1>1, <1>4 DEF Kept, Rendered, RenderedFrom
<1> QED BY <1>1, <1>2, <1>3, <1>5, <1>6

LEMMA SessionSame ==
  ASSUME NEW r, NEW w,
         r = [k \in PlainItems |-> r[k]], w = [k \in PlainItems |-> w[k]],
         \A k \in {"version", "redirect_uri", "automerge", "goBackUrl"} : r[k] = w[k],
         \A k \in {"identifierValue", "url", "passwordFailCount"} : r[k] = w[k]
  PROVE  r = w
<1>1. \A k \in PlainItems : r[k] = w[k]
  BY PlainItemsAre DEF SessionItems
<1> QED BY <1>1

(* The items a page that merges automatically stores, and those another does. *)
LEMMA MigrationIs ==
  ASSUME PlainApart, TabInv, page # None
  PROVE  LET c == Plain!storeValueForMigration
         IN  /\ DOMAIN c = PlainItems /\ c = [k \in PlainItems |-> c[k]]
             /\ c["version"] = Value(Here, "version")
             /\ \A k \in {"automerge", "goBackUrl", "identifierValue"} :
                   c[k] = Stored(Value(Here, k))
             /\ \A k \in {"redirect_uri", "url", "passwordFailCount"} : c[k] = session[k]
<1> DEFINE ks == {"version", "automerge", "goBackUrl", "identifierValue"}
           d == Plain!LookedUp(ks)
           c == Plain!storeValueForMigration
<1>1. /\ DOMAIN d = PlainItems
      /\ \A k \in PlainItems :
            d[k] = IF k \in ks THEN Plain!getValueFromSession(k) ELSE PlainSession[k]
  BY PlainItemsAre DEF Plain!LookedUp
<1>2. c = [d EXCEPT !.automerge = Stored(@), !.goBackUrl = Stored(@),
                    !.identifierValue = Stored(@)]
  BY SameForms DEF Plain!storeValueForMigration
<1>3. /\ \A k \in ks : k \in PlainItems /\ d[k] = Value(Here, k)
      /\ \A k \in {"redirect_uri", "url", "passwordFailCount"} :
            k \in PlainItems /\ d[k] = session[k]
  <2>1. ks \subseteq Items /\ ks \subseteq PlainItems
    BY PlainItemsAre DEF Items, SessionItems
  <2>2. \A k \in {"redirect_uri", "url", "passwordFailCount"} : k \in PlainItems /\ k \notin ks
    BY PlainItemsAre DEF SessionItems
  <2> HIDE DEF d, ks
  <2> QED BY <1>1, <2>1, <2>2, PlainItemsAre, PlainValue
<1> HIDE DEF d, c
<1>4. DOMAIN c = PlainItems /\ c = [k \in PlainItems |-> c[k]]
  BY <1>1, <1>2
<1>5. c["version"] = d["version"]
  BY <1>1, <1>2, <1>3
<1>6. \A k \in {"automerge", "goBackUrl", "identifierValue"} : c[k] = Stored(d[k])
  BY <1>1, <1>2, <1>3
<1>7. \A k \in {"redirect_uri", "url", "passwordFailCount"} : c[k] = d[k]
  BY <1>1, <1>2, <1>3
<1> QED BY <1>3, <1>4, <1>5, <1>6, <1>7 DEF c

LEMMA OnloadPlain ==
  ASSUME PageApart, PlainApart, TabInv, ReadyInv, Onload
  PROVE  Plain!Next /\ page'.leaving = page.leaving
<1> DEFINE b         == Loading
           p         == PlainPage
           q         == p.q
           here      == q.mergeaccountprocess
           merge     == IF here # None THEN here ELSE local.mergeaccountprocess
           fromLocal == here = None /\ merge = "1"
           looked    == Plain!getValueFromSession("version")
           version   == IF fromLocal /\ looked = None THEN local.version ELSE looked
           unshown   == q.message # None /\ ~Plain!Has(q.message)
           merges    == merge = "1" /\ ~unshown
           ends      == unshown \/ (merges /\ ~Plain!Has("goBack"))
           auto      == Plain!getValueFromSession("automerge") = "1" /\ ~ends
           kept      == auto /\ Plain!decoratePage
           wrong     == kept /\ q.error = "wrong" /\ ~fromLocal
           uncovered == Plain!addVersionToURL(version)
                          \cup (IF q.message # None THEN {q.message} ELSE {})
                          \cup (IF unshown THEN {} ELSE
                                Plain!unHideElement(version, merges, fromLocal, auto, kept, wrong))
           covered   == Plain!hideElement(merges, auto, kept)
           found     == IF auto THEN Plain!storeValueForMigration
                        ELSE Plain!LookedUp({"version"} \cup IF ends THEN {} ELSE {"automerge"})
           s         == Plain!handlePasswordFailure(found, wrong)
           u         == IF auto /\ q.automerge # None THEN q ELSE session_url
           l         == IF here = None THEN local
                        ELSE IF merges /\ ~ends
                             THEN [mergeaccountprocess |-> here, version |-> Plain!Stored(version),
                                   redirectUrl |-> Plain!Stored(q.goBackUrl)]
                             ELSE Plain!EmptyLocal
           hidden    == (p.hidden \ uncovered) \cup (covered \cap Plain!Elements(q))
           signIn    == IF (merges \/ auto) /\ Plain!Has("signIn") THEN "merge" ELSE p.signIn
           goBack    == IF ~Plain!Has("goBack") \/ ~(merges \/ auto) THEN p.goBack
                        ELSE IF auto THEN Plain!getValueFromSession("goBackUrl")
                        ELSE IF fromLocal THEN local.redirectUrl ELSE q.goBackUrl
           forgot    == IF unshown \/ Plain!AtLeast(version, 4) \/ ~Plain!Has("fgtKeycloakFlow")
                        THEN p.forgotVersion ELSE Plain!Stored(version)
           to        == IF wrong /\ PlainSession.passwordFailCount >= 1
                        THEN Plain!To(q.host, "/sign-in/sso/auth?status=error", None) ELSE p.to
<1>1. PlainPage # None /\ p = PlainPageOf(page.q, page.alive, page.loaded, PlainHidden, page.signIn,
                                          page.goBack, page.forgotVersion, page.to)
  BY PlainIs, LoadingIs DEF PlainPageOf
<1>2. Plain!onload <=>
         /\ PlainPage # None /\ p.runs /\ ~p.loaded
         /\ PlainSession' = s /\ session_url' = u /\ local' = l
         /\ PlainPage' = PlainLoad(p, hidden, signIn, goBack, forgot, to)
  BY DEF Plain!onload, PlainLoad
<1>3. PlainLoad(p, hidden, signIn, goBack, forgot, to)
        = PlainPageOf(page.q, page.alive, TRUE, hidden, signIn, goBack, forgot, to)
  <2>1. page # None
    BY LoadingIs
  <2> HIDE DEF hidden, signIn, goBack, forgot, to
  <2> QED BY <2>1, PlainLoaded
<1>4. /\ p.q = page.q /\ p.runs = page.alive /\ p.loaded = page.loaded /\ p.hidden = PlainHidden
      /\ p.signIn = page.signIn /\ p.goBack = page.goBack /\ p.forgotVersion = page.forgotVersion
      /\ p.to = page.to
  BY <1>1 DEF PlainPageOf
<1>5. /\ page # None /\ page' # None /\ page.q \in Requests /\ Fresh(b)
      /\ page.alive = TRUE /\ page.loaded = FALSE
      /\ b.session = session /\ b.local = local /\ b.session_url = session_url
      /\ \A f \in {"q", "alive", "hidden", "signIn", "goBack", "forgotVersion", "to",
                   "leaving"} : b.page[f] = page[f]
      /\ \A k \in Items : Value(b, k) = Value(Here, k)
      /\ Kept(b) <=> Kept(Here)
  BY LoadingIs
<1>6. q = page.q /\ b.page.q = q
  BY <1>4, <1>5
<1>7. /\ looked = Value(b, "version")
      /\ Plain!getValueFromSession("automerge") = Value(b, "automerge")
      /\ Plain!getValueFromSession("goBackUrl") = Value(b, "goBackUrl")
  <2>1. "version" \in Items /\ "automerge" \in Items /\ "goBackUrl" \in Items
    BY DEF Items
  <2> HIDE DEF b
  <2> QED BY <1>5, <2>1, PlainValue
<1>8. \A e : Plain!Has(e) <=> e \in Elements(q)
  BY SameForms DEF Plain!Has
<1>9. /\ here = b.page.q.mergeaccountprocess /\ merge = MergeOf(b)
      /\ fromLocal <=> FromLocal(b)
  BY <1>5, <1>6 DEF MergeOf, FromLocal
<1>10. version = VersionOf(b)
  <2> HIDE DEF fromLocal, looked, b
  <2> QED BY <1>5, <1>7, <1>9 DEF VersionOf
<1>11. unshown <=> Unshown(q)
  BY <1>8 DEF Unshown
<1>12. merges <=> Merges(b)
  <2> HIDE DEF merge, unshown, b, q
  <2> QED BY <1>6, <1>9, <1>11 DEF Merges
<1>13. ends <=> Ends(b)
  <2> HIDE DEF merges, unshown, b, q
  <2> QED BY <1>6, <1>8, <1>11, <1>12 DEF Ends
<1>14. auto <=> Automatic(b)
  <2> HIDE DEF ends, b
  <2> QED BY <1>7, <1>13 DEF Automatic
<1>15. kept <=> Automatic(b) /\ Kept(b)
  <2>1. Automatic(b) => (Plain!decoratePage <=> Kept(Here))
    <3> HIDE DEF b
    <3>1. Automatic(b) => Value(Here, "automerge") = "1"
      BY <1>5 DEF Automatic, Items
    <3> QED BY <1>5, <3>1, PlainDecorates
  <2> HIDE DEF auto, b
  <2> QED BY <1>5, <1>14, <2>1
<1>16. wrong <=> Counts(b)
  <2>1. "to merge" # "wrong" /\ None # "wrong"
    BY NamesAssumption
  <2> HIDE DEF kept, fromLocal, b, q
  <2> QED BY <1>6, <1>9, <1>15, <2>1 DEF Counts, Wrong, ErrorOf
<1> DEFINE r == onload(b)
<1>17. session' = r.session /\ session_url' = r.session_url /\ local' = r.local /\ page' = r.page
  BY LoadIs
<1>18. /\ Unmoved(b, r)
       /\ r.session.version = Value(b, "version")
       /\ r.session.redirect_uri = (IF Automatic(b) /\ b.page.q.automerge # None
                                    THEN Value(b, "redirect_uri") ELSE b.session.redirect_uri)
       /\ r.session.automerge = (IF Ends(b) THEN b.session.automerge ELSE Value(b, "automerge"))
       /\ \A k \in {"goBackUrl", "identifierValue"} :
             r.session[k] = (IF Automatic(b) THEN Stored(Value(b, k)) ELSE b.session[k])
       /\ r.session.passwordFailCount =
             (IF Counts(b) THEN b.session.passwordFailCount + 1 ELSE b.session.passwordFailCount)
  BY <1>5, OnloadIs
<1>19. /\ r.session_url = (IF Automatic(b) /\ b.page.q.automerge # None THEN b.page.q
                           ELSE b.session_url)
       /\ r.local = (IF b.page.q.mergeaccountprocess = None THEN b.local
                     ELSE IF Merges(b) /\ ~Ends(b)
                          THEN MergeRecord(b.page.q, "1", VersionOf(b)) ELSE EmptyLocal)
       /\ r.page.to = (IF Counts(b) /\ b.session.passwordFailCount + 1 >= 2
                       THEN StatusError(b.page.q) ELSE b.page.to)
       /\ r.page.signIn = (IF (Merges(b) \/ Automatic(b)) /\ "signIn" \in Elements(b.page.q)
                           THEN "merge" ELSE b.page.signIn)
       /\ r.page.goBack =
             (IF "goBack" \notin Elements(b.page.q) \/ ~(Merges(b) \/ Automatic(b))
              THEN b.page.goBack
              ELSE IF Automatic(b) THEN Value(b, "goBackUrl")
              ELSE IF FromLocal(b) THEN b.local.redirectUrl ELSE b.page.q.goBackUrl)
       /\ r.page.forgotVersion =
             (IF Unshown(b.page.q) \/ AtLeast(VersionOf(b), 4)
                   \/ "fgtKeycloakFlow" \notin Elements(b.page.q)
              THEN b.page.forgotVersion ELSE Stored(VersionOf(b)))
  BY <1>5, OnloadIs
<1>20. \A e : e # "googleSignInBtn" =>
          (e \in r.page.hidden <=>
             \/ /\ e \in b.page.hidden /\ e \notin Uncovered(b.page.q, VersionOf(b))
                /\ ~Unshown(b.page.q) => e # Forgot(VersionOf(b))
                /\ Merges(b) \/ Automatic(b) => e # "goBack"
                /\ Merges(b) /\ ~FromLocal(b) => e # "mergeAccountMessage"
                /\ Automatic(b) => e # "migrateAccountMessage"
                /\ Automatic(b) /\ Kept(b) => e # "selfSingUp"
                /\ Counts(b) => e # "inCorrectPasswordError"
             \/ (Merges(b) \/ Automatic(b)) /\ e \in Four \cap Elements(b.page.q)
             \/ Automatic(b) /\ e \in Labels \cap Elements(b.page.q)
             \/ Automatic(b) /\ Kept(b) /\ e = "error-summary" /\ e \in Elements(b.page.q))
  BY <1>5, OnloadIs
<1>21. /\ page'.q = page.q /\ page'.alive = page.alive /\ page'.loaded = TRUE
       /\ page'.leaving = page.leaving
  <2>1. b.page.loaded = TRUE /\ b.page.q = page.q /\ b.page.alive = page.alive
        /\ b.page.leaving = page.leaving
    BY <1>5, LoadIs
  <2> HIDE DEF b, r
  <2> QED BY <1>17, <1>18, <2>1 DEF Unmoved
<1>22. session_url' = u
  <2> HIDE DEF auto, b, r, q
  <2> QED BY <1>5, <1>6, <1>14, <1>17, <1>19
<1>23. local' = l
  <2>1. Merges(b) /\ b.page.q.mergeaccountprocess # None => b.page.q.mergeaccountprocess = "1"
    BY DEF Merges, MergeOf
  <2>2. l = IF here = None THEN local
            ELSE IF merges /\ ~ends
                 THEN [mergeaccountprocess |-> here, version |-> Stored(version),
                       redirectUrl |-> Stored(q.goBackUrl)]
                 ELSE EmptyLocal
    BY SameForms
  <2> HIDE DEF merges, ends, b, r, q, version, l
  <2> QED BY <1>5, <1>6, <1>10, <1>12, <1>13, <1>17, <1>19, <2>1, <2>2 DEF MergeRecord
<1>24. page'.signIn = signIn
  <2> HIDE DEF merges, auto, b, r, q, p
  <2> QED BY <1>4, <1>5, <1>6, <1>8, <1>12, <1>14, <1>17, <1>19
<1>25. page'.goBack = goBack
  <2> HIDE DEF merges, auto, fromLocal, b, r, q, p
  <2> QED BY <1>4, <1>5, <1>6, <1>7, <1>8, <1>9, <1>12, <1>14, <1>17, <1>19
<1>26. page'.forgotVersion = forgot
  <2> HIDE DEF unshown, version, b, r, q, p
  <2> QED BY <1>4, <1>5, <1>6, <1>8, <1>10, <1>11, <1>17, <1>19, SameForms
<1>27. page'.to = to
  <2>1. PlainSession.passwordFailCount = session.passwordFailCount
        /\ session.passwordFailCount \in Nat
    BY PlainItemsAre DEF SessionItems, TabInv, SessionType
  <2>2. PlainSession.passwordFailCount >= 1 <=> session.passwordFailCount + 1 >= 2
    BY <2>1
  <2> HIDE DEF wrong, b, r, q, p
  <2> QED BY <1>4, <1>5, <1>6, <1>16, <1>17, <1>19, <2>2, SameForms DEF StatusError
<1>28. PlainHidden' = hidden
  <2>1. Plain!addVersionToURL(version) = IF AtLeast(version, 1) THEN {"selfSingUp"} ELSE {}
    BY SameForms DEF Plain!addVersionToURL
  <2>2. Plain!unHideElement(version, merges, fromLocal, auto, kept, wrong) =
          (IF AtLeast(version, 4) THEN {"fgtPortalFlow"} ELSE {"fgtKeycloakFlow"})
            \cup (IF merges \/ auto THEN {"goBack"} ELSE {})
            \cup (IF merges /\ ~fromLocal THEN {"mergeAccountMessage"} ELSE {})
            \cup (IF auto THEN {"migrateAccountMessage"} ELSE {})
            \cup (IF kept THEN {"selfSingUp"} ELSE {})
            \cup (IF wrong THEN {"inCorrectPasswordError"} ELSE {})
    BY SameForms DEF Plain!unHideElement
  <2>3. covered = (IF merges \/ auto THEN Four ELSE {}) \cup (IF auto THEN Labels ELSE {})
                    \cup (IF kept THEN {"error-summary"} ELSE {})
    BY DEF Plain!hideElement, Four, Labels
  <2>4. "stateButton" \notin page.hidden
    <3>1. page.hidden \subseteq InitiallyHidden \cup Labels
      BY <1>5 DEF ReadyInv
    <3> QED BY <3>1 DEF InitiallyHidden, Labels
  <2>5. merges => ~unshown
    OBVIOUS
  <2>6. (auto => ~unshown) /\ (kept => auto) /\ (wrong => kept)
    OBVIOUS
  <2>7. hidden = (PlainHidden \ uncovered) \cup (covered \cap Elements(q))
    BY <1>4, SameForms
  <2>8. "googleSignInBtn" \notin covered
    <3> HIDE DEF covered, merges, auto, kept
    <3> QED BY <2>3 DEF Four, Labels
  <2>9. page'.hidden = r.page.hidden /\ b.page.hidden = page.hidden
    BY <1>5, <1>17
  <2>10. uncovered = Plain!addVersionToURL(version)
                       \cup (IF q.message # None THEN {q.message} ELSE {})
                       \cup (IF unshown THEN {} ELSE
                             Plain!unHideElement(version, merges, fromLocal, auto, kept, wrong))
    OBVIOUS
  <2> HIDE DEF covered, uncovered, merges, auto, kept, wrong, fromLocal, version, unshown,
               b, r, q, p, hidden
  <2>11. \A e : e # "stateButton" =>
           (e \in uncovered <=>
              \/ e \in Uncovered(q, version)
              \/ ~unshown /\ e = Forgot(version)
              \/ (merges \/ auto) /\ e = "goBack"
              \/ merges /\ ~fromLocal /\ e = "mergeAccountMessage"
              \/ auto /\ e = "migrateAccountMessage"
              \/ kept /\ e = "selfSingUp"
              \/ wrong /\ e = "inCorrectPasswordError")
    <3> TAKE e
    <3> HAVE e # "stateButton"
    <3>1. e \in Uncovered(q, version) <=>
             \/ e \in Plain!addVersionToURL(version)
             \/ e \in (IF q.message # None THEN {q.message} ELSE {})
      BY <2>1 DEF Uncovered
    <3>2. e \in Plain!unHideElement(version, merges, fromLocal, auto, kept, wrong) <=>
             \/ e = Forgot(version)
             \/ (merges \/ auto) /\ e = "goBack"
             \/ merges /\ ~fromLocal /\ e = "mergeAccountMessage"
             \/ auto /\ e = "migrateAccountMessage"
             \/ kept /\ e = "selfSingUp"
             \/ wrong /\ e = "inCorrectPasswordError"
      BY <2>2 DEF Forgot
    <3>3. e \in uncovered <=>
             \/ e \in Plain!addVersionToURL(version)
             \/ e \in (IF q.message # None THEN {q.message} ELSE {})
             \/ /\ ~unshown
                /\ e \in Plain!unHideElement(version, merges, fromLocal, auto, kept, wrong)
      BY <2>10
    <3> QED BY <2>5, <2>6, <3>1, <3>2, <3>3
  <2>12. ASSUME NEW e, e # "googleSignInBtn" PROVE e \in page'.hidden <=> e \in hidden
    <3>1. e \in hidden <=> \/ e \in page.hidden /\ e \notin uncovered
                           \/ e \in covered /\ e \in Elements(q)
      BY <2>7, <2>12 DEF PlainHidden
    <3>2. e \in covered <=> \/ (merges \/ auto) /\ e \in Four
                            \/ auto /\ e \in Labels
                            \/ kept /\ e = "error-summary"
      BY <2>3
    <3>3. e \in page.hidden => e # "stateButton"
      BY <2>4
    <3>4. e \in page'.hidden <=>
             \/ /\ e \in page.hidden /\ e \notin Uncovered(q, version)
                /\ ~unshown => e # Forgot(version)
                /\ merges \/ auto => e # "goBack"
                /\ merges /\ ~fromLocal => e # "mergeAccountMessage"
                /\ auto => e # "migrateAccountMessage"
                /\ kept => e # "selfSingUp"
                /\ wrong => e # "inCorrectPasswordError"
             \/ (merges \/ auto) /\ e \in Four \cap Elements(q)
             \/ auto /\ e \in Labels \cap Elements(q)
             \/ kept /\ e = "error-summary" /\ e \in Elements(q)
      BY <1>6, <1>9, <1>10, <1>11, <1>12, <1>14, <1>15, <1>16, <1>20, <2>9, <2>12
    <3>5. e \in page.hidden =>
             (e \notin uncovered <=>
                /\ e \notin Uncovered(q, version)
                /\ ~unshown => e # Forgot(version)
                /\ merges \/ auto => e # "goBack"
                /\ merges /\ ~fromLocal => e # "mergeAccountMessage"
                /\ auto => e # "migrateAccountMessage"
                /\ kept => e # "selfSingUp"
                /\ wrong => e # "inCorrectPasswordError")
      BY <2>11, <3>3
    <3> QED BY <3>1, <3>2, <3>4, <3>5
  <2>13. PlainHidden' = page'.hidden \ {"googleSignInBtn"}
    BY DEF PlainHidden
  <2> QED BY <2>7, <2>8, <2>12, <2>13 DEF PlainHidden
<1>29. PlainSession' = s
  <2> DEFINE ks == {"version"} \cup IF ends THEN {} ELSE {"automerge"}
  <2>2. /\ found = IF auto THEN Plain!storeValueForMigration ELSE Plain!LookedUp(ks)
        /\ "version" \in ks /\ ("automerge" \in ks <=> ~ends)
        /\ \A k \in {"redirect_uri", "goBackUrl", "identifierValue", "url",
                      "passwordFailCount"} : k \notin ks
    OBVIOUS
  <2>3. s = IF wrong THEN [found EXCEPT !.passwordFailCount = @ + 1] ELSE found
    BY DEF Plain!handlePasswordFailure
  <2>4. /\ Value(b, "automerge") = "1" => Stored(Value(b, "automerge")) = Value(b, "automerge")
        /\ auto => Value(b, "automerge") = "1"
    <3>1. "1" # None
      BY NamesAssumption
    <3> QED BY <1>7, <3>1 DEF Stored
  <2>5. auto => r.session.redirect_uri = session.redirect_uri
    <3>1. page.q.redirect_uri # None => session.redirect_uri = page.q.redirect_uri
      BY <1>5 DEF ReadyInv
    <3>2. Value(b, "redirect_uri") = session.redirect_uri
      BY <1>5, <1>6, <3>1 DEF Value
    <3> QED BY <1>5, <1>18, <3>2
  <2> HIDE DEF ks, b, r, q, p, auto, ends, wrong, found, s
  <2>6. /\ DOMAIN found = PlainItems /\ found = [k \in PlainItems |-> found[k]]
        /\ found["version"] = r.session.version /\ found["automerge"] = r.session.automerge
        /\ \A k \in {"redirect_uri", "goBackUrl", "identifierValue", "url"} :
              found[k] = r.session[k]
        /\ found["passwordFailCount"] = session.passwordFailCount
    <3>0. /\ \A k \in {"version", "automerge", "goBackUrl", "identifierValue"} :
                Value(b, k) = Value(Here, k)
          /\ r.session.url = session.url
      <4>1. {"version", "automerge", "goBackUrl", "identifierValue"} \subseteq Items
        BY DEF Items
      <4> QED BY <1>5, <1>18, <4>1 DEF Unmoved
    <3>1. CASE auto
      <4>1. found = Plain!storeValueForMigration
        BY <2>2, <3>1
      <4>2. /\ DOMAIN found = PlainItems /\ found = [k \in PlainItems |-> found[k]]
            /\ found["version"] = Value(Here, "version")
            /\ \A k \in {"automerge", "goBackUrl", "identifierValue"} :
                  found[k] = Stored(Value(Here, k))
            /\ \A k \in {"redirect_uri", "url", "passwordFailCount"} : found[k] = session[k]
        BY <1>5, <4>1, MigrationIs
      <4>3. /\ Automatic(b) /\ ~Ends(b)
        BY <1>14, <3>1 DEF Automatic
      <4>4. found["automerge"] = r.session.automerge
        BY <1>18, <2>4, <3>0, <3>1, <4>2, <4>3
      <4> QED BY <1>18, <2>5, <3>0, <3>1, <4>2, <4>3, <4>4
    <3>2. CASE ~auto
      <4>1. found = Plain!LookedUp(ks)
        BY <2>2, <3>2
      <4>2. /\ DOMAIN found = PlainItems /\ found = [k \in PlainItems |-> found[k]]
            /\ \A k \in PlainItems :
                 found[k] = IF k \in ks THEN Plain!getValueFromSession(k) ELSE session[k]
        BY <4>1, PlainItemsAre DEF Plain!LookedUp
      <4>3. /\ \A k \in {"version", "automerge"} :
                  k \in PlainItems /\ Plain!getValueFromSession(k) = Value(Here, k)
            /\ \A k \in {"redirect_uri", "goBackUrl", "identifierValue", "url",
                          "passwordFailCount"} : k \in PlainItems
        <5>1. "version" \in Items /\ "automerge" \in Items
          BY DEF Items
        <5> QED BY <1>5, <5>1, PlainValue, PlainItemsAre DEF SessionItems
      <4>4. ~Automatic(b)
        BY <1>14, <3>2
      <4>5. \A k \in {"redirect_uri", "goBackUrl", "identifierValue"} :
               r.session[k] = session[k]
        BY <1>5, <1>18, <4>4
      <4>6. found["automerge"] = r.session.automerge
        BY <1>5, <1>13, <1>18, <2>2, <3>0, <4>2, <4>3
      <4> QED BY <1>18, <2>2, <3>0, <4>2, <4>3, <4>5, <4>6
    <3> QED BY <3>1, <3>2
  <2>7. "passwordFailCount" \in PlainItems
    BY PlainItemsAre DEF SessionItems
  <2>8. s = [k \in PlainItems |-> s[k]]
    BY <2>3, <2>6
  <2>9. /\ s["version"] = r.session.version /\ s["automerge"] = r.session.automerge
        /\ \A k \in {"redirect_uri", "goBackUrl", "identifierValue", "url"} :
              s[k] = r.session[k]
    BY <2>3, <2>6
  <2>10. s["passwordFailCount"] = r.session.passwordFailCount
    BY <1>5, <1>16, <1>18, <2>3, <2>6, <2>7
  <2>11. /\ PlainSession' = [k \in PlainItems |-> PlainSession'[k]]
         /\ \A k \in PlainItems : PlainSession'[k] = r.session[k]
    BY <1>17 DEF PlainSession, PlainItems
  <2>12. /\ \A k \in {"version", "redirect_uri", "automerge", "goBackUrl"} :
                PlainSession'[k] = s[k]
         /\ \A k \in {"identifierValue", "url", "passwordFailCount"} : PlainSession'[k] = s[k]
    <3>1. {"version", "redirect_uri", "automerge", "goBackUrl", "identifierValue", "url",
           "passwordFailCount"} \subseteq PlainItems
      BY PlainItemsAre DEF SessionItems
    <3> QED BY <2>9, <2>10, <2>11, <3>1
  <2> QED BY <2>8, <2>11, <2>12, SessionSame
<1> HIDE DEF b, r, q, p, here, merge, fromLocal, looked, version, unshown, merges, ends, auto,
             kept, wrong, uncovered, covered, found, s, u, l, hidden, signIn, goBack, forgot, to
<1>30. PlainPage' = PlainPageOf(page.q, page.alive, TRUE, hidden, signIn, goBack, forgot, to)
  <2>1. PlainPage' = PlainPageOf(page'.q, page'.alive, page'.loaded, PlainHidden', page'.signIn,
                                 page'.goBack, page'.forgotVersion, page'.to)
    BY <1>5 DEF PlainPage, PlainHidden, PlainPageOf
  <2> QED BY <1>21, <1>24, <1>25, <1>26, <1>27, <1>28, <2>1
<1>31. Plain!onload
  BY <1>1, <1>2, <1>3, <1>4, <1>5, <1>22, <1>23, <1>29, <1>30
<1> QED BY <1>21, <1>31 DEF Plain!Next

-----------------------------------------------------------------------------
(* Every step is one of login.js, or one of the two it did not have. *)
PlainInv == TabInv /\ WaitInv /\ ReadyInv

LEMMA OnloadReady == ASSUME PageApart, PlainApart, PlainInv, Onload PROVE WaitInv' /\ ReadyInv'
<1> DEFINE b == Loading
           r == onload(b)
<1>1. /\ page # None /\ page.alive = TRUE /\ page.loaded = FALSE /\ Fresh(b)
      /\ b.session = session /\ b.page["q"] = page["q"] /\ b.page.loaded = TRUE
      /\ session' = r.session /\ page' = r.page /\ page' # None
  BY LoadIs DEF PlainInv, PageFields
<1>2. /\ Unmoved(b, r)
      /\ r.session.redirect_uri = (IF Automatic(b) /\ b.page.q.automerge # None
                                   THEN Value(b, "redirect_uri") ELSE b.session.redirect_uri)
  BY <1>1, OnloadIs
<1>3. page'.leaving = page.leaving
  BY OnloadPlain DEF PlainInv
<1> HIDE DEF b, r
<1>4. page'.q = page.q /\ page'.loaded = TRUE
  BY <1>1, <1>2 DEF Unmoved
<1>5. page.q.redirect_uri # None => session'.redirect_uri = page.q.redirect_uri
  <2>1. page.q.redirect_uri # None => session.redirect_uri = page.q.redirect_uri
    BY <1>1 DEF PlainInv, ReadyInv
  <2>2. page.q.redirect_uri # None => Value(b, "redirect_uri") = page.q.redirect_uri
    BY <1>1 DEF Value
  <2> QED BY <1>1, <1>2, <2>1, <2>2
<1>6. ReadyInv'
  BY <1>1, <1>4, <1>5 DEF ReadyInv
<1>7. ~(page.leaving > 0)
  <2>1. "fgtKeycloakFlow" \in InitiallyHidden \ Labels
    BY DEF InitiallyHidden, Labels
  <2>2. AsRendered
    BY <1>1 DEF PlainInv, TabInv, PageInv
  <2>3. "fgtKeycloakFlow" \in Elements(page.q) => "fgtKeycloakFlow" \in page.hidden
    BY <1>1, <2>1, <2>2 DEF AsRendered
  <2> QED BY <1>1, <2>3 DEF PlainInv, WaitInv, Shown, ShownOn
<1> QED BY <1>3, <1>6, <1>7 DEF WaitInv

LEMMA OpenReady ==
  ASSUME PageApart, PlainApart, TabInv, NEW q \in Requests, Open(q)
  PROVE  WaitInv' /\ ReadyInv'
<1>1. /\ page' = NewPage(q)
      /\ session'.redirect_uri = (IF Evaluates(q) /\ q.redirect_uri # None
                                  THEN q.redirect_uri ELSE session.redirect_uri)
      /\ page'.leaving = 0
  BY OpenIs, OpenPlain
<1>2. page'.q = q /\ page'.alive = Evaluates(q) /\ page'.hidden \subseteq InitiallyHidden
  BY <1>1 DEF NewPage
<1>3. WaitInv'
  BY <1>1 DEF WaitInv
<1>4. ReadyInv'
  BY <1>1, <1>2 DEF ReadyInv
<1> QED BY <1>3, <1>4

(* A handler: it is a step of login.js, and the link to a new password waits
   where it waited or was just clicked. *)
LEMMA HandledPlain ==
  ASSUME PageApart, PlainApart, PlainInv,
         (\E found \in BOOLEAN : OrgAnswered(found)) \/ Clicks \/ Submit \/ LeaveForgot
  PROVE  /\ PlainStep /\ Handled
         /\ \/ page'.leaving > 0 => page.leaving > 0
            \/ page # None /\ session'.url = page.q /\ Shown("fgtKeycloakFlow")
<1>0. TabInv /\ WaitInv
  BY DEF PlainInv
<1>1. CASE \E found \in BOOLEAN : OrgAnswered(found)
  <2>1. PICK found \in BOOLEAN : OrgAnswered(found)
    BY <1>1
  <2>2. Handled
    BY <1>0, <2>1, OrgHandled
  <2>3. page' # None
    BY <2>2 DEF Handled, Stays
  <2> QED BY <1>0, <2>1, <2>2, <2>3, OrgPlain
<1>2. CASE doLogin
  BY <1>0, <1>2, LoginHandled, LoginClickPlain
<1>3. CASE Navigate("kc-registration", "self")
  <2>1. Handled
    BY <1>0, <1>3, NavigateHandled
  <2>2. PlainStep /\ page'.leaving = page.leaving
    BY <1>0, <1>3, NavigatePlain
  <2> QED BY <2>1, <2>2
<1>4. CASE Navigate("googleSignInBtn", "google")
  <2>1. Handled
    BY <1>0, <1>4, NavigateHandled
  <2>2. PlainStep /\ page'.leaving = page.leaving
    BY <1>0, <1>4, NavigatePlain
  <2> QED BY <2>1, <2>2
<1>5. CASE Navigate("stateButton", "state")
  <2>1. Handled
    BY <1>0, <1>5, NavigateHandled
  <2>2. PlainStep /\ page'.leaving = page.leaving
    BY <1>0, <1>5, NavigatePlain
  <2> QED BY <2>1, <2>2
<1>6. CASE ForgotPortal
  BY <1>0, <1>6, ForgotPortalHandled, ForgotPortalPlain
<1>7. CASE ForgotKeycloak
  BY <1>0, <1>7, ForgotKeycloakHandled, ForgotKeycloakPlain
<1>8. CASE GoBack
  BY <1>0, <1>8, GoBackHandled, GoBackPlain
<1>9. CASE makeDivUnclickable
  BY <1>0, <1>9, UnclickableHandled, UnclickablePlain
<1>10. CASE \E in \in BOOLEAN : inputBoxFocus(in)
  BY <1>0, <1>10, FocusHandled, FocusPlain
<1>11. CASE Submit
  BY <1>0, <1>11, SubmitHandled, SubmitPlain
<1>12. CASE LeaveForgot
  BY <1>0, <1>12, LeaveForgotHandled, LeaveForgotPlain
<1>13. CASE Clicks
  BY <1>2, <1>3, <1>4, <1>5, <1>6, <1>7, <1>8, <1>9, <1>10, <1>13 DEF Clicks
<1> QED BY <1>1, <1>11, <1>12, <1>13

LEMMA HandledWaits ==
  ASSUME TabInv, WaitInv, Handled,
         \/ page'.leaving > 0 => page.leaving > 0
         \/ page # None /\ session'.url = page.q /\ Shown("fgtKeycloakFlow")
  PROVE  WaitInv'
<1>1. CASE page'.leaving > 0 => page.leaving > 0
  BY <1>1, WaitKept
<1>2. CASE page # None /\ session'.url = page.q /\ Shown("fgtKeycloakFlow")
  <2>1. /\ page' # None /\ page'.q = page.q
        /\ \A e : e \notin Labels => (e \in page'.hidden <=> e \in page.hidden)
    BY DEF Handled, Stays
  <2>2. "fgtKeycloakFlow" \notin Labels
    BY DEF Labels
  <2>3. "fgtKeycloakFlow" \in Elements(page'.q) /\ "fgtKeycloakFlow" \notin page'.hidden
    BY <1>2, <2>1, <2>2 DEF Shown, ShownOn
  <2>4. Shown("fgtKeycloakFlow")'
    BY <2>1, <2>3 DEF Shown, ShownOn
  <2> QED BY <1>2, <2>1, <2>4 DEF WaitInv
<1> QED BY <1>1, <1>2

LEMMA PlainNext ==
  ASSUME PageApart, PlainApart, PlainInv, [Next]_vars
  PROVE  PlainInv' /\ PlainStep
<1>0. TabInv /\ WaitInv /\ ReadyInv /\ TabInv'
  BY TabStep DEF PlainInv
<1>1. CASE \E q \in Requests : Open(q)
  BY <1>0, <1>1, OpenReady, OpenPlain DEF PlainInv, PlainStep
<1>2. CASE NewTab
  <2>1. WaitInv' /\ ReadyInv'
    BY <1>2 DEF NewTab, WaitInv, ReadyInv
  <2> QED BY <1>0, <1>2, <2>1, NewTabPlain DEF PlainInv, PlainStep
<1>3. CASE Onload
  BY <1>0, <1>3, OnloadReady, OnloadPlain DEF PlainInv, PlainStep
<1>4. CASE (\E found \in BOOLEAN : OrgAnswered(found)) \/ Clicks \/ Submit \/ LeaveForgot
  <2>1. /\ PlainStep /\ Handled
        /\ \/ page'.leaving > 0 => page.leaving > 0
           \/ page # None /\ session'.url = page.q /\ Shown("fgtKeycloakFlow")
    BY <1>4, HandledPlain
  <2>2. WaitInv' /\ ReadyInv'
    BY <1>0, <2>1, HandledWaits, ReadyKept
  <2> QED BY <1>0, <2>1, <2>2 DEF PlainInv
<1>5. CASE UpdatePassword \/ UNCHANGED vars
  <2>1. UNCHANGED <<session, session_url, local, page>>
    BY <1>5 DEF UpdatePassword, vars
  <2>2. WaitInv' /\ ReadyInv'
    BY <1>0, <2>1 DEF WaitInv, ReadyInv, Shown, ShownOn
  <2>3. UNCHANGED Plain!plain
    BY <2>1 DEF Plain!plain, PlainSession, PlainPage
  <2> QED BY <1>0, <2>2, <2>3 DEF PlainInv, PlainStep
<1> QED BY <1>1, <1>2, <1>3, <1>4, <1>5 DEF Next

\* ImplementsPlain: what the pages do with the storages, which elements they
\* show and where they lead is what login.js did: every page, onload, retry,
\* click and timer of the script with telemetry is a step of it or none, but for
\* the clicks that are lost while the organisation is not known and the way to
\* register that the dock portals lack.
THEOREM RefinesPlain == ASSUME PageApart, PlainApart PROVE Spec => ImplementsPlain
<1>1. Init => PlainInv /\ Plain!Init
  <2> SUFFICES ASSUME Init PROVE PlainInv /\ Plain!Init
    OBVIOUS
  <2>1. page = None
    BY DEF Init
  <2> QED BY <2>1, InitTab, InitPlain DEF PlainInv, WaitInv, ReadyInv
<1>2. PlainInv /\ [Next]_vars => PlainInv' /\ [Plain!Next \/ LostClick \/ DockClick]_(Plain!plain)
  BY PlainNext DEF PlainStep
<1> QED BY <1>1, <1>2, PTL DEF Spec, ImplementsPlain
=============================================================================
