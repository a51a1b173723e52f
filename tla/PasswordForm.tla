---------------------------- MODULE PasswordForm ----------------------------
(***************************************************************************)
(* The form of the update-password page and the two handlers of its keys.  *)
(* Both read the fields in a setTimeout, after the key has changed them;   *)
(* a change made without a key (a paste with the mouse, an autofill) calls *)
(* no handler.  The button of the form is enabled when the page is served. *)
(***************************************************************************)
EXTENDS Naturals, Sequences

CONSTANTS
    Passwords,     \* what a field can hold, "" among them
    Strong,        \* those that specRegex accepts
    MaxEdits       \* bound: changes of the fields of one page

ASSUME PasswordsAssumption == "" \in Passwords \ Strong /\ Strong \subseteq Passwords

VARIABLE form      \* the fields, the button, and the handlers that wait

NewForm ==
    [new |-> "", confirm |-> "", disabled |-> FALSE,
     weakShown |-> FALSE,      \* 'passwd-error-msg' has the class passwderr
     mismatchShown |-> FALSE,  \* 'passwd-match-error-msg' is shown
     type |-> "password",      \* of the field "password-new"
     handlers |-> <<>>, edits |-> 0, bypassed |-> FALSE]

(* The mutant enables the button for every pair of equal passwords. *)
matchAnyPassword(f) ==
    IF f.new = f.confirm
    THEN [f EXCEPT !.mismatchShown = FALSE, !.disabled = FALSE]
    ELSE [f EXCEPT !.mismatchShown = TRUE, !.disabled = TRUE]

matchPassword(f) ==
    IF f.new # f.confirm THEN [f EXCEPT !.mismatchShown = TRUE, !.disabled = TRUE]
    ELSE IF f.confirm \in Strong
         THEN [f EXCEPT !.mismatchShown = FALSE, !.disabled = FALSE]
         ELSE f

\* A weak password is marked, but leaves the button as it is when both agree.
validatePassword(f) ==
    IF f.new # f.confirm
    THEN [f EXCEPT !.weakShown = f.new \notin Strong, !.disabled = TRUE]
    ELSE IF f.new \in Strong
         THEN [f EXCEPT !.weakShown = FALSE, !.mismatchShown = FALSE, !.disabled = FALSE]
         ELSE [f EXCEPT !.weakShown = TRUE]

Fields == {"new", "confirm"}

HandlerOf(field) == IF field = "new" THEN "validatePassword" ELSE "matchPassword"

\* A key in a field: the handler is scheduled, then the field changes.  (The
\* user does not reach the other field before a timer of 0 ms has fired.)
Key(field, p) ==
    /\ form.edits < MaxEdits
    /\ \A i \in DOMAIN form.handlers : form.handlers[i] = HandlerOf(field)
    /\ form' = [form EXCEPT ![field] = p, !.edits = @ + 1,
                            !.handlers = Append(@, HandlerOf(field))]

\* A change without a key.
Paste(field, p) ==
    /\ form.edits < MaxEdits
    /\ form' = [form EXCEPT ![field] = p, !.edits = @ + 1, !.bypassed = TRUE]

\* The oldest timer fires.
Handle ==
    /\ form.handlers # <<>>
    /\ LET f == [form EXCEPT !.handlers = Tail(@)]
       IN  form' = IF Head(form.handlers) = "validatePassword"
                   THEN validatePassword(f) ELSE matchPassword(f)

\* The eye beside the first field shows what it holds, and hides it again.
viewPassword ==
    form' = [form EXCEPT !.type = IF @ = "password" THEN "text" ELSE "password"]

EditForm ==
    \/ \E f \in Fields, p \in Passwords : Key(f, p) \/ Paste(f, p)
    \/ Handle
    \/ viewPassword

\* PasswordGate: as long as keys alone edit the fields, the button is enabled
\* only for two equal passwords that specRegex accepts, in whatever order the
\* fields were filled, emptied and filled again; neither handler sees to that
\* alone.  (Two empty fields may have the button as it was served.)
PasswordGate ==
    form.handlers = <<>> /\ ~form.bypassed /\ ~form.disabled
        => form.new = form.confirm /\ form.new \in Strong \cup {""}

=============================================================================
