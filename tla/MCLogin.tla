------------------------------ MODULE MCLogin ------------------------------
(***************************************************************************)
(* Pages of LoginPage for TLC: applications of each kind and version, the  *)
(* two ways to merge accounts, the retry after a wrong password, and pages *)
(* whose script does not run to its end.                                   *)
(***************************************************************************)
EXTENDS LoginPage

Url(client, version, to) ==
    [client_id |-> client, pdata |-> None, version |-> version, redirect_uri |-> to,
     mergeaccountprocess |-> None, automerge |-> None, goBackUrl |-> None,
     identifierValue |-> None, message |-> None, error |-> None,
     form |-> "login", host |-> "login", ios |-> FALSE]

Web       == [Url("web", 3, "portal") EXCEPT !.message = "error-msg"]
Dock      == Url("portal", 10, "dock")
Dock4     == Url("portal", 4, "dock")
App       == [Url("android", 3, "app") EXCEPT !.host = "merge.login", !.ios = TRUE]
NoClient  == Url(None, 4, "portal")
Retry     == [Url("web", None, None) EXCEPT !.error = "wrong"]
Reset     == [Url("web", None, None) EXCEPT !.form = "reset"]
Update    == [Url("web", None, None) EXCEPT !.form = "update"]
Merge     == [Url("web", 4, "portal") EXCEPT !.mergeaccountprocess = "1", !.goBackUrl = "profile"]
NoMerge   == [Url("web", None, None) EXCEPT !.mergeaccountprocess = "0"]
AutoMergeUrl == [Url("web", 2, "app") EXCEPT !.automerge = "1", !.goBackUrl = "profile",
                                            !.identifierValue = "me"]

Pages == {Web, Dock, Dock4, App, NoClient, Retry, Reset, Update, Merge, NoMerge,
          AutoMergeUrl}

ASSUME PagesAssumption == MergesOnLogin /\ RetriesBare
=============================================================================
