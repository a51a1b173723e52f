------------------------------ MODULE KongApis ------------------------------
(***************************************************************************)
(* kong_apis.py: brings the APIs in Kong, and the plugins of each, to what *)
(* the input file lists.  A failed run is started again by the operator,   *)
(* and a release or a rollback starts a run with another input.            *)
(***************************************************************************)
EXTENDS KongAdmin

CONSTANTS Input,        \* version -> API -> names of its plugins
          MaxPageSize   \* 2000 in the code

ASSUME InputAssumption ==
  \A v \in Versions : /\ DOMAIN Input[v] \subseteq Apis
                       /\ \A a \in DOMAIN Input[v] : Input[v][a] \subseteq Plugins

VARIABLES version,      \* release whose input the run has
          unvisited     \* APIs whose plugins are still to be saved

vars == <<client, version, unvisited>>

InputApis(v) == DOMAIN Input[v]

Init == /\ kong = [k \in Keys |-> Absent]
        /\ faults = 0
        /\ stage = "idle"
        /\ pending = {}
        /\ tries = 1
        /\ version \in Versions
        /\ unvisited = {}

Start(v) ==
  /\ ~Running
  /\ stage = "failed" => v = version
  /\ stage' = "apis"
  /\ version' = v
  /\ UNCHANGED <<kong, faults, pending, tries, unvisited>>

CreateAll(wanted, saved, v) ==    \* mutant: creates what is there too
  {Post(k, v) : k \in wanted} \union {Delete(k) : k \in saved \ wanted}

DropSaved(wanted, saved, v) ==    \* mutant: deletes what is wanted too
  {Post(k, v) : k \in wanted \ saved} \union {Delete(k) : k \in saved}

(* What to send so that exactly the wanted entities are there. *)
Reconcile(wanted, saved, v) ==
  {Post(k, v) : k \in wanted \ saved}
    \union {Patch(k, v) : k \in wanted \intersect saved}
    \union {Delete(k) : k \in saved \ wanted}

StoredApis == {Api(a) : a \in {b \in Apis : Present(Api(b))}}

FirstPage ==   \* mutant: no check of the total
  CHOOSE page \in SUBSET StoredApis :
    Cardinality(page) = IF Cardinality(StoredApis) < MaxPageSize
                        THEN Cardinality(StoredApis) ELSE MaxPageSize

SavedApis == StoredApis

(* get_apis and the comparisons; more APIs than one page holds end the run. *)
ListApis ==
  /\ stage = "apis"
  /\ \/ /\ Cardinality(SavedApis) > MaxPageSize
        /\ stage' = "failed"
        /\ UNCHANGED <<pending, unvisited>>
     \/ /\ Cardinality(SavedApis) <= MaxPageSize
        /\ stage' = "plugins"
        /\ pending' = Reconcile({Api(a) : a \in InputApis(version)}, SavedApis, version)
        /\ unvisited' = InputApis(version)
  /\ UNCHANGED <<kong, faults, tries, version>>

AllPlugins(a) ==   \* mutant: overrides count as the API's own
  {k \in Keys : k[1] = "plugin" /\ k[2] = a /\ Present(k)}

(* The plugins saved for an API, without the overrides of consumers. *)
OwnPlugins(a) ==
  {k \in Keys : k[1] = "plugin" /\ k[2] = a /\ k[4] = Nobody /\ Present(k)}

(* _save_plugins_for_api.  The PATCH names the plugin twice: its URL by    *)
(* the variable the comprehension above it left behind, its body by the    *)
(* right id; Kong merges the body over the URL's parameters.               *)
ListPlugins(a) ==
  /\ stage = "plugins"
  /\ a \in unvisited
  /\ Read(Api(a),
          Reconcile({Plugin(a, p, Nobody) : p \in Input[version][a]},
                    OwnPlugins(a), version),
          "plugins")
  /\ unvisited' = unvisited \ {a}
  /\ UNCHANGED version

Finish ==
  /\ stage = "plugins"
  /\ pending = {} /\ unvisited = {}
  /\ stage' = "done"
  /\ UNCHANGED <<kong, faults, pending, tries, version, unvisited>>

Send(req) == (Answered(req) \/ Rejected(req)) /\ UNCHANGED <<version, unvisited>>
SendFails(req) == (Refused(req) \/ Lost(req)) /\ UNCHANGED <<version, unvisited>>
Aborted == Abort /\ UNCHANGED <<version, unvisited>>

Next ==
  \/ \E v \in Versions : Start(v)
  \/ ListApis
  \/ \E a \in Apis : ListPlugins(a)
  \/ Finish
  \/ \E req \in pending : Send(req)
  \/ \E req \in pending : SendFails(req)
  \/ Aborted

Spec == Init /\ [][Next]_vars

(* Requests are answered in the end, and the operator runs a failed job    *)
(* again; faults are bounded by MaxFaults.                                 *)
Fairness ==
  /\ WF_vars(\E v \in Versions : stage = "failed" /\ Start(v))
  /\ WF_vars(ListApis)
  /\ WF_vars(\E a \in Apis : ListPlugins(a))
  /\ WF_vars(Finish)
  /\ WF_vars(\E req \in pending : Send(req))

FairSpec == Spec /\ Fairness

-----------------------------------------------------------------------------
Stages == {"idle", "apis", "plugins", "done", "failed"}

TypeOK ==
  /\ kong \in [Keys -> Versions \union {Absent}]
  /\ faults \in 0 .. MaxFaults
  /\ stage \in Stages
  /\ pending \subseteq [method : {"POST", "PATCH", "DELETE"}, key : Keys,
                       value : Versions \union {Absent}]
  /\ tries \in 1 .. Tries
  /\ version \in Versions
  /\ unvisited \subseteq Apis

Wanted(v) == {Api(a) : a \in InputApis(v)}
               \union {k \in Keys : /\ k[1] = "plugin" /\ k[4] = Nobody
                                    /\ k[2] \in InputApis(v)
                                    /\ k[3] \in Input[v][k[2]]}

Managed == {k \in Keys : k[1] = "api" \/ (k[1] = "plugin" /\ k[4] = Nobody)}

(* A run that ends well leaves exactly what its input lists, written by    *)
(* its own release, whatever earlier runs left behind half done: crashes   *)
(* between two requests, lost answers, rollbacks (kong_apis.py:22-37).     *)
DoneMeansConverged ==
  stage = "done" =>
    \A k \in Managed : kong[k] = IF k \in Wanted(version) THEN version ELSE Absent

(* A run never takes down, even for a moment, an API or a plugin that its  *)
(* input keeps: traffic goes through Kong meanwhile (kong_apis.py:26-34).  *)
NoOutage ==
  [][\A k \in Wanted(version') : Present(k) => Present(k)']_vars

(* Once the faults are over a run, started again when it failed, ends well *)
(* (common.py:39, kong_apis.py:86): what a lost answer or a crash leaves   *)
(* does not stand in the way of the next run, but for one thing: deletions *)
(* come last, and what they leave may be more than a page holds            *)
(* (common.py:17).                                                         *)
RunsComplete ==
  Running ~> stage = "done" \/ Cardinality(StoredApis) > MaxPageSize
=============================================================================
