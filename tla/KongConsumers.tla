---------------------------- MODULE KongConsumers ----------------------------
(***************************************************************************)
(* kong_consumers.py: deletes the consumers its input marks absent, then   *)
(* brings each of the others to its groups, to a JWT credential and to its *)
(* rate limits, which are plugins of an API that carry the consumer's id.  *)
(***************************************************************************)
EXTENDS KongAdmin

CONSTANTS RateLimiting,  \* the plugin "rate-limiting"
          InputGroups,   \* version -> consumer -> groups, for those whose
                         \* state is present; all others are marked absent
          Limits,        \* version -> consumer -> API -> state of its limit
          Deployed       \* what kong_apis.py has put into Kong before

ASSUME RateLimitingAssumption == RateLimiting \in Plugins
ASSUME InputGroupsAssumption ==
  \A v \in Versions :
    /\ DOMAIN InputGroups[v] \subseteq Consumers
    /\ \A c \in DOMAIN InputGroups[v] : InputGroups[v][c] \subseteq Groups
ASSUME LimitsAssumption ==
  \A v \in Versions : \A c \in DOMAIN InputGroups[v] :
    /\ DOMAIN Limits[v][c] \subseteq Apis
    /\ \A a \in DOMAIN Limits[v][c] : Limits[v][c][a] \in {"present", "absent"}
ASSUME DeployedAssumption == \A k \in Deployed : k[1] \in {"api", "plugin"}
ASSUME CredentialsAssumption == MaxFaults < MaxCredentials

VARIABLES version,    \* release whose input the run has
          todo,       \* consumers not dealt with yet
          current,    \* the consumer at hand
          limits,     \* APIs for which it still has a rate limit to save
          tokens      \* credentials a token has been printed for

script == <<version, todo, current, limits, tokens>>
vars == <<client, script>>

InputConsumers(v) == DOMAIN InputGroups[v]

Init == /\ version \in Versions
        /\ kong = [k \in Keys |-> IF k \in Deployed THEN version ELSE Absent]
        /\ faults = 0
        /\ stage = "idle"
        /\ pending = {}
        /\ tries = 1
        /\ todo = {}
        /\ current = Nobody
        /\ limits = {}
        /\ tokens = {}

Start(v) ==
  /\ ~Running
  /\ stage = "failed" => v = version
  /\ stage' = "absent"
  /\ version' = v
  /\ todo' = Consumers \ InputConsumers(v)
  /\ UNCHANGED <<kong, faults, pending, tries, current, limits, tokens>>

(* The next consumer whose state is absent is deleted when it exists. *)
RemoveConsumer(c) ==
  /\ stage = "absent" /\ pending = {}
  /\ c \in todo
  /\ pending' = IF Present(Consumer(c)) THEN {Delete(Consumer(c))} ELSE {}
  /\ todo' = todo \ {c}
  /\ UNCHANGED <<kong, faults, stage, tries, version, current, limits, tokens>>

AllRemoved ==
  /\ stage = "absent" /\ pending = {} /\ todo = {}
  /\ stage' = IF InputConsumers(version) = {} THEN "done" ELSE "next"
  /\ todo' = InputConsumers(version)
  /\ UNCHANGED <<kong, faults, pending, tries, version, current, limits, tokens>>

(* _ensure_consumer_exists, for the next consumer whose state is present. *)
EnsureConsumer(c) ==
  /\ stage = "next" /\ pending = {}
  /\ c \in todo
  /\ pending' = IF Present(Consumer(c)) THEN {} ELSE {Post(Consumer(c), version)}
  /\ stage' = "groups"
  /\ todo' = todo \ {c}
  /\ current' = c
  /\ limits' = DOMAIN Limits[version][c]
  /\ UNCHANGED <<kong, faults, tries, version, tokens>>

SavedGroups(c) == {k \in Keys : k[1] = "group" /\ k[2] = c /\ Present(k)}

AddGroups(wanted, saved) ==   \* mutant: no group is taken away
  {Post(k, version) : k \in wanted \ saved}

GroupRequests(wanted, saved) ==
  {Post(k, version) : k \in wanted \ saved} \union {Delete(k) : k \in saved \ wanted}

(* _save_groups_for_consumer *)
SaveGroups ==
  /\ stage = "groups"
  /\ Read(Consumer(current),
          GroupRequests({Group(current, g) : g \in InputGroups[version][current]},
                        SavedGroups(current)),
          "credential")
  /\ UNCHANGED script

SavedCredentials(c) == {k \in Keys : k[1] = "jwt" /\ k[2] = c /\ Present(k)}

ReplaceCredential(c) ==   \* mutant: the credential found is deleted
  {IF SavedCredentials(c) = {} THEN {Post(Credential(c, 0), version)}
   ELSE {Delete(k) : k \in SavedCredentials(c)}}

AnotherCredential(c) ==   \* mutant: one is created in any case
  {{Post(Credential(c, 0), version)}}

(* The first credential listed is updated; without any, one is created.    *)
(* Kong lists them in no order the script asks for: any may be the first.  *)
CredentialRequests(c) ==
  IF SavedCredentials(c) = {} THEN {{Post(Credential(c, 0), version)}}
  ELSE {{Patch(first, version)} : first \in SavedCredentials(c)}

(* _get_first_or_create_jwt_credential *)
SaveCredential ==
  /\ stage = "credential"
  /\ \E requests \in CredentialRequests(current) :
       Read(Consumer(current), requests, "limits")
  /\ UNCHANGED script

ListedOnApi(a) == {k \in Keys : k[1] = "plugin" /\ k[2] = a /\ Present(k)}

CreateLimits(c, a) ==   \* mutant: does not look for the limit first
  {{Post(Plugin(a, RateLimiting, c), version)}}

WithoutConsumer(c, a) ==   \* mutant: no consumer_id in the data
  {{IF Present(Plugin(a, RateLimiting, Nobody))
    THEN Patch(Plugin(a, RateLimiting, Nobody), version)
    ELSE Post(Plugin(a, RateLimiting, Nobody), version)}}

(* The DELETE names saved_plugin, the variable the first comprehension has *)
(* left behind: the last plugin Kong listed for the API, whatever it is.   *)
LimitRequests(c, a) ==
  LET limit == Plugin(a, RateLimiting, c) IN
  CASE Limits[version][c][a] = "present" ->
         {{IF Present(limit) THEN Patch(limit, version) ELSE Post(limit, version)}}
    [] Limits[version][c][a] = "absent" ->
         IF Present(limit) THEN {{Delete(last)} : last \in ListedOnApi(a)} ELSE {{}}

(* _save_rate_limits, for one rate limit of the input. *)
SaveLimit(a) ==
  /\ stage = "limits"
  /\ a \in limits
  /\ \E requests \in LimitRequests(current, a) : Read(Api(a), requests, "limits")
  /\ limits' = limits \ {a}
  /\ UNCHANGED <<version, todo, current, tokens>>

ConsumerSaved ==
  /\ stage = "limits" /\ pending = {} /\ limits = {}
  /\ stage' = IF todo = {} THEN "done" ELSE "next"
  /\ UNCHANGED <<kong, faults, pending, tries, script>>

(* The answer about a credential carries it: its token is printed. *)
Send(req) ==
  \/ /\ Answered(req)
     /\ tokens' = IF req.key[1] = "jwt" THEN tokens \union {Target(req)} ELSE tokens
     /\ UNCHANGED <<version, todo, current, limits>>
  \/ Rejected(req) /\ UNCHANGED script

SendFails(req) == (Refused(req) \/ Lost(req)) /\ UNCHANGED script
Aborted == Abort /\ UNCHANGED script

Next ==
  \/ \E v \in Versions : Start(v)
  \/ \E c \in Consumers : RemoveConsumer(c)
  \/ AllRemoved
  \/ \E c \in Consumers : EnsureConsumer(c)
  \/ SaveGroups
  \/ SaveCredential
  \/ \E a \in Apis : SaveLimit(a)
  \/ ConsumerSaved
  \/ \E req \in pending : Send(req)
  \/ \E req \in pending : SendFails(req)
  \/ Aborted

Spec == Init /\ [][Next]_vars

(* As for kong_apis.py: what is not a fault happens in the end. *)
Fairness ==
  /\ WF_vars(\E v \in Versions : stage = "failed" /\ Start(v))
  /\ WF_vars(\E c \in Consumers : RemoveConsumer(c) \/ EnsureConsumer(c))
  /\ WF_vars(AllRemoved \/ SaveGroups \/ SaveCredential \/ ConsumerSaved)
  /\ WF_vars(\E a \in Apis : SaveLimit(a))
  /\ WF_vars(\E req \in pending : Send(req))

FairSpec == Spec /\ Fairness

-----------------------------------------------------------------------------
TypeOK ==
  /\ kong \in [Keys -> Versions \union {Absent}]
  /\ faults \in 0 .. MaxFaults
  /\ stage \in {"idle", "absent", "next", "groups", "credential", "limits",
                "done", "failed"}
  /\ \A req \in pending : /\ req.method \in {"POST", "PATCH", "DELETE"}
                          /\ Target(req) \in Keys
                          /\ req.value \in Versions \union {Absent}
  /\ tries \in 1 .. Tries
  /\ version \in Versions
  /\ todo \subseteq Consumers
  /\ current \in Consumers \union {Nobody}
  /\ limits \subseteq Apis
  /\ tokens \subseteq Keys

(* A run that ends well leaves the consumers of its input and no other,    *)
(* each with exactly its groups, a credential and its rate limits, however *)
(* far earlier runs got (kong_consumers.py:45-66).                         *)
DoneMeansConverged ==
  stage = "done" =>
    \A c \in Consumers :
      /\ Present(Consumer(c)) <=> c \in InputConsumers(version)
      /\ c \in InputConsumers(version) =>
           /\ SavedGroups(c) = {Group(c, g) : g \in InputGroups[version][c]}
           /\ SavedCredentials(c) # {}
           /\ \A a \in DOMAIN Limits[version][c] :
                Limits[version][c][a] = "present" =>
                  kong[Plugin(a, RateLimiting, c)] = version

(* A token that has been printed, and copied into the configuration of     *)
(* some service, stays valid as long as its consumer is in the input       *)
(* (kong_consumers.py:107-117).  For credentials with generated keys: an   *)
(* input with credential_iss can change a key (kong_consumers.py:112),     *)
(* which is left out.                                                      *)
TokensStayValid ==
  [][\A k \in tokens : Present(k) /\ ~Present(k)'
                          => k[2] \notin InputConsumers(version)]_vars

(* A consumer has one credential more for every answer that was lost, and  *)
(* no other reason to have two (common.py:39, kong_consumers.py:127).  For *)
(* one algorithm per consumer: the script looks for credentials of the     *)
(* input's algorithm only (kong_consumers.py:106), so another release that *)
(* changes it has another one created, which is left out.                  *)
CredentialsPerFault ==
  \A c \in Consumers : Cardinality(SavedCredentials(c)) <= 1 + faults

(* Once the faults are over a run, started again when it failed, ends well *)
(* (common.py:39, kong_consumers.py:163).                                  *)
RunsComplete == Running ~> stage = "done"

(* "Deleting rate_limit for consumer {} for API {}"                        *)
(* (kong_consumers.py:96): the plugin a run deletes from an API is the     *)
(* rate limit of the consumer at hand.                                     *)
DeletesTheRateLimit ==
  \A req \in pending :
    req.method = "DELETE" /\ req.key[1] = "plugin"
      => req.key[3] = RateLimiting /\ req.key[4] = current
=============================================================================
