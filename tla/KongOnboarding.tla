--------------------------- MODULE KongOnboarding ---------------------------
(***************************************************************************)
(* The jobs that onboard APIs and consumers run the two scripts against    *)
(* the same Kong, with nothing to keep them apart: each decides on         *)
(* requests from lists it read, and the other changes Kong in between.     *)
(***************************************************************************)
EXTENDS Naturals, FiniteSets

CONSTANTS Apis, Plugins, Consumers, Groups, Nobody, Versions, Absent,
          MaxCredentials, Tries, MaxFaults,
          Input, MaxPageSize, RateLimiting, InputGroups, Limits

(* The assumptions of both scripts *)
ASSUME NamesAssumption == Absent \notin Versions /\ Nobody \notin Consumers
ASSUME BoundsAssumption ==
  Tries \in Nat \ {0} /\ MaxFaults \in Nat /\ MaxCredentials \in Nat
ASSUME CredentialsAssumption == MaxFaults < MaxCredentials
ASSUME InputAssumption ==
  \A v \in Versions : /\ DOMAIN Input[v] \subseteq Apis
                       /\ \A a \in DOMAIN Input[v] : Input[v][a] \subseteq Plugins
ASSUME RateLimitingAssumption == RateLimiting \in Plugins
ASSUME InputGroupsAssumption ==
  \A v \in Versions :
    /\ DOMAIN InputGroups[v] \subseteq Consumers
    /\ \A c \in DOMAIN InputGroups[v] : InputGroups[v][c] \subseteq Groups
ASSUME LimitsAssumption ==
  \A v \in Versions : \A c \in DOMAIN InputGroups[v] :
    /\ DOMAIN Limits[v][c] \subseteq Apis
    /\ \A a \in DOMAIN Limits[v][c] : Limits[v][c][a] \in {"present", "absent"}

VARIABLES kong, faults,
          apiStage, apiPending, apiTries, apiVersion, unvisited,
          stage, pending, tries, version, todo, current, limits, tokens

A == INSTANCE KongApis WITH stage <- apiStage, pending <- apiPending,
                            tries <- apiTries, version <- apiVersion
C == INSTANCE KongConsumers WITH Deployed <- {}

apiScript == <<apiStage, apiPending, apiTries, apiVersion, unvisited>>
consumerScript == <<stage, pending, tries, version, todo, current, limits, tokens>>
vars == <<kong, faults, apiScript, consumerScript>>

Init == A!Init /\ C!Init

Next == \/ A!Next /\ UNCHANGED consumerScript
        \/ C!Next /\ UNCHANGED apiScript

Spec == Init /\ [][Next]_vars

-----------------------------------------------------------------------------
Overrides(a) == {A!Plugin(a, p, c) : p \in Plugins, c \in Consumers}

(* Saving the APIs leaves the rate limits of consumers alone on every API  *)
(* that stays, although they are listed among its plugins                  *)
(* (kong_apis.py:45, 65).                                                  *)
OverridesSurvive ==
  [][A!Next => \A a \in A!InputApis(apiVersion') : \A k \in Overrides(a) :
                 C!Present(k) => kong'[k] = kong[k]]_vars

(* The other way round: whatever the other script does meanwhile, a run    *)
(* that has saved the APIs has left exactly the APIs and plugins of its    *)
(* input (kong_consumers.py:84).                                           *)
ApisConverged == A!DoneMeansConverged
=============================================================================
