------------------------------ MODULE KongAdmin ------------------------------
(***************************************************************************)
(* Kong's Admin API as the onboarding scripts use it, and the client they  *)
(* share (ansible/static-files/kong-api-scripts/common.py).                *)
(*                                                                         *)
(* Everything Kong stores is an entity with a key; its value is the        *)
(* version of the input that last wrote it, or Absent.  Kong itself is not *)
(* part of the repository.                                                 *)
(***************************************************************************)
EXTENDS Naturals, FiniteSets

CONSTANTS Apis, Plugins, Consumers, Groups,
          Nobody,          \* consumer_id of a plugin that is an API's own
          Versions,        \* releases of the input files
          Absent,
          MaxCredentials,  \* bound: JWT credentials a consumer may collect
          Tries,           \* attempts of one request (5 in the code)
          MaxFaults        \* bound: network failures, aborted runs

ASSUME NamesAssumption == Absent \notin Versions /\ Nobody \notin Consumers
ASSUME BoundsAssumption ==
  Tries \in Nat \ {0} /\ MaxFaults \in Nat /\ MaxCredentials \in Nat

Api(a) == <<"api", a>>
Plugin(a, p, c) == <<"plugin", a, p, c>>
Consumer(c) == <<"consumer", c>>
Group(c, g) == <<"group", c, g>>
Credential(c, n) == <<"jwt", c, n>>

Keys == {Api(a) : a \in Apis}
          \union {Plugin(a, p, c) : a \in Apis, p \in Plugins,
                                    c \in Consumers \union {Nobody}}
          \union {Consumer(c) : c \in Consumers}
          \union {Group(c, g) : c \in Consumers, g \in Groups}
          \union {Credential(c, n) : c \in Consumers, n \in 1 .. MaxCredentials}

(* What an entity belongs to: it cannot be created without them, and goes  *)
(* when one of them is deleted.                                            *)
Owners(k) ==
  CASE k[1] = "plugin" -> {Api(k[2])} \union
                            (IF k[4] = Nobody THEN {} ELSE {Consumer(k[4])})
    [] k[1] \in {"group", "jwt"} -> {Consumer(k[2])}
    [] OTHER -> {}

VARIABLES kong,     \* key -> version or Absent
          faults,   \* failures so far
          stage,    \* where the script stands
          pending,  \* requests the script has decided on and not finished
          tries     \* attempts made at the current one

client == <<kong, faults, stage, pending, tries>>

Present(k) == kong[k] # Absent

-----------------------------------------------------------------------------
(* Requests *)
Post(k, v) == [method |-> "POST", key |-> k, value |-> v]
Patch(k, v) == [method |-> "PATCH", key |-> k, value |-> v]
Delete(k) == [method |-> "DELETE", key |-> k, value |-> Absent]

(* The scripts create, then update, then delete. *)
Rank(req) == CASE req.method = "POST" -> 1
               [] req.method = "PATCH" -> 2
               [] req.method = "DELETE" -> 3

Due == {req \in pending : \A other \in pending : Rank(req) <= Rank(other)}

(* What a request is about.  Only a credential is posted without a name:   *)
(* Kong gives it one, so that a repeated POST makes a second credential.   *)
FreeCredentials(c) == {n \in 1 .. MaxCredentials : ~Present(Credential(c, n))}

Target(req) ==
  IF req.method = "POST" /\ req.key[1] = "jwt"
  THEN Credential(req.key[2], CHOOSE n \in FreeCredentials(req.key[2]) : TRUE)
  ELSE req.key

(* Kong answers 2xx: a POST needs its owners and a free name. *)
Accepted(req) ==
  IF req.method = "POST"
  THEN ~Present(Target(req)) /\ \A o \in Owners(req.key) : Present(o)
  ELSE Present(req.key)

Effect(req) ==
  LET target == Target(req) IN
  kong' = [k \in Keys |->
            IF k = target THEN req.value
            ELSE IF req.method = "DELETE" /\ target \in Owners(k) THEN Absent
            ELSE kong[k]]

OneRetryMore ==   \* mutant: counts the tries from zero
  IF tries <= Tries
  THEN tries' = tries + 1 /\ UNCHANGED <<stage, pending>>
  ELSE tries' = 1 /\ stage' = "failed" /\ pending' = {}

(* A failed attempt is retried, whatever failed, until none is left: then  *)
(* the exception ends the script.                                          *)
Retry ==
  IF tries < Tries
  THEN tries' = tries + 1 /\ UNCHANGED <<stage, pending>>
  ELSE tries' = 1 /\ stage' = "failed" /\ pending' = {}

Answered(req) ==
  /\ req \in Due
  /\ Accepted(req)
  /\ Effect(req)
  /\ pending' = pending \ {req}
  /\ tries' = 1
  /\ UNCHANGED <<faults, stage>>

(* 404, 409: an HTTPError is a URLError too, so these are retried as well. *)
Rejected(req) ==
  /\ req \in Due
  /\ ~Accepted(req)
  /\ Retry
  /\ UNCHANGED <<kong, faults>>

Fault == faults < MaxFaults /\ faults' = faults + 1

(* The request does not get through. *)
Refused(req) == req \in Due /\ Fault /\ Retry /\ UNCHANGED kong

(* The request takes effect and its answer is lost. *)
Lost(req) == req \in Due /\ Fault /\ Accepted(req) /\ Effect(req) /\ Retry

(* A list is read and compared, and requests are decided on; below an      *)
(* owner that is gone there is only a 404, which ends the script.          *)
Read(owner, requests, next) ==
  /\ pending = {}
  /\ IF Present(owner)
     THEN pending' = requests /\ stage' = next
     ELSE stage' = "failed" /\ UNCHANGED pending
  /\ UNCHANGED <<kong, faults, tries>>

Running == stage \notin {"idle", "done", "failed"}

(* Reading does not get through, or the job is aborted. *)
Abort ==
  /\ Running
  /\ Fault
  /\ stage' = "failed" /\ pending' = {} /\ tries' = 1
  /\ UNCHANGED kong
=============================================================================
