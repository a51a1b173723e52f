------------------------- MODULE KongOnboardingProofs -------------------------
(***************************************************************************)
(* The two scripts on one Kong: what each of them needs of it survives the *)
(* other.  The invariants are those of each script alone; here is shown    *)
(* that a step of one keeps the invariant of the other.                    *)
(***************************************************************************)
EXTENDS KongOnboarding, TLAPS

P == INSTANCE KongApisProofs WITH stage <- apiStage, pending <- apiPending,
                                  tries <- apiTries, version <- apiVersion
Q == INSTANCE KongConsumersProofs WITH Deployed <- {}

-----------------------------------------------------------------------------
(* The scripts of KongOnboarding are those the proofs are about: an        *)
(* instance of a module and one of its proofs have the same operators,     *)
(* under two names.                                                        *)
LEMMA SameKeys == A!Keys = P!Keys /\ C!Keys = P!Keys /\ Q!Keys = P!Keys
  BY DEF A!Keys, C!Keys, P!Keys, Q!Keys, A!Api, C!Api, P!Api, Q!Api, A!Plugin, C!Plugin, P!Plugin, Q!Plugin, A!Consumer, C!Consumer, P!Consumer, Q!Consumer, A!Group, C!Group, P!Group, Q!Group, A!Credential, C!Credential, P!Credential, Q!Credential

LEMMA SameOwners ==
  ASSUME NEW k
  PROVE  A!Owners(k) = P!Owners(k) /\ C!Owners(k) = P!Owners(k) /\ Q!Owners(k) = P!Owners(k)
  BY DEF A!Owners, C!Owners, P!Owners, Q!Owners, A!Api, C!Api, P!Api, Q!Api, A!Consumer, C!Consumer, P!Consumer, Q!Consumer

LEMMA SameCardinality == \A S : A!Cardinality(S) = P!Cardinality(S)
  BY DEF A!Cardinality, P!Cardinality

LEMMA SameApiAttempts ==
  ASSUME NEW req
  PROVE  (A!Send(req) <=> P!Send(req)) /\ (A!SendFails(req) <=> P!SendFails(req))
<1>1. A!Target(req) = P!Target(req)
  BY DEF A!Target, P!Target, A!FreeCredentials, P!FreeCredentials, A!Credential,
         P!Credential, A!Present, P!Present
<1>2. /\ A!Accepted(req) <=> P!Accepted(req)
      /\ A!Effect(req) <=> P!Effect(req)
  BY <1>1, SameKeys, SameOwners
  DEF A!Accepted, P!Accepted, A!Effect, P!Effect, A!Present, P!Present
<1>3. (A!Retry <=> P!Retry) /\ (A!Fault <=> P!Fault) /\ A!Due = P!Due
  BY DEF A!Retry, P!Retry, A!Fault, P!Fault, A!Due, P!Due, A!Rank, P!Rank
<1>4. A!Send(req) <=> P!Send(req)
  BY <1>1, <1>2, <1>3
  DEF A!Send, P!Send, A!Answered, P!Answered, A!Rejected, P!Rejected
<1>5. A!SendFails(req) <=> P!SendFails(req)
  BY <1>2, <1>3
  DEF A!SendFails, P!SendFails, A!Refused, P!Refused, A!Lost, P!Lost
<1> QED BY <1>4, <1>5

LEMMA SameListApis == A!ListApis <=> P!ListApis
  BY SameCardinality
     DEF A!ListApis, P!ListApis, A!SavedApis, P!SavedApis, A!StoredApis, P!StoredApis,
     A!Api, P!Api, A!Present, P!Present, A!Reconcile, P!Reconcile, A!Post, P!Post,
     A!Patch, P!Patch, A!Delete, P!Delete, A!InputApis, P!InputApis

LEMMA SameListPlugins ==
  ASSUME NEW a
  PROVE  A!ListPlugins(a) <=> P!ListPlugins(a)
  BY SameKeys
     DEF A!ListPlugins, P!ListPlugins, A!Api, P!Api, A!Present, P!Present, A!Read, P!Read,
     A!Reconcile, P!Reconcile, A!Post, P!Post, A!Patch, P!Patch, A!Delete, P!Delete,
     A!Plugin, P!Plugin, A!OwnPlugins, P!OwnPlugins

LEMMA SameApis == (A!Init => P!Init) /\ (A!Next => P!Next)
<1>1. A!Init => P!Init
  BY SameKeys DEF A!Init, P!Init
<1>2. A!Next => P!Next
  BY SameApiAttempts, SameListApis, SameListPlugins
     DEF A!Next, P!Next, A!Start, P!Start, A!Running, P!Running, A!Finish, P!Finish,
     A!Aborted, P!Aborted, A!Abort, P!Abort, A!Fault, P!Fault
<1> QED BY <1>1, <1>2

LEMMA SameConsumerAttempts ==
  ASSUME NEW req
  PROVE  (C!Send(req) <=> Q!Send(req)) /\ (C!SendFails(req) <=> Q!SendFails(req))
<1>1. C!Target(req) = Q!Target(req)
  BY DEF C!Target, Q!Target, C!FreeCredentials, Q!FreeCredentials, C!Credential,
         Q!Credential, C!Present, Q!Present
<1>2. /\ C!Accepted(req) <=> Q!Accepted(req)
      /\ C!Effect(req) <=> Q!Effect(req)
  BY <1>1, SameKeys, SameOwners
  DEF C!Accepted, Q!Accepted, C!Effect, Q!Effect, C!Present, Q!Present
<1>3. (C!Retry <=> Q!Retry) /\ (C!Fault <=> Q!Fault) /\ C!Due = Q!Due
  BY DEF C!Retry, Q!Retry, C!Fault, Q!Fault, C!Due, Q!Due, C!Rank, Q!Rank
<1>4. C!Send(req) <=> Q!Send(req)
  BY <1>1, <1>2, <1>3
  DEF C!Send, Q!Send, C!Answered, Q!Answered, C!Rejected, Q!Rejected, C!script,
         Q!script
<1>5. C!SendFails(req) <=> Q!SendFails(req)
  BY <1>2, <1>3
  DEF C!SendFails, Q!SendFails, C!Refused, Q!Refused, C!Lost, Q!Lost, C!script,
         Q!script
<1> QED BY <1>4, <1>5

LEMMA SameReads ==
  /\ C!SaveGroups <=> Q!SaveGroups
  /\ C!SaveCredential <=> Q!SaveCredential
  /\ \A a : C!SaveLimit(a) <=> Q!SaveLimit(a)
<1>1. C!SaveGroups <=> Q!SaveGroups
  BY SameKeys
     DEF C!SaveGroups, Q!SaveGroups, C!script, Q!script, C!Read, Q!Read, C!Present,
     Q!Present, C!Post, Q!Post, C!Delete, Q!Delete, C!GroupRequests, Q!GroupRequests,
     C!SavedGroups, Q!SavedGroups, C!Group, Q!Group, C!Consumer, Q!Consumer
<1>2. C!SaveCredential <=> Q!SaveCredential
  BY SameKeys
     DEF C!SaveCredential, Q!SaveCredential, C!script, Q!script, C!Read, Q!Read, C!Present,
     Q!Present, C!Post, Q!Post, C!Patch, Q!Patch, C!CredentialRequests,
     Q!CredentialRequests, C!SavedCredentials, Q!SavedCredentials, C!Credential,
     Q!Credential, C!Consumer, Q!Consumer
<1>3. ASSUME NEW a PROVE C!SaveLimit(a) <=> Q!SaveLimit(a)
  BY SameKeys
     DEF C!SaveLimit, Q!SaveLimit, C!Read, Q!Read, C!Present, Q!Present, C!Post, Q!Post,
     C!Patch, Q!Patch, C!Delete, Q!Delete, C!LimitRequests, Q!LimitRequests,
     C!ListedOnApi, Q!ListedOnApi, C!Plugin, Q!Plugin, C!Api, Q!Api
<1> QED BY <1>1, <1>2, <1>3

LEMMA SameConsumers == (C!Init => Q!Init) /\ (C!Next => Q!Next)
<1>1. C!Init => Q!Init
  BY SameKeys DEF C!Init, Q!Init
<1>2. C!Next => Q!Next
  BY SameConsumerAttempts, SameReads
     DEF C!Next, Q!Next, C!Start, Q!Start, C!Running, Q!Running, C!InputConsumers,
     Q!InputConsumers, C!RemoveConsumer, Q!RemoveConsumer, C!AllRemoved, Q!AllRemoved,
     C!EnsureConsumer, Q!EnsureConsumer, C!ConsumerSaved, Q!ConsumerSaved, C!Aborted,
     Q!Aborted, C!Abort, Q!Abort, C!Fault, Q!Fault, C!script, Q!script, C!Present,
     Q!Present, C!Post, Q!Post, C!Delete, Q!Delete, C!Consumer, Q!Consumer
<1> QED BY <1>1, <1>2
-----------------------------------------------------------------------------
(* What is proved of each script alone, for a step of that script here.    *)
LEMMA ApisKeep ==
  ASSUME P!RequestsInv, P!Next
  PROVE  P!RequestsInv' /\ (P!ApisInv => P!ApisInv')
  BY P!ApisStep, NamesAssumption, BoundsAssumption, InputAssumption

LEMMA ApisElsewhere ==
  ASSUME P!RequestsInv, P!Next, NEW k \in P!Keys
  PROVE  /\ k[1] \notin {"api", "plugin"} => kong'[k] = kong[k]
         /\ k[1] = "plugin" /\ k[2] \in P!InputApis(apiVersion') /\ k[4] # Nobody
              => kong'[k] = kong[k]
  BY P!StepElsewhere, NamesAssumption, BoundsAssumption, InputAssumption

LEMMA ConsumersKeep ==
  ASSUME Q!BaseInv, Q!Next
  PROVE  Q!BaseInv' /\ (Q!Owned => Q!Owned')
<1>1. Q!BaseInv'
  BY Q!BaseStep, NamesAssumption, BoundsAssumption, RateLimitingAssumption,
     InputGroupsAssumption, LimitsAssumption, CredentialsAssumption
<1>2. Q!Owned => Q!Owned'
  BY Q!StepOwned, NamesAssumption, BoundsAssumption, RateLimitingAssumption,
     InputGroupsAssumption, LimitsAssumption, CredentialsAssumption
<1> QED BY <1>1, <1>2

LEMMA ConsumersElsewhere ==
  ASSUME Q!KeepsLimits, Q!BaseInv, Q!Next, NEW k \in Q!Keys,
         k[1] = "api" \/ (k[1] = "plugin" /\ k[4] = Nobody)
  PROVE  kong'[k] = kong[k]
  BY Q!StepElsewhere, NamesAssumption, BoundsAssumption, RateLimitingAssumption,
     InputGroupsAssumption, LimitsAssumption, CredentialsAssumption
-----------------------------------------------------------------------------
(* A step of one script keeps the invariant of the other. *)
LEMMA ConsumersUndisturbed ==
  ASSUME P!RequestsInv, P!RequestsInv', Q!BaseInv, P!Next, UNCHANGED consumerScript
  PROVE  Q!BaseInv'
<1>1. UNCHANGED <<stage, pending, tries, version, todo, current, limits, tokens>>
  BY DEF consumerScript
<1>2. faults' \in {faults, faults + 1}
  BY P!StepFaults, NamesAssumption, BoundsAssumption, InputAssumption
<1>3. /\ faults \in Nat /\ faults' \in 0 .. MaxFaults
      /\ kong' \in [Q!Keys -> Q!Values]
  BY SameKeys, BoundsAssumption DEF P!RequestsInv, P!TypeOK, Q!Values
<1>4. \A c : Q!SavedCredentials(c)' = Q!SavedCredentials(c)
  <2>1. \A k \in Q!Keys : k[1] = "jwt" => kong'[k] = kong[k]
    BY ApisElsewhere, SameKeys
  <2> QED BY <2>1 DEF Q!SavedCredentials, Q!Present
<1>5. Q!TypesOK'
  BY <1>1, <1>3 DEF Q!BaseInv, Q!TypesOK, Q!CountersOK
<1>6. Q!Placed' /\ Q!PendingRightful' /\ Q!TokensAre'
  BY <1>1 DEF Q!BaseInv, Q!Placed, Q!PendingRightful, Q!Rightful, Q!RemovesAbsent,
     Q!ChangesGroup, Q!CreatesCredential, Q!UpdatesCredential, Q!SetsLimit, Q!TakesLimit,
     Q!TokensAre, Q!InputConsumers
<1>7. ASSUME NEW c \in Consumers
      PROVE  Q!Cardinality(Q!SavedCredentials(c)) \in Nat
  BY Q!SavedFinite, NamesAssumption, BoundsAssumption, RateLimitingAssumption,
     InputGroupsAssumption, LimitsAssumption, CredentialsAssumption
<1>8. Q!CredentialsPerFault'
  BY <1>2, <1>3, <1>4, <1>7 DEF Q!BaseInv, Q!CredentialsPerFault
<1>9. Q!RoomForOne'
  <2> SUFFICES ASSUME NEW req \in pending, Q!CreatesCredential(req)
               PROVE  Q!Cardinality(Q!SavedCredentials(current)) <= faults'
    BY <1>1, <1>4 DEF Q!RoomForOne, Q!CreatesCredential, Q!SavedCredentials
  <2>1. current \in Consumers /\ Q!Cardinality(Q!SavedCredentials(current)) <= faults
    BY Q!CreatedAt, NamesAssumption, BoundsAssumption, RateLimitingAssumption,
       InputGroupsAssumption, LimitsAssumption, CredentialsAssumption
  <2> QED BY <1>2, <1>3, <1>7, <2>1
<1> QED BY <1>5, <1>6, <1>8, <1>9 DEF Q!BaseInv

LEMMA ApisUndisturbed ==
  ASSUME P!RequestsInv, Q!BaseInv', UNCHANGED apiScript
  PROVE  P!RequestsInv'
<1>1. /\ faults' \in 0 .. MaxFaults
      /\ kong' \in [P!Keys -> Versions \union {Absent}]
  BY SameKeys DEF Q!BaseInv, Q!TypesOK, Q!CountersOK, Q!Values
<1>2. UNCHANGED <<apiStage, apiPending, apiTries, apiVersion, unvisited>>
  BY DEF apiScript
<1> QED BY <1>1, <1>2 DEF P!RequestsInv, P!TypeOK, P!Listed, P!Quiet, P!PendingRightful,
           P!Rightful, P!Managed, P!Wanted, P!InputApis

(* What the scripts rely on for their requests. *)
Undisturbed == P!RequestsInv /\ Q!BaseInv

LEMMA UndisturbedStep ==
  ASSUME Undisturbed, [Next]_vars
  PROVE  Undisturbed'
<1>1. CASE A!Next /\ UNCHANGED consumerScript
  BY <1>1, SameApis, ApisKeep, ConsumersUndisturbed DEF Undisturbed
<1>2. CASE C!Next /\ UNCHANGED apiScript
  BY <1>2, SameConsumers, ConsumersKeep, ApisUndisturbed DEF Undisturbed
<1>3. CASE UNCHANGED vars
  <2>1. UNCHANGED <<kong, faults, apiStage, apiPending, apiTries, apiVersion, unvisited,
                    stage, pending, tries, version, todo, current, limits, tokens>>
    BY <1>3 DEF vars, apiScript, consumerScript
  <2>2. P!RequestsInv'
    BY P!ApisStep, <2>1, NamesAssumption, BoundsAssumption, InputAssumption
       DEF Undisturbed, P!vars, P!client
  <2>3. Q!BaseInv'
    BY Q!BaseStep, <2>1, NamesAssumption, BoundsAssumption, RateLimitingAssumption,
       InputGroupsAssumption, LimitsAssumption, CredentialsAssumption
       DEF Undisturbed, Q!vars, Q!client, Q!script
  <2> QED BY <2>2, <2>3 DEF Undisturbed
<1> QED BY <1>1, <1>2, <1>3 DEF Next
LEMMA UndisturbedAlways == Spec => []Undisturbed
<1>1. Init => Undisturbed
  <2>1. P!Init => P!ApisInv
    BY P!InitApis, NamesAssumption, BoundsAssumption, InputAssumption
  <2>2. Q!Init => Q!BaseInv
    BY Q!InitBase, NamesAssumption, BoundsAssumption, RateLimitingAssumption,
       InputGroupsAssumption, LimitsAssumption, CredentialsAssumption
  <2> QED BY <2>1, <2>2, SameApis, SameConsumers DEF Init, Undisturbed, P!ApisInv
<1>2. Undisturbed /\ [Next]_vars => Undisturbed'
  BY UndisturbedStep
<1> QED BY <1>1, <1>2, PTL DEF Spec

(* Saving the APIs leaves the rate limits of consumers alone on every API  *)
(* that stays, whatever the other script does meanwhile and whatever it    *)
(* takes away (kong_apis.py:45, 65).                                       *)
THEOREM LimitsSurvive == Spec => OverridesSurvive
<1>1. ASSUME Undisturbed, A!Next, NEW a \in A!InputApis(apiVersion'), NEW k \in Overrides(a)
      PROVE  kong'[k] = kong[k]
  <2>1. P!RequestsInv /\ P!RequestsInv' /\ P!Next
    BY <1>1, SameApis, ApisKeep DEF Undisturbed
  <2>2. a \in P!InputApis(apiVersion') /\ a \in Apis
    BY <2>1, InputAssumption DEF A!InputApis, P!InputApis, P!RequestsInv, P!TypeOK
  <2>3. PICK p \in Plugins, c \in Consumers : k = P!Plugin(a, p, c)
    BY DEF Overrides, A!Plugin, P!Plugin
  <2>4. k \in P!Keys
    BY <2>2, <2>3 DEF P!Keys
  <2>5. k[1] = "plugin" /\ k[2] = a /\ k[4] # Nobody
    BY <2>3, NamesAssumption DEF P!Plugin
  <2> QED BY <2>1, <2>2, <2>4, <2>5, ApisElsewhere
<1>2. Undisturbed /\ [Next]_vars
        => [A!Next => \A a \in A!InputApis(apiVersion') : \A k \in Overrides(a) :
                        C!Present(k) => kong'[k] = kong[k]]_vars
  BY <1>1
<1> QED BY <1>2, UndisturbedAlways, PTL DEF Spec, OverridesSurvive

-----------------------------------------------------------------------------
LEMMA SameOwned == (P!Owned <=> Q!Owned) /\ (P!Owned' <=> Q!Owned')
  BY SameKeys, SameOwners DEF P!Owned, Q!Owned, P!Present, Q!Present

(* What a run of kong_apis.py has reached stays, as long as the other      *)
(* script takes no rate limit away.                                        *)
LEMMA ApisStayConverged ==
  ASSUME Q!KeepsLimits, Undisturbed, Undisturbed', P!ApisInv, Q!Next, UNCHANGED apiScript
  PROVE  P!ApisInv'
<1>1. UNCHANGED <<apiStage, apiPending, apiTries, apiVersion, unvisited>>
  BY DEF apiScript
<1>2. \A k \in P!Managed : kong'[k] = kong[k]
  BY ConsumersElsewhere, SameKeys DEF P!Managed, Undisturbed
<1>3. P!Owned'
  BY ConsumersKeep, SameOwned DEF Undisturbed, P!ApisInv
<1>4. P!Settled'
  <2>1. \A k : (P!Goal(k))' = P!Goal(k) /\ (P!Visited(k)' <=> P!Visited(k))
    BY <1>1 DEF P!Goal, P!Visited, P!Wanted, P!InputApis
  <2>2. P!Managed' = P!Managed
    BY DEF P!Managed
  <2> QED BY <1>1, <1>2, <2>1, <2>2 DEF P!ApisInv, P!Settled
<1>5. P!DoneMeansConverged'
  BY <1>1, <1>2 DEF P!ApisInv, P!DoneMeansConverged, P!Wanted, P!InputApis, P!Managed
<1> QED BY <1>3, <1>4, <1>5 DEF Undisturbed, P!ApisInv

(* Whatever the other script does meanwhile, a run that has saved the APIs *)
(* has left exactly the APIs and plugins of its input, and they stay       *)
(* (kong_consumers.py:84).  It holds of inputs that take no rate limit     *)
(* away: where line 97 deletes one it may hit a plugin of the API's own.   *)
THEOREM ApisStay ==
  ASSUME Q!KeepsLimits
  PROVE  Spec => []ApisConverged
<1>1. Init => P!ApisInv
  BY P!InitApis, SameApis, NamesAssumption, BoundsAssumption, InputAssumption DEF Init
<1>2. Undisturbed /\ Undisturbed' /\ P!ApisInv /\ [Next]_vars => P!ApisInv'
  <2> SUFFICES ASSUME Undisturbed, Undisturbed', P!ApisInv, [Next]_vars
               PROVE  P!ApisInv'
    OBVIOUS
  <2>1. CASE A!Next /\ UNCHANGED consumerScript
    BY <2>1, SameApis, ApisKeep DEF Undisturbed
  <2>2. CASE C!Next /\ UNCHANGED apiScript
    BY <2>2, SameConsumers, ApisStayConverged
  <2>3. CASE UNCHANGED vars
    <3>1. UNCHANGED P!vars
      BY <2>3 DEF vars, apiScript, P!vars, P!client
    <3> QED BY <3>1, P!ApisStep, NamesAssumption, BoundsAssumption, InputAssumption
            DEF Undisturbed
  <2> QED BY <2>1, <2>2, <2>3 DEF Next
<1>3. P!ApisInv => ApisConverged
  BY SameKeys DEF P!ApisInv, ApisConverged, A!DoneMeansConverged, P!DoneMeansConverged,
     A!Managed, P!Managed, A!Wanted, P!Wanted, A!InputApis, P!InputApis, A!Api, P!Api
<1> QED BY <1>1, <1>2, <1>3, UndisturbedAlways, PTL DEF Spec
=============================================================================
