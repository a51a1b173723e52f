--------------------------- MODULE KongAdminProofs ---------------------------
(***************************************************************************)
(* What the onboarding scripts' proofs rest on: the shape of Kong's keys,  *)
(* the effect of one request on every entity, and what the attempts of a   *)
(* request leave behind, for any sets of APIs, plugins, consumers and      *)
(* groups.                                                                 *)
(***************************************************************************)
EXTENDS KongAdmin, TLAPS

(* An entity that is there has its owners. *)
Owned == \A k \in Keys : Present(k) => \A o \in Owners(k) : Present(o)

Values == Versions \union {Absent}

(* A request as the scripts make them. *)
WellFormed(req) ==
  /\ req.method \in {"POST", "PATCH", "DELETE"}
  /\ req.method = "DELETE" => req.value = Absent
  /\ req.method # "DELETE" => req.value \in Versions

-----------------------------------------------------------------------------
(* Keys *)
LEMMA ApiIs ==
  ASSUME NEW a
  PROVE  Api(a)[1] = "api" /\ Api(a)[2] = a /\ Owners(Api(a)) = {}
<1>1. Api(a)[1] = "api" /\ Api(a)[2] = a
  BY DEF Api
<1> QED BY <1>1 DEF Owners

LEMMA ConsumerIs ==
  ASSUME NEW c
  PROVE  Consumer(c)[1] = "consumer" /\ Consumer(c)[2] = c /\ Owners(Consumer(c)) = {}
<1>1. Consumer(c)[1] = "consumer" /\ Consumer(c)[2] = c
  BY DEF Consumer
<1> QED BY <1>1 DEF Owners

LEMMA PluginIs ==
  ASSUME NEW a, NEW p, NEW c
  PROVE  /\ Plugin(a, p, c)[1] = "plugin" /\ Plugin(a, p, c)[2] = a
         /\ Plugin(a, p, c)[3] = p /\ Plugin(a, p, c)[4] = c
         /\ Owners(Plugin(a, p, c)) =
              {Api(a)} \union (IF c = Nobody THEN {} ELSE {Consumer(c)})
<1>1. /\ Plugin(a, p, c)[1] = "plugin" /\ Plugin(a, p, c)[2] = a
      /\ Plugin(a, p, c)[3] = p /\ Plugin(a, p, c)[4] = c
  BY DEF Plugin
<1> QED BY <1>1 DEF Owners

LEMMA GroupIs ==
  ASSUME NEW c, NEW g
  PROVE  /\ Group(c, g)[1] = "group" /\ Group(c, g)[2] = c /\ Group(c, g)[3] = g
         /\ Owners(Group(c, g)) = {Consumer(c)}
<1>1. Group(c, g)[1] = "group" /\ Group(c, g)[2] = c /\ Group(c, g)[3] = g
  BY DEF Group
<1> QED BY <1>1 DEF Owners

LEMMA CredentialIs ==
  ASSUME NEW c, NEW n
  PROVE  /\ Credential(c, n)[1] = "jwt" /\ Credential(c, n)[2] = c
         /\ Credential(c, n)[3] = n
         /\ Owners(Credential(c, n)) = {Consumer(c)}
<1>1. /\ Credential(c, n)[1] = "jwt" /\ Credential(c, n)[2] = c
      /\ Credential(c, n)[3] = n
  BY DEF Credential
<1> QED BY <1>1 DEF Owners

LEMMA KeyKinds ==
  ASSUME NEW k \in Keys
  PROVE  \/ \E a \in Apis : k = Api(a)
         \/ \E a \in Apis, p \in Plugins, c \in Consumers \union {Nobody} :
              k = Plugin(a, p, c)
         \/ \E c \in Consumers : k = Consumer(c)
         \/ \E c \in Consumers, g \in Groups : k = Group(c, g)
         \/ \E c \in Consumers, n \in 1 .. MaxCredentials : k = Credential(c, n)
  BY DEF Keys

LEMMA AreKeys ==
  /\ \A a \in Apis : Api(a) \in Keys
  /\ \A a \in Apis, p \in Plugins, c \in Consumers \union {Nobody} :
       Plugin(a, p, c) \in Keys
  /\ \A c \in Consumers : Consumer(c) \in Keys
  /\ \A c \in Consumers, g \in Groups : Group(c, g) \in Keys
  /\ \A c \in Consumers, n \in 1 .. MaxCredentials : Credential(c, n) \in Keys
  BY DEF Keys

(* An owner is a key that is not owned itself. *)
LEMMA OwnersAre ==
  ASSUME NEW k \in Keys, NEW o \in Owners(k)
  PROVE  o \in Keys /\ Owners(o) = {} /\ o # k
<1>1. o \in Keys /\ Owners(o) = {}
  <2>1. CASE \E a \in Apis : k = Api(a)
    BY <2>1, ApiIs
  <2>2. CASE \E a \in Apis, p \in Plugins, c \in Consumers \union {Nobody} :
               k = Plugin(a, p, c)
    <3>1. PICK a \in Apis, p \in Plugins, c \in Consumers \union {Nobody} :
                 k = Plugin(a, p, c)
      BY <2>2
    <3>2. o = Api(a) \/ (c # Nobody /\ o = Consumer(c))
      BY <3>1, PluginIs
    <3> QED BY <3>1, <3>2, ApiIs, ConsumerIs, AreKeys
  <2>3. CASE \E c \in Consumers : k = Consumer(c)
    BY <2>3, ConsumerIs
  <2>4. CASE \E c \in Consumers, g \in Groups : k = Group(c, g)
    BY <2>4, GroupIs, ConsumerIs, AreKeys
  <2>5. CASE \E c \in Consumers, n \in 1 .. MaxCredentials : k = Credential(c, n)
    BY <2>5, CredentialIs, ConsumerIs, AreKeys
  <2> QED BY <2>1, <2>2, <2>3, <2>4, <2>5, KeyKinds
<1> QED BY <1>1

-----------------------------------------------------------------------------
(* Requests *)
LEMMA PostIs ==
  ASSUME NEW k, NEW v
  PROVE  Post(k, v).method = "POST" /\ Post(k, v).key = k /\ Post(k, v).value = v
  BY DEF Post

LEMMA PatchIs ==
  ASSUME NEW k, NEW v
  PROVE  Patch(k, v).method = "PATCH" /\ Patch(k, v).key = k /\ Patch(k, v).value = v
  BY DEF Patch

LEMMA DeleteIs ==
  ASSUME NEW k
  PROVE  /\ Delete(k).method = "DELETE" /\ Delete(k).key = k
         /\ Delete(k).value = Absent
  BY DEF Delete

(* Where a key is named, the request is about that key. *)
LEMMA TargetIs ==
  ASSUME NEW req, req.method # "POST" \/ req.key[1] # "jwt"
  PROVE  Target(req) = req.key
  BY DEF Target

(* What a request does to one entity. *)
LEMMA EffectOn ==
  ASSUME NEW req, Effect(req), NEW k \in Keys
  PROVE  kong'[k] = IF k = Target(req) THEN req.value
                    ELSE IF req.method = "DELETE" /\ Target(req) \in Owners(k)
                         THEN Absent
                         ELSE kong[k]
  BY DEF Effect

LEMMA EffectType ==
  ASSUME kong \in [Keys -> Values], NEW req, WellFormed(req), Effect(req)
  PROVE  kong' \in [Keys -> Values]
<1>1. req.value \in Values
  BY DEF WellFormed, Values
<1> DEFINE target == Target(req)
<1> HIDE DEF target
<1>2. kong' = [k \in Keys |->
                IF k = target THEN req.value
                ELSE IF req.method = "DELETE" /\ target \in Owners(k) THEN Absent
                ELSE kong[k]]
  BY DEF Effect, target
<1> QED BY <1>1, <1>2 DEF Values

(* Kong keeps owners: what is created has them, and they take with them    *)
(* what they own.                                                          *)
LEMMA EffectOwned ==
  ASSUME Owned, NEW req, WellFormed(req), Accepted(req), Effect(req),
         Target(req) \in Keys, Owners(Target(req)) = Owners(req.key)
  PROVE  Owned'
<1> DEFINE target == Target(req)
<1> SUFFICES ASSUME NEW k \in Keys, kong'[k] # Absent, NEW o \in Owners(k)
             PROVE  kong'[o] # Absent
  BY DEF Owned, Present
<1>1. o \in Keys /\ Owners(o) = {} /\ o # k
  BY OwnersAre
<1>2. /\ kong'[o] = IF o = target THEN req.value ELSE kong[o]
      /\ kong'[k] = IF k = target THEN req.value
                    ELSE IF req.method = "DELETE" /\ target \in Owners(k)
                         THEN Absent ELSE kong[k]
  BY <1>1, EffectOn
<1>3. req.method # "DELETE" => req.value # Absent
  BY NamesAssumption DEF WellFormed
<1>4. CASE k = target
  <2>1. req.method # "DELETE"
    BY <1>2, <1>4 DEF WellFormed
  <2>2. Present(o)
    <3>1. CASE req.method = "POST"
      BY <1>4, <3>1 DEF Accepted
    <3>2. CASE req.method = "PATCH"
      <4>1. Target(req) = req.key
        BY <3>2, TargetIs
      <4>2. Present(k)
        BY <1>4, <3>2, <4>1 DEF Accepted
      <4> QED BY <4>2 DEF Owned
    <3> QED BY <2>1, <3>1, <3>2 DEF WellFormed
  <2> QED BY <1>1, <1>2, <1>4, <2>2 DEF Present
<1>5. CASE k # target
  <2>1. Present(k) /\ (o = target => req.method # "DELETE")
    BY <1>2, <1>5 DEF Present
  <2>2. Present(o)
    BY <2>1 DEF Owned
  <2> QED BY <1>2, <1>3, <2>1, <2>2 DEF Present
<1> QED BY <1>4, <1>5

-----------------------------------------------------------------------------
(* The attempts at a request: it takes effect or not, and either it stays  *)
(* or goes, when it took effect, or the script has ended.                  *)
Attempt(req) ==
  /\ UNCHANGED kong \/ (Accepted(req) /\ Effect(req))
  /\ \/ stage' = stage /\ pending' = pending
     \/ /\ stage' = stage /\ pending' = pending \ {req}
        /\ Accepted(req) /\ Effect(req)
     \/ stage' = "failed" /\ pending' = {}

LEMMA AttemptOf ==
  ASSUME NEW req, Answered(req) \/ Rejected(req) \/ Refused(req) \/ Lost(req)
  PROVE  Attempt(req)
<1>1. CASE Answered(req)
  BY <1>1 DEF Answered, Attempt
<1>2. CASE Rejected(req)
  BY <1>2 DEF Rejected, Retry, Attempt
<1>3. CASE Refused(req)
  BY <1>3 DEF Refused, Retry, Attempt
<1>4. CASE Lost(req)
  BY <1>4 DEF Lost, Retry, Attempt
<1> QED BY <1>1, <1>2, <1>3, <1>4

CountersOK == faults \in 0 .. MaxFaults /\ tries \in 1 .. Tries

LEMMA AttemptCounts ==
  ASSUME CountersOK, NEW req,
         Answered(req) \/ Rejected(req) \/ Refused(req) \/ Lost(req)
  PROVE  CountersOK'
<1>1. 1 \in 1 .. Tries /\ (tries < Tries => tries + 1 \in 1 .. Tries)
  BY BoundsAssumption DEF CountersOK
<1>2. Retry => tries' \in 1 .. Tries
  BY <1>1 DEF Retry
<1>3. Fault => faults' \in 0 .. MaxFaults
  BY BoundsAssumption DEF Fault, CountersOK
<1>4. CASE Answered(req)
  BY <1>1, <1>4 DEF Answered, CountersOK
<1>5. CASE Rejected(req)
  BY <1>2, <1>5 DEF Rejected, CountersOK
<1>6. CASE Refused(req)
  BY <1>2, <1>3, <1>6 DEF Refused, CountersOK
<1>7. CASE Lost(req)
  BY <1>2, <1>3, <1>7 DEF Lost, CountersOK
<1> QED BY <1>4, <1>5, <1>6, <1>7

LEMMA AbortCounts ==
  ASSUME CountersOK, Abort
  PROVE  CountersOK'
  BY BoundsAssumption DEF CountersOK, Abort, Fault
=============================================================================
