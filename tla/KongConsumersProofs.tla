-------------------------- MODULE KongConsumersProofs --------------------------
(***************************************************************************)
(* kong_consumers.py: what it sends, the credentials it leaves, the tokens *)
(* it prints and what a run that ends well has made of Kong, for any       *)
(* consumers, groups, APIs, releases of the input, number of attempts and  *)
(* number of faults.                                                       *)
(***************************************************************************)
EXTENDS KongConsumers, KongAdminProofs, FiniteSetTheorems

Loop == {"next", "groups", "credential", "limits"}
AtConsumer == {"groups", "credential", "limits"}

(* Where the script stands in its two loops. *)
Placed ==
  /\ stage = "absent" => todo \subseteq Consumers \ InputConsumers(version)
  /\ stage \in Loop => todo \subseteq InputConsumers(version)
  /\ stage \in AtConsumer => /\ current \in InputConsumers(version)
                             /\ limits \subseteq DOMAIN Limits[version][current]
  /\ stage = "done" => todo = {}

(* The requests of each stage: a request is decided on by the step that    *)
(* leads to the stage, and the next step waits for it.                     *)
RemovesAbsent(req) ==
  \E c \in Consumers \ InputConsumers(version) : req = Delete(Consumer(c))

ChangesGroup(req) ==
  \/ \E g \in InputGroups[version][current] : req = Post(Group(current, g), version)
  \/ \E g \in Groups \ InputGroups[version][current] : req = Delete(Group(current, g))

CreatesCredential(req) == req = Post(Credential(current, 0), version)

UpdatesCredential(req) ==
  \E n \in 1 .. MaxCredentials : req = Patch(Credential(current, n), version)

SetsLimit(req) ==
  \E a \in Apis : req \in {Post(Plugin(a, RateLimiting, current), version),
                           Patch(Plugin(a, RateLimiting, current), version)}

(* Line 97 deletes some plugin of the API. *)
TakesLimit(req) ==
  \E k \in Keys, a \in DOMAIN Limits[version][current] :
    /\ k[1] = "plugin" /\ k[2] = a /\ req = Delete(k)
    /\ Limits[version][current][a] = "absent"

Rightful(req) ==
  \/ stage = "absent" /\ RemovesAbsent(req)
  \/ stage = "groups" /\ req = Post(Consumer(current), version)
  \/ stage = "credential" /\ ChangesGroup(req)
  \/ stage = "limits" /\ (\/ CreatesCredential(req) \/ UpdatesCredential(req)
                          \/ SetsLimit(req) \/ TakesLimit(req))

PendingRightful == \A req \in pending : Rightful(req)

(* The credential that is about to be created is not one too many yet. *)
RoomForOne ==
  \A req \in pending :
    CreatesCredential(req) => Cardinality(SavedCredentials(current)) <= faults

TokensAre == \A k \in tokens : k[1] = "jwt"

(* TypeOK without its conjunct on requests, which the other parts imply. *)
TypesOK ==
  /\ kong \in [Keys -> Values]
  /\ CountersOK
  /\ stage \in {"idle", "absent", "next", "groups", "credential", "limits",
                "done", "failed"}
  /\ version \in Versions
  /\ todo \subseteq Consumers
  /\ current \in Consumers \union {Nobody}
  /\ limits \subseteq Apis
  /\ tokens \subseteq Keys

BaseInv == /\ TypesOK /\ Placed /\ PendingRightful /\ CredentialsPerFault
           /\ RoomForOne /\ TokensAre

(* No release takes away a rate limit and sets another on the same API. *)
LimitsApart ==
  \A v \in Versions : \A c, d \in InputConsumers(v) :
    \A a \in DOMAIN Limits[v][c] \intersect DOMAIN Limits[v][d] :
      Limits[v][c][a] = "absent" => Limits[v][d][a] # "present"

GroupsRight(c) ==
  \A g \in Groups : Present(Group(c, g)) <=> g \in InputGroups[version][c]

LimitRight(c, a) ==
  Limits[version][c][a] = "present" => kong[Plugin(a, RateLimiting, c)] = version

Saved(c) ==
  /\ Present(Consumer(c)) /\ GroupsRight(c) /\ SavedCredentials(c) # {}
  /\ \A a \in DOMAIN Limits[version][c] : LimitRight(c, a)

(* Consumers that are marked absent are gone, or on their way. *)
AbsentGone ==
  /\ stage = "absent" =>
       \A c \in Consumers \ InputConsumers(version) :
         \/ c \in todo \/ ~Present(Consumer(c))
         \/ \E req \in pending : req.key = Consumer(c)
  /\ stage \in Loop \union {"done"} =>
       \A c \in Consumers \ InputConsumers(version) : ~Present(Consumer(c))

(* Consumers that have been dealt with are right. *)
Dealt ==
  stage \in Loop \union {"done"} =>
    \A c \in InputConsumers(version) :
      c \in todo \/ Saved(c) \/ (stage \in AtConsumer /\ c = current)

(* So much of the consumer at hand is right, or on its way. *)
Underway(k) == \E req \in pending : req.key = k

CurrentRight ==
  /\ stage \in {"groups", "credential"} => limits = DOMAIN Limits[version][current]
  /\ stage = "groups" => Present(Consumer(current)) \/ Underway(Consumer(current))
  /\ stage \in {"credential", "limits"} => Present(Consumer(current))
  /\ stage = "credential" =>
       \A g \in Groups :
         \/ Present(Group(current, g)) <=> g \in InputGroups[version][current]
         \/ Underway(Group(current, g))
  /\ stage = "limits" =>
       /\ GroupsRight(current)
       /\ \/ SavedCredentials(current) # {}
          \/ \E req \in pending : CreatesCredential(req)
       /\ \A a \in DOMAIN Limits[version][current] \ limits :
            LimitRight(current, a) \/ Underway(Plugin(a, RateLimiting, current))

ConvergeInv == AbsentGone /\ Dealt /\ CurrentRight

(* The consumer an entity is about. *)
Whose(k) == IF k[1] = "plugin" THEN k[4] ELSE k[2]

(* A plugin of an API on which the input takes a rate limit away. *)
GivenUp(k) ==
  /\ k[1] = "plugin"
  /\ \E c \in InputConsumers(version) :
       k[2] \in DOMAIN Limits[version][c] /\ Limits[version][c][k[2]] = "absent"
-----------------------------------------------------------------------------
(* The input and the credentials *)
LEMMA InputsAre ==
  ASSUME version \in Versions
  PROVE  /\ InputConsumers(version) \subseteq Consumers
         /\ \A c \in InputConsumers(version) :
              /\ InputGroups[version][c] \subseteq Groups
              /\ DOMAIN Limits[version][c] \subseteq Apis
              /\ \A a \in DOMAIN Limits[version][c] :
                   Limits[version][c][a] \in {"present", "absent"}
  BY InputGroupsAssumption, LimitsAssumption DEF InputConsumers

LEMMA SavedAre ==
  ASSUME NEW c \in Consumers, NEW k \in SavedCredentials(c)
  PROVE  /\ k[3] \in 1 .. MaxCredentials /\ k = Credential(c, k[3])
         /\ k \in Keys /\ Present(k)
<1>1. k \in Keys /\ k[1] = "jwt" /\ k[2] = c /\ Present(k)
  BY DEF SavedCredentials
<1>2. PICK d \in Consumers, n \in 1 .. MaxCredentials : k = Credential(d, n)
  BY <1>1, KeyKinds, ApiIs, PluginIs, ConsumerIs, GroupIs
<1>3. k[3] = n /\ d = c
  BY <1>1, <1>2, CredentialIs
<1> QED BY <1>1, <1>2, <1>3

LEMMA AreSaved ==
  ASSUME NEW c \in Consumers, NEW n \in 1 .. MaxCredentials, Present(Credential(c, n))
  PROVE  Credential(c, n) \in SavedCredentials(c)
  BY AreKeys, CredentialIs DEF SavedCredentials

LEMMA SavedFinite ==
  ASSUME NEW c \in Consumers
  PROVE  IsFiniteSet(SavedCredentials(c)) /\ Cardinality(SavedCredentials(c)) \in Nat
<1> DEFINE f == [k \in SavedCredentials(c) |-> k[3]]
<1>1. f \in Injection(SavedCredentials(c), 1 .. MaxCredentials)
  <2>1. f \in [SavedCredentials(c) -> 1 .. MaxCredentials]
    BY SavedAre
  <2>2. ASSUME NEW k \in SavedCredentials(c), NEW l \in SavedCredentials(c), f[k] = f[l]
        PROVE  k = l
    <3>1. k[3] = l[3]
      BY <2>2
    <3> QED BY <3>1, SavedAre
  <2> HIDE DEF f
  <2> QED BY <2>1, <2>2 DEF Injection, IsInjective
<1>2. IsFiniteSet(1 .. MaxCredentials)
  BY FS_Interval, BoundsAssumption
<1> HIDE DEF f
<1>3. IsFiniteSet(SavedCredentials(c))
  BY <1>1, <1>2, FS_Injection
<1> QED BY <1>3, FS_CardinalityType

(* A consumer with no more credentials than there were faults has room.    *)
LEMMA RoomIsFree ==
  ASSUME NEW c \in Consumers, CountersOK, Cardinality(SavedCredentials(c)) <= faults
  PROVE  FreeCredentials(c) # {}
<1> SUFFICES ASSUME FreeCredentials(c) = {} PROVE FALSE
  OBVIOUS
<1> DEFINE f == [n \in 1 .. MaxCredentials |-> Credential(c, n)]
<1>1. \A n \in 1 .. MaxCredentials : Present(Credential(c, n))
  BY DEF FreeCredentials
<1>2. f \in Injection(1 .. MaxCredentials, SavedCredentials(c))
  <2>1. f \in [1 .. MaxCredentials -> SavedCredentials(c)]
    BY <1>1, AreSaved
  <2>2. ASSUME NEW m \in 1 .. MaxCredentials, NEW n \in 1 .. MaxCredentials, f[m] = f[n]
        PROVE  m = n
    <3>1. Credential(c, m) = Credential(c, n)
      BY <2>2
    <3> QED BY <3>1, CredentialIs
  <2> HIDE DEF f
  <2> QED BY <2>1, <2>2 DEF Injection, IsInjective
<1> HIDE DEF f
<1>3. Cardinality(1 .. MaxCredentials) <= Cardinality(SavedCredentials(c))
  BY <1>2, SavedFinite, FS_Injection
<1>4. Cardinality(1 .. MaxCredentials) = MaxCredentials
  BY FS_Interval, BoundsAssumption
<1> QED BY <1>3, <1>4, SavedFinite, CredentialsAssumption, BoundsAssumption DEF CountersOK

-----------------------------------------------------------------------------
(* What a pending request is about *)
LEMMA CreatesIs ==
  ASSUME NEW req, CreatesCredential(req)
  PROVE  /\ req.method = "POST" /\ req.value = version
         /\ req.key[1] = "jwt" /\ req.key[2] = current
  BY PostIs, CredentialIs DEF CreatesCredential

LEMMA RequestIs ==
  ASSUME BaseInv, NEW req \in pending
  PROVE  /\ WellFormed(req) /\ Target(req) \in Keys
         /\ CreatesCredential(req) =>
              \E n \in 1 .. MaxCredentials : Target(req) = Credential(current, n)
         /\ ~CreatesCredential(req) => Target(req) = req.key
         /\ stage \in {"absent"} \union AtConsumer
         /\ stage = "absent" => RemovesAbsent(req)
         /\ stage = "groups" => req = Post(Consumer(current), version)
         /\ stage = "credential" => ChangesGroup(req)
         /\ stage = "limits" =>
              CreatesCredential(req) \/ UpdatesCredential(req)
                \/ SetsLimit(req) \/ TakesLimit(req)
         /\ req.method = "DELETE" /\ stage # "absent" => Owners(Target(req)) # {}
         /\ req.key[1] = "jwt" => Target(req)[1] = "jwt" /\ Target(req)[2] = current
         /\ req.method = "DELETE" => req.key[1] # "jwt"
<1>1. /\ TypesOK /\ Placed /\ Rightful(req) /\ version \in Versions
      /\ (CreatesCredential(req) => Cardinality(SavedCredentials(current)) <= faults)
  BY DEF BaseInv, PendingRightful, RoomForOne, TypesOK
<1>2. \A c \in InputConsumers(version) :
        c \in Consumers /\ InputGroups[version][c] \subseteq Groups
  BY <1>1, InputsAre
<1>3. stage \in AtConsumer => current \in Consumers /\ current \in InputConsumers(version)
  BY <1>1, <1>2 DEF Placed
<1> DEFINE Kind == /\ WellFormed(req) /\ Target(req) \in Keys
                   /\ (CreatesCredential(req) =>
                        \E n \in 1 .. MaxCredentials : Target(req) = Credential(current, n))
                   /\ (~CreatesCredential(req) => Target(req) = req.key)
                   /\ (req.method = "DELETE" /\ stage # "absent" => Owners(Target(req)) # {})
                   /\ (req.key[1] = "jwt" => Target(req)[1] = "jwt" /\ Target(req)[2] = current)
                   /\ (req.method = "DELETE" => req.key[1] # "jwt")
<1>4. CASE stage = "absent" /\ RemovesAbsent(req)
  <2>1. PICK c \in Consumers \ InputConsumers(version) : req = Delete(Consumer(c))
    BY <1>4 DEF RemovesAbsent
  <2>2. /\ req.method = "DELETE" /\ req.key = Consumer(c) /\ req.value = Absent
        /\ Consumer(c) \in Keys /\ Consumer(c)[1] = "consumer"
    BY <2>1, DeleteIs, AreKeys, ConsumerIs
  <2>3. ~CreatesCredential(req) /\ Target(req) = req.key
    BY <2>2, TargetIs, CreatesIs
  <2>4. Kind
    BY <1>4, <2>2, <2>3 DEF WellFormed
  <2> QED BY <1>4, <2>4
<1>5. CASE stage = "groups" /\ req = Post(Consumer(current), version)
  <2>1. /\ req.method = "POST" /\ req.key = Consumer(current) /\ req.value = version
        /\ Consumer(current) \in Keys /\ Consumer(current)[1] = "consumer"
    BY <1>3, <1>5, PostIs, AreKeys, ConsumerIs DEF AtConsumer
  <2>2. ~CreatesCredential(req) /\ Target(req) = req.key
    BY <2>1, TargetIs, CreatesIs
  <2>3. Kind
    BY <1>1, <2>1, <2>2 DEF WellFormed
  <2> QED BY <1>5, <2>3 DEF AtConsumer
<1>6. CASE stage = "credential" /\ ChangesGroup(req)
  <2>1. PICK g \in Groups : \/ req = Post(Group(current, g), version)
                            \/ req = Delete(Group(current, g))
    BY <1>2, <1>3, <1>6 DEF ChangesGroup, AtConsumer
  <2>2. /\ req.key = Group(current, g) /\ WellFormed(req)
        /\ Group(current, g) \in Keys /\ Group(current, g)[1] = "group"
        /\ Owners(Group(current, g)) # {}
    <3>1. /\ Group(current, g) \in Keys /\ Group(current, g)[1] = "group"
          /\ Owners(Group(current, g)) # {}
      BY <1>3, <1>6, AreKeys, GroupIs DEF AtConsumer
    <3>2. req.key = Group(current, g) /\ WellFormed(req)
      BY <1>1, <2>1, PostIs, DeleteIs DEF WellFormed
    <3> QED BY <3>1, <3>2
  <2>3. ~CreatesCredential(req) /\ Target(req) = req.key
    BY <2>2, TargetIs, CreatesIs
  <2>4. Kind
    BY <2>2, <2>3
  <2> QED BY <1>6, <2>4 DEF AtConsumer
<1>7. CASE stage = "limits" /\ CreatesCredential(req)
  <2>1. FreeCredentials(current) # {}
    BY <1>1, <1>3, <1>7, RoomIsFree DEF TypesOK, AtConsumer
  <2>2. Target(req) = Credential(current, CHOOSE n \in FreeCredentials(current) : TRUE)
    BY <1>7, CreatesIs DEF Target
  <2>3. PICK n \in 1 .. MaxCredentials : Target(req) = Credential(current, n)
    <3>1. (CHOOSE n \in FreeCredentials(current) : TRUE) \in FreeCredentials(current)
      BY <2>1
    <3> QED BY <2>2, <3>1 DEF FreeCredentials
  <2>4. Target(req) \in Keys /\ Target(req)[1] = "jwt" /\ Target(req)[2] = current
    BY <1>3, <1>7, <2>3, AreKeys, CredentialIs DEF AtConsumer
  <2>5. WellFormed(req) /\ req.method # "DELETE"
    BY <1>1, <1>7, CreatesIs DEF WellFormed
  <2>6. Kind
    BY <1>7, <2>3, <2>4, <2>5
  <2> QED BY <1>7, <2>6 DEF AtConsumer
<1>8. CASE stage = "limits" /\ UpdatesCredential(req)
  <2>1. PICK n \in 1 .. MaxCredentials : req = Patch(Credential(current, n), version)
    BY <1>8 DEF UpdatesCredential
  <2>2. /\ req.method = "PATCH" /\ req.key = Credential(current, n) /\ req.value = version
        /\ req.key \in Keys /\ req.key[1] = "jwt" /\ req.key[2] = current
    BY <1>3, <1>8, <2>1, PatchIs, AreKeys, CredentialIs DEF AtConsumer
  <2>3. ~CreatesCredential(req) /\ Target(req) = req.key
    BY <2>2, TargetIs, CreatesIs
  <2>4. Kind
    BY <1>1, <2>2, <2>3 DEF WellFormed
  <2> QED BY <1>8, <2>4 DEF AtConsumer
<1>9. CASE stage = "limits" /\ SetsLimit(req)
  <2>1. PICK a \in Apis : req \in {Post(Plugin(a, RateLimiting, current), version),
                                   Patch(Plugin(a, RateLimiting, current), version)}
    BY <1>9 DEF SetsLimit
  <2>2. /\ req.method \in {"POST", "PATCH"} /\ req.value = version
        /\ req.key = Plugin(a, RateLimiting, current)
        /\ req.key \in Keys /\ req.key[1] = "plugin"
    BY <1>3, <1>9, <2>1, PostIs, PatchIs, AreKeys, PluginIs, RateLimitingAssumption
       DEF AtConsumer
  <2>3. ~CreatesCredential(req) /\ Target(req) = req.key
    BY <2>2, TargetIs, CreatesIs
  <2>4. Kind
    BY <1>1, <2>2, <2>3 DEF WellFormed
  <2> QED BY <1>9, <2>4 DEF AtConsumer
<1>10. CASE stage = "limits" /\ TakesLimit(req)
  <2>1. PICK k \in Keys : k[1] = "plugin" /\ req = Delete(k)
    BY <1>10 DEF TakesLimit
  <2>2. req.method = "DELETE" /\ req.key = k /\ req.value = Absent
    BY <2>1, DeleteIs
  <2>3. ~CreatesCredential(req) /\ Target(req) = req.key
    BY <2>1, <2>2, TargetIs, CreatesIs
  <2>4. Owners(k) # {}
    BY <2>1 DEF Owners
  <2>5. Kind
    BY <2>1, <2>2, <2>3, <2>4 DEF WellFormed
  <2> QED BY <1>10, <2>5 DEF AtConsumer
<1> QED BY <1>1, <1>4, <1>5, <1>6, <1>7, <1>8, <1>9, <1>10 DEF Rightful

(* While absent consumers are removed, a request takes one of them and     *)
(* what it owns; later it changes its target only.                         *)
LEMMA RemovalEffect ==
  ASSUME BaseInv, NEW req \in pending, Effect(req), stage = "absent"
  PROVE  \E c \in Consumers \ InputConsumers(version) :
           /\ req.key = Consumer(c)
           /\ \A k \in Keys : kong'[k] = IF k = Consumer(c) \/ Consumer(c) \in Owners(k)
                                         THEN Absent ELSE kong[k]
<1>1. PICK c \in Consumers \ InputConsumers(version) : req = Delete(Consumer(c))
  BY RequestIs DEF RemovesAbsent
<1>2. req.key = Consumer(c) /\ req.method = "DELETE" /\ req.value = Absent
  BY <1>1, DeleteIs
<1>3. Target(req) = Consumer(c)
  BY <1>2, TargetIs
<1> QED BY <1>2, <1>3, EffectOn

LEMMA SingleEffect ==
  ASSUME BaseInv, NEW req \in pending, Effect(req), stage # "absent", NEW k \in Keys
  PROVE  kong'[k] = IF k = Target(req) THEN req.value ELSE kong[k]
<1>1. req.method = "DELETE" => Target(req) \notin Owners(k)
  BY RequestIs, OwnersAre
<1> QED BY <1>1, EffectOn

-----------------------------------------------------------------------------
(* Credentials come with the one request that creates one. *)
LEMMA EffectOnCredentials ==
  ASSUME BaseInv, NEW req \in pending, Accepted(req), Effect(req), NEW c \in Consumers
  PROVE  /\ CreatesCredential(req) /\ c = current
              => SavedCredentials(c)' \subseteq SavedCredentials(c) \union {Target(req)}
         /\ ~(CreatesCredential(req) /\ c = current)
              => SavedCredentials(c)' \subseteq SavedCredentials(c)
<1>1. ASSUME NEW k \in SavedCredentials(c)', k \notin SavedCredentials(c)
      PROVE  k = Target(req) /\ CreatesCredential(req) /\ c = current
  <2>1. k \in Keys /\ k[1] = "jwt" /\ k[2] = c /\ kong'[k] # Absent /\ kong[k] = Absent
    BY <1>1 DEF SavedCredentials, Present
  <2>2. stage # "absent"
    BY <2>1, RemovalEffect
  <2>3. k = Target(req)
    BY <2>1, <2>2, SingleEffect
  <2>4. ~CreatesCredential(req) => req.key = k /\ req.method = "POST"
    <3>1. req.method \in {"POST", "PATCH", "DELETE"}
          /\ (req.method = "DELETE" => req.key[1] # "jwt")
      BY RequestIs DEF WellFormed
    <3>2. ~CreatesCredential(req) => req.key = k
      BY <2>3, RequestIs
    <3>3. req.method = "PATCH" /\ req.key = k => FALSE
      BY <2>1 DEF Accepted, Present
    <3> QED BY <2>1, <3>1, <3>2, <3>3
  <2>5. CreatesCredential(req)
    <3> SUFFICES ASSUME ~CreatesCredential(req) PROVE FALSE
      OBVIOUS
    <3>1. req.key = k /\ req.method = "POST" /\ req.key[1] = "jwt"
      BY <2>1, <2>4
    <3>2. CASE stage = "groups"
      BY <3>1, <3>2, RequestIs, PostIs, ConsumerIs
    <3>3. CASE stage = "credential"
      <4>1. ChangesGroup(req)
        BY <3>3, RequestIs
      <4> QED BY <3>1, <4>1, PostIs, DeleteIs, GroupIs DEF ChangesGroup
    <3>4. CASE stage = "limits"
      <4>1. UpdatesCredential(req) \/ SetsLimit(req) \/ TakesLimit(req)
        BY <3>4, RequestIs
      <4> QED BY <3>1, <4>1, PostIs, PatchIs, DeleteIs, PluginIs
              DEF UpdatesCredential, SetsLimit, TakesLimit
    <3> QED BY <2>2, <3>2, <3>3, <3>4, RequestIs DEF AtConsumer
  <2>6. c = current
    BY <2>1, <2>3, <2>5, RequestIs, CredentialIs
  <2> QED BY <2>3, <2>5, <2>6
<1> QED BY <1>1

-----------------------------------------------------------------------------
(* BaseInv, step by step *)
LEMMA InitBase == Init => BaseInv
<1> SUFFICES ASSUME Init PROVE BaseInv
  OBVIOUS
<1>1. TypesOK
  BY BoundsAssumption DEF Init, TypesOK, CountersOK, Values
<1>2. \A c \in Consumers : SavedCredentials(c) = {}
  <2> SUFFICES ASSUME NEW c \in Consumers, NEW k \in SavedCredentials(c) PROVE FALSE
    OBVIOUS
  <2>1. k \in Keys /\ k[1] = "jwt" /\ Present(k)
    BY DEF SavedCredentials
  <2>2. k \in Deployed
    BY <2>1 DEF Init, Present
  <2> QED BY <2>1, <2>2, DeployedAssumption
<1>3. CredentialsPerFault
  BY <1>2, FS_EmptySet DEF Init, CredentialsPerFault
<1> QED BY <1>1, <1>3 DEF Init, BaseInv, Placed, PendingRightful, RoomForOne, TokensAre,
           Loop, AtConsumer

(* Steps that send nothing keep what is in Kong. *)
LEMMA CredentialsStay ==
  ASSUME CredentialsPerFault, UNCHANGED <<kong, faults>>
  PROVE  CredentialsPerFault' /\ \A c : SavedCredentials(c)' = SavedCredentials(c)
  BY DEF CredentialsPerFault, SavedCredentials, Present

LEMMA StartBase ==
  ASSUME BaseInv, NEW v \in Versions, Start(v)
  PROVE  BaseInv'
<1>1. /\ stage \in {"idle", "done", "failed"} /\ stage' = "absent" /\ version' = v
      /\ todo' = Consumers \ InputConsumers(v)
      /\ UNCHANGED <<kong, faults, pending, tries, current, limits, tokens>>
  BY DEF Start, Running
<1>2. pending = {}
  BY <1>1, RequestIs DEF AtConsumer
<1>3. TypesOK'
  BY <1>1 DEF BaseInv, TypesOK, CountersOK, Values
<1>4. CredentialsPerFault'
  BY <1>1, CredentialsStay DEF BaseInv
<1> QED BY <1>1, <1>2, <1>3, <1>4 DEF BaseInv, Placed, PendingRightful, RoomForOne, TokensAre,
           Loop, AtConsumer, InputConsumers

LEMMA RemoveConsumerBase ==
  ASSUME BaseInv, NEW c \in Consumers, RemoveConsumer(c)
  PROVE  BaseInv'
<1>1. /\ stage = "absent" /\ pending = {} /\ stage' = "absent" /\ todo' = todo \ {c}
      /\ pending' \subseteq {Delete(Consumer(c))}
      /\ UNCHANGED <<kong, faults, tries, version, current, limits, tokens>>
  BY DEF RemoveConsumer
<1>2. c \in todo /\ c \notin InputConsumers(version)
  BY DEF RemoveConsumer, BaseInv, Placed
<1>3. TypesOK'
  BY <1>1 DEF BaseInv, TypesOK, CountersOK, Values
<1>4. CredentialsPerFault'
  BY <1>1, CredentialsStay DEF BaseInv
<1>5. PendingRightful'
  BY <1>1, <1>2 DEF PendingRightful, Rightful, RemovesAbsent, InputConsumers
<1>6. RoomForOne'
  BY <1>1, CreatesIs, DeleteIs DEF RoomForOne, CreatesCredential, Delete, Post
<1> QED BY <1>1, <1>3, <1>4, <1>5, <1>6 DEF BaseInv, Placed, TokensAre, Loop, AtConsumer,
           InputConsumers

LEMMA AllRemovedBase ==
  ASSUME BaseInv, AllRemoved
  PROVE  BaseInv'
<1>1. /\ stage = "absent" /\ pending = {} /\ stage' \in {"next", "done"}
      /\ stage' = "done" => todo' = {}
      /\ todo' = InputConsumers(version)
      /\ UNCHANGED <<kong, faults, pending, tries, version, current, limits, tokens>>
  BY DEF AllRemoved
<1>2. TypesOK'
  BY <1>1, InputsAre DEF BaseInv, TypesOK, CountersOK, Values
<1>3. CredentialsPerFault'
  BY <1>1, CredentialsStay DEF BaseInv
<1> QED BY <1>1, <1>2, <1>3 DEF BaseInv, Placed, PendingRightful, RoomForOne, TokensAre,
           Loop, AtConsumer, InputConsumers

LEMMA EnsureConsumerBase ==
  ASSUME BaseInv, NEW c \in Consumers, EnsureConsumer(c)
  PROVE  BaseInv'
<1>1. /\ stage = "next" /\ pending = {} /\ c \in todo /\ stage' = "groups"
      /\ pending' \subseteq {Post(Consumer(c), version)}
      /\ todo' = todo \ {c} /\ current' = c /\ limits' = DOMAIN Limits[version][c]
      /\ UNCHANGED <<kong, faults, tries, version, tokens>>
  BY DEF EnsureConsumer
<1>2. c \in InputConsumers(version) /\ todo \subseteq InputConsumers(version)
  BY <1>1 DEF BaseInv, Placed, Loop
<1>3. TypesOK'
  BY <1>1, <1>2, InputsAre DEF BaseInv, TypesOK, CountersOK, Values
<1>4. CredentialsPerFault'
  BY <1>1, CredentialsStay DEF BaseInv
<1>5. PendingRightful'
  BY <1>1 DEF PendingRightful, Rightful
<1>6. RoomForOne'
  <2>1. Post(Consumer(c), version).key[1] # "jwt"
    BY PostIs, ConsumerIs
  <2>2. \A req \in pending' : req.key[1] # "jwt"
    BY <1>1, <2>1
  <2>3. \A req : CreatesCredential(req)' => req.key[1] = "jwt"
    BY PostIs, CredentialIs DEF CreatesCredential
  <2> QED BY <2>2, <2>3 DEF RoomForOne
<1>7. Placed'
  BY <1>1, <1>2 DEF Placed, Loop, AtConsumer, InputConsumers
<1> QED BY <1>1, <1>3, <1>4, <1>5, <1>6, <1>7 DEF BaseInv, TokensAre

(* A list read for the consumer at hand: the script fails, or goes on with *)
(* the requests it decided on.                                             *)
LEMMA ReadBase ==
  ASSUME BaseInv, NEW owner, NEW requests, NEW next \in {"credential", "limits"},
         Read(owner, requests, next), stage \in AtConsumer,
         UNCHANGED <<version, todo, current, tokens>>, limits' \subseteq limits,
         \A req \in requests :
           \/ next = "credential" /\ ChangesGroup(req)
           \/ next = "limits" /\ (\/ CreatesCredential(req) \/ UpdatesCredential(req)
                                  \/ SetsLimit(req) \/ TakesLimit(req)),
         \A req \in requests :
           CreatesCredential(req) => Cardinality(SavedCredentials(current)) <= faults
  PROVE  BaseInv'
<1>1. /\ pending = {} /\ UNCHANGED <<kong, faults, tries>>
      /\ \/ stage' = "failed" /\ pending' = {}
         \/ stage' = next /\ pending' = requests
  BY DEF Read
<1>2. TypesOK'
  BY <1>1 DEF BaseInv, TypesOK, CountersOK, Values
<1>3. CredentialsPerFault' /\ SavedCredentials(current)' = SavedCredentials(current)
  BY <1>1, CredentialsStay DEF BaseInv
<1>4. PendingRightful'
  BY <1>1 DEF PendingRightful, Rightful, ChangesGroup, CreatesCredential,
              UpdatesCredential, SetsLimit, TakesLimit, InputConsumers
<1>5. RoomForOne'
  BY <1>1, <1>3 DEF RoomForOne, CreatesCredential, SavedCredentials, Present
<1>6. Placed'
  BY <1>1 DEF BaseInv, Placed, Loop, AtConsumer, InputConsumers
<1> QED BY <1>2, <1>3, <1>4, <1>5, <1>6 DEF BaseInv, TokensAre

LEMMA SaveGroupsBase ==
  ASSUME BaseInv, SaveGroups
  PROVE  BaseInv'
<1> DEFINE wanted == {Group(current, g) : g \in InputGroups[version][current]}
           requests == GroupRequests(wanted, SavedGroups(current))
<1>1. /\ stage = "groups" /\ UNCHANGED <<version, todo, current, limits, tokens>>
      /\ Read(Consumer(current), requests, "credential")
  BY DEF SaveGroups, script
<1>2. /\ current \in InputConsumers(version)
      /\ InputGroups[version][current] \subseteq Groups
  BY <1>1, InputsAre DEF BaseInv, Placed, AtConsumer, TypesOK
<1>3. ASSUME NEW req \in requests
      PROVE  ChangesGroup(req)
  <2>1. CASE \E k \in wanted \ SavedGroups(current) : req = Post(k, version)
    BY <2>1 DEF ChangesGroup
  <2>2. CASE \E k \in SavedGroups(current) \ wanted : req = Delete(k)
    <3>1. PICK k \in SavedGroups(current) \ wanted : req = Delete(k)
      BY <2>2
    <3>2. k \in Keys /\ k[1] = "group" /\ k[2] = current
      BY <3>1 DEF SavedGroups
    <3>3. PICK d \in Consumers, g \in Groups : k = Group(d, g)
      BY <3>2, KeyKinds, ApiIs, PluginIs, ConsumerIs, CredentialIs
    <3>4. d = current
      BY <3>2, <3>3, GroupIs
    <3> QED BY <3>1, <3>3, <3>4 DEF ChangesGroup
  <2> QED BY <2>1, <2>2 DEF GroupRequests
<1>4. \A req \in requests : ~CreatesCredential(req)
  <2>1. ASSUME NEW req, ChangesGroup(req)
        PROVE  req.key[1] = "group"
    BY <2>1, PostIs, DeleteIs, GroupIs DEF ChangesGroup
  <2> QED BY <1>3, <2>1, CreatesIs
<1> HIDE DEF requests
<1> QED BY <1>1, <1>3, <1>4, ReadBase DEF AtConsumer

LEMMA SaveCredentialBase ==
  ASSUME BaseInv, SaveCredential
  PROVE  BaseInv'
<1>1. PICK requests \in CredentialRequests(current) :
             Read(Consumer(current), requests, "limits")
  BY DEF SaveCredential
<1>2. stage = "credential" /\ UNCHANGED <<version, todo, current, limits, tokens>>
  BY DEF SaveCredential, script
<1>3. current \in Consumers /\ faults \in Nat
  BY <1>2, InputsAre DEF BaseInv, Placed, AtConsumer, TypesOK, CountersOK
<1>4. \A req \in requests :
        /\ CreatesCredential(req) \/ UpdatesCredential(req)
        /\ CreatesCredential(req) => Cardinality(SavedCredentials(current)) <= faults
  <2>1. CASE SavedCredentials(current) = {}
    <3>1. Cardinality(SavedCredentials(current)) <= faults
      BY <1>3, <2>1, FS_EmptySet
    <3> QED BY <1>1, <2>1, <3>1 DEF CredentialRequests, CreatesCredential
  <2>2. CASE SavedCredentials(current) # {}
    <3>1. PICK first \in SavedCredentials(current) : requests = {Patch(first, version)}
      BY <1>1, <2>2 DEF CredentialRequests
    <3>2. PICK n \in 1 .. MaxCredentials : first = Credential(current, n)
      BY <1>3, <3>1, SavedAre
    <3>3. Patch(first, version).method # "POST"
      BY PatchIs
    <3> QED BY <3>1, <3>2, <3>3, CreatesIs DEF UpdatesCredential
  <2> QED BY <2>1, <2>2
<1> QED BY <1>1, <1>2, <1>4, ReadBase DEF AtConsumer

LEMMA SaveLimitBase ==
  ASSUME BaseInv, NEW a \in Apis, SaveLimit(a)
  PROVE  BaseInv'
<1>1. PICK requests \in LimitRequests(current, a) : Read(Api(a), requests, "limits")
  BY DEF SaveLimit
<1>2. /\ stage = "limits" /\ a \in limits /\ limits' = limits \ {a}
      /\ UNCHANGED <<version, todo, current, tokens>>
  BY DEF SaveLimit
<1>3. /\ a \in DOMAIN Limits[version][current]
      /\ Limits[version][current][a] \in {"present", "absent"}
  BY <1>2, InputsAre DEF BaseInv, Placed, AtConsumer, TypesOK
<1>4. \A req \in requests : SetsLimit(req) \/ TakesLimit(req)
  <2>1. CASE Limits[version][current][a] = "present"
    <3>1. requests = {IF Present(Plugin(a, RateLimiting, current))
                      THEN Patch(Plugin(a, RateLimiting, current), version)
                      ELSE Post(Plugin(a, RateLimiting, current), version)}
      BY <1>1, <2>1 DEF LimitRequests
    <3> QED BY <3>1 DEF SetsLimit
  <2>2. CASE Limits[version][current][a] = "absent"
    <3>1. requests = {} \/ \E last \in ListedOnApi(a) : requests = {Delete(last)}
      BY <1>1, <2>2 DEF LimitRequests
    <3> QED BY <1>3, <2>2, <3>1 DEF ListedOnApi, TakesLimit
  <2> QED BY <1>3, <2>1, <2>2
<1>5. \A req \in requests : ~CreatesCredential(req)
  <2>1. \A req : SetsLimit(req) \/ TakesLimit(req) => req.key[1] = "plugin"
    BY PostIs, PatchIs, DeleteIs, PluginIs DEF SetsLimit, TakesLimit
  <2> QED BY <1>4, <2>1, CreatesIs
<1> QED BY <1>1, <1>2, <1>4, <1>5, ReadBase DEF AtConsumer

LEMMA ConsumerSavedBase ==
  ASSUME BaseInv, ConsumerSaved
  PROVE  BaseInv'
<1>1. /\ stage = "limits" /\ pending = {}
      /\ stage' = IF todo = {} THEN "done" ELSE "next"
      /\ UNCHANGED <<kong, faults, pending, tries, version, todo, current, limits, tokens>>
  BY DEF ConsumerSaved, script
<1>2. TypesOK'
  BY <1>1 DEF BaseInv, TypesOK, CountersOK, Values
<1>3. CredentialsPerFault'
  BY <1>1, CredentialsStay DEF BaseInv
<1>4. Placed'
  BY <1>1 DEF BaseInv, Placed, Loop, AtConsumer, InputConsumers
<1> QED BY <1>1, <1>2, <1>3, <1>4 DEF BaseInv, PendingRightful, RoomForOne, TokensAre
(* One answer makes at most one credential, and only of the consumer at    *)
(* hand, by the request that creates one.                                  *)
LEMMA CredentialsGrow ==
  ASSUME BaseInv, NEW req \in pending, Accepted(req), Effect(req), NEW c \in Consumers
  PROVE  /\ Cardinality(SavedCredentials(c)') \in Nat
         /\ Cardinality(SavedCredentials(c)') <= Cardinality(SavedCredentials(c)) + 1
         /\ ~(CreatesCredential(req) /\ c = current)
              => Cardinality(SavedCredentials(c)') <= Cardinality(SavedCredentials(c))
<1> DEFINE before == SavedCredentials(c)
           after == SavedCredentials(c)'
<1>1. IsFiniteSet(before) /\ Cardinality(before) \in Nat
  BY SavedFinite
<1>2. /\ after \subseteq before \union {Target(req)}
      /\ ~(CreatesCredential(req) /\ c = current) => after \subseteq before
  BY EffectOnCredentials
<1> HIDE DEF before, after
<1>3. /\ IsFiniteSet(before \union {Target(req)})
      /\ Cardinality(before \union {Target(req)}) <= Cardinality(before) + 1
      /\ Cardinality(before \union {Target(req)}) \in Nat
  <2> DEFINE x == Target(req)
  <2> HIDE DEF x
  <2>1. /\ IsFiniteSet(before \union {x})
        /\ Cardinality(before \union {x}) =
             IF x \in before THEN Cardinality(before) ELSE Cardinality(before) + 1
    BY <1>1, FS_AddElement
  <2> QED BY <1>1, <2>1 DEF x
<1>4. Cardinality(after) <= Cardinality(before \union {Target(req)}) /\ Cardinality(after) \in Nat
  BY <1>2, <1>3, FS_Subset, FS_CardinalityType
<1>5. ~(CreatesCredential(req) /\ c = current) => Cardinality(after) <= Cardinality(before)
  BY <1>1, <1>2, FS_Subset
<1>6. Cardinality(after) <= Cardinality(before) + 1
  BY <1>1, <1>3, <1>4
<1> QED BY <1>4, <1>5, <1>6 DEF before, after

(* What an attempt at a request does to the script's own variables. *)
LEMMA SendIs ==
  ASSUME NEW req \in pending, Send(req) \/ SendFails(req)
  PROVE  /\ Answered(req) \/ Rejected(req) \/ Refused(req) \/ Lost(req)
         /\ UNCHANGED <<version, todo, current, limits>>
         /\ \/ tokens' = tokens
            \/ req.key[1] = "jwt" /\ tokens' = tokens \union {Target(req)}
         /\ \/ UNCHANGED <<kong, faults>> 
            \/ UNCHANGED kong /\ faults' = faults + 1
            \/ Accepted(req) /\ Effect(req) /\ faults' = faults + 1
            \/ Accepted(req) /\ Effect(req) /\ faults' = faults /\ pending' = pending \ {req}
         /\ \/ stage' = stage /\ pending' \subseteq pending
            \/ stage' = "failed" /\ pending' = {}
<1>1. CASE Answered(req) /\ Send(req)
  BY <1>1 DEF Answered, Send, script, Rejected
<1>2. CASE Rejected(req) /\ UNCHANGED script
  BY <1>2 DEF Rejected, Retry, script
<1>3. CASE Refused(req) /\ UNCHANGED script
  BY <1>3 DEF Refused, Retry, Fault, script
<1>4. CASE Lost(req) /\ UNCHANGED script
  BY <1>4 DEF Lost, Retry, Fault, script
<1> QED BY <1>1, <1>2, <1>3, <1>4 DEF Send, SendFails

(* A credential is only created for a consumer of the input. *)
LEMMA CreatedAt ==
  ASSUME BaseInv, NEW r \in pending, CreatesCredential(r)
  PROVE  current \in Consumers /\ Cardinality(SavedCredentials(current)) <= faults
<1>1. stage # "absent"
  BY RequestIs, CreatesIs, DeleteIs DEF RemovesAbsent
<1>2. stage \in AtConsumer /\ version \in Versions
  BY <1>1, RequestIs DEF BaseInv, TypesOK
<1>3. current \in Consumers
  BY <1>2, InputsAre DEF BaseInv, Placed
<1> QED BY <1>3 DEF BaseInv, RoomForOne

LEMMA AttemptBase ==
  ASSUME BaseInv, NEW req \in pending, Send(req) \/ SendFails(req)
  PROVE  BaseInv'
<1>1. /\ UNCHANGED <<version, todo, current, limits>>
      /\ \/ tokens' = tokens
         \/ req.key[1] = "jwt" /\ tokens' = tokens \union {Target(req)}
      /\ \/ stage' = stage /\ pending' \subseteq pending
         \/ stage' = "failed" /\ pending' = {}
  BY SendIs
<1>2. /\ WellFormed(req) /\ Target(req) \in Keys
      /\ req.key[1] = "jwt" => Target(req)[1] = "jwt"
      /\ stage \in {"absent"} \union AtConsumer
  BY RequestIs
<1>3. TypesOK'
  <2>1. CountersOK'
    BY SendIs, AttemptCounts DEF BaseInv, TypesOK
  <2>2. kong' \in [Keys -> Values]
    <3>1. UNCHANGED kong \/ Effect(req)
      BY SendIs
    <3> QED BY <1>2, <3>1, EffectType DEF BaseInv, TypesOK, Values
  <2> QED BY <1>1, <1>2, <2>1, <2>2 DEF BaseInv, TypesOK
<1>4. Placed'
  BY <1>1, <1>2 DEF BaseInv, Placed, Loop, AtConsumer, InputConsumers
<1>5. PendingRightful'
  BY <1>1 DEF BaseInv, PendingRightful, Rightful, RemovesAbsent, ChangesGroup,
     CreatesCredential, UpdatesCredential, SetsLimit, TakesLimit, InputConsumers
<1>6. TokensAre'
  BY <1>1, <1>2 DEF BaseInv, TokensAre
<1>7. faults \in Nat /\ \A c \in Consumers : Cardinality(SavedCredentials(c)) \in Nat
  BY SavedFinite DEF BaseInv, TypesOK, CountersOK
<1>8. ASSUME NEW r \in pending', CreatesCredential(r)'
      PROVE  /\ r \in pending /\ CreatesCredential(r) /\ current \in Consumers
             /\ Cardinality(SavedCredentials(current)) <= faults
  <2>1. r \in pending /\ CreatesCredential(r)
    BY <1>1, <1>8 DEF CreatesCredential
  <2> QED BY <2>1, CreatedAt
<1>9. CredentialsPerFault' /\ RoomForOne'
  <2>1. CASE UNCHANGED kong /\ faults' \in {faults, faults + 1}
    <3>1. \A c : SavedCredentials(c)' = SavedCredentials(c)
      BY <2>1 DEF SavedCredentials, Present
    <3>2. CredentialsPerFault'
      BY <1>7, <2>1, <3>1 DEF BaseInv, CredentialsPerFault
    <3>3. ASSUME NEW r \in pending', CreatesCredential(r)'
          PROVE  Cardinality(SavedCredentials(current))' <= faults'
      <4>1. /\ current \in Consumers /\ current' = current
            /\ Cardinality(SavedCredentials(current)) <= faults
        BY <1>1, <1>8, <3>3
      <4>2. SavedCredentials(current)' = SavedCredentials(current)
        BY <3>1, <4>1 DEF SavedCredentials
      <4> QED BY <1>7, <2>1, <4>1, <4>2
    <3> QED BY <3>2, <3>3 DEF RoomForOne
  <2>2. CASE /\ Accepted(req) /\ Effect(req)
             /\ \/ faults' = faults + 1
                \/ faults' = faults /\ pending' = pending \ {req}
    <3>1. ASSUME NEW c \in Consumers
          PROVE  /\ Cardinality(SavedCredentials(c)') \in Nat
                 /\ Cardinality(SavedCredentials(c)') <= Cardinality(SavedCredentials(c)) + 1
                 /\ ~(CreatesCredential(req) /\ c = current)
                      => Cardinality(SavedCredentials(c)') <= Cardinality(SavedCredentials(c))
      BY <2>2, CredentialsGrow
    <3>2. CreatesCredential(req) => Cardinality(SavedCredentials(current)) <= faults
      BY CreatedAt
    <3>3. \A c \in Consumers : Cardinality(SavedCredentials(c)) <= 1 + faults
      BY DEF BaseInv, CredentialsPerFault
    <3>4. ASSUME NEW c \in Consumers
          PROVE  Cardinality(SavedCredentials(c)') <= 1 + faults'
      <4>1. CASE CreatesCredential(req) /\ c = current
        BY <1>7, <2>2, <3>1, <3>2, <4>1
      <4>2. CASE ~(CreatesCredential(req) /\ c = current)
        BY <1>7, <2>2, <3>1, <3>3, <4>2
      <4> QED BY <4>1, <4>2
    <3>5. ASSUME NEW r \in pending', CreatesCredential(r)'
          PROVE  Cardinality(SavedCredentials(current))' <= faults'
      <4>1. /\ current \in Consumers /\ current' = current
            /\ Cardinality(SavedCredentials(current)) <= faults
            /\ r \in pending /\ CreatesCredential(r)
        BY <1>1, <1>8, <3>5
      <4>2. faults' = faults => ~CreatesCredential(req)
        <5>1. faults' = faults => r # req
          BY <1>7, <2>2, <3>5
        <5> QED BY <4>1, <5>1 DEF CreatesCredential
      <4>3. Cardinality(SavedCredentials(current)') <= faults'
        BY <1>7, <2>2, <3>1, <4>1, <4>2
      <4> QED BY <4>3, <4>1 DEF SavedCredentials
    <3> QED BY <3>4, <3>5 DEF CredentialsPerFault, RoomForOne
  <2> QED BY <1>7, <2>1, <2>2, SendIs
<1> QED BY <1>3, <1>4, <1>5, <1>6, <1>9 DEF BaseInv
LEMMA AbortBase ==
  ASSUME BaseInv, Aborted
  PROVE  BaseInv'
<1>1. /\ stage' = "failed" /\ pending' = {} /\ faults' = faults + 1
      /\ UNCHANGED <<kong, version, todo, current, limits, tokens>>
  BY DEF Aborted, Abort, Fault, script
<1>2. CountersOK'
  BY AbortCounts DEF Aborted, BaseInv, TypesOK
<1>3. TypesOK'
  BY <1>1, <1>2 DEF BaseInv, TypesOK
<1>4. CredentialsPerFault'
  <2>1. faults \in Nat /\ \A c \in Consumers : Cardinality(SavedCredentials(c)) \in Nat
    BY SavedFinite DEF BaseInv, TypesOK, CountersOK
  <2>2. \A c : SavedCredentials(c)' = SavedCredentials(c)
    BY <1>1 DEF SavedCredentials, Present
  <2> QED BY <1>1, <2>1, <2>2 DEF BaseInv, CredentialsPerFault
<1> QED BY <1>1, <1>3, <1>4 DEF BaseInv, Placed, PendingRightful, RoomForOne, TokensAre,
           Loop, AtConsumer

LEMMA BaseStep ==
  ASSUME BaseInv, [Next]_vars
  PROVE  BaseInv'
<1>1. CASE \E v \in Versions : Start(v)
  BY <1>1, StartBase
<1>2. CASE \E c \in Consumers : RemoveConsumer(c)
  BY <1>2, RemoveConsumerBase
<1>3. CASE AllRemoved
  BY <1>3, AllRemovedBase
<1>4. CASE \E c \in Consumers : EnsureConsumer(c)
  BY <1>4, EnsureConsumerBase
<1>5. CASE SaveGroups
  BY <1>5, SaveGroupsBase
<1>6. CASE SaveCredential
  BY <1>6, SaveCredentialBase
<1>7. CASE \E a \in Apis : SaveLimit(a)
  BY <1>7, SaveLimitBase
<1>8. CASE ConsumerSaved
  BY <1>8, ConsumerSavedBase
<1>9. CASE \E req \in pending : Send(req) \/ SendFails(req)
  BY <1>9, AttemptBase
<1>10. CASE Aborted
  BY <1>10, AbortBase
<1>11. CASE UNCHANGED vars
  BY <1>11 DEF vars, client, script, BaseInv, TypesOK, CountersOK, Placed, PendingRightful,
     Rightful, RemovesAbsent, ChangesGroup, CreatesCredential, UpdatesCredential, SetsLimit,
     TakesLimit, CredentialsPerFault, RoomForOne, SavedCredentials, Present, TokensAre,
     InputConsumers
<1> QED BY <1>1, <1>2, <1>3, <1>4, <1>5, <1>6, <1>7, <1>8, <1>9, <1>10, <1>11 DEF Next

LEMMA BaseAlways == Spec => []BaseInv
<1>1. Init => BaseInv
  BY InitBase
<1>2. BaseInv /\ [Next]_vars => BaseInv'
  BY BaseStep
<1> QED BY <1>1, <1>2, PTL DEF Spec

-----------------------------------------------------------------------------
(* The variables keep their types, and a request is about an entity Kong   *)
(* can hold: a credential is only created while there is room for one      *)
(* (kong_consumers.py:127).                                                *)
THEOREM TypeCorrect == Spec => []TypeOK
<1>1. BaseInv => TypeOK
  <2> SUFFICES ASSUME BaseInv PROVE TypeOK
    OBVIOUS
  <2>1. \A req \in pending : /\ req.method \in {"POST", "PATCH", "DELETE"}
                             /\ Target(req) \in Keys
                             /\ req.value \in Versions \union {Absent}
    BY RequestIs DEF WellFormed
  <2> QED BY <2>1 DEF BaseInv, TypesOK, TypeOK, CountersOK, Values
<1> QED BY <1>1, BaseAlways, PTL

(* A consumer collects one credential, and one more for each answer that   *)
(* was lost, over any number of runs (common.py:39, kong_consumers.py:127). *)
THEOREM CredentialsBounded == Spec => []CredentialsPerFault
<1>1. BaseInv => CredentialsPerFault
  BY DEF BaseInv
<1> QED BY <1>1, BaseAlways, PTL

(* No step takes away a credential whose token was printed, unless its     *)
(* consumer is marked absent in the input (kong_consumers.py:53, :107).    *)
THEOREM TokensStay == Spec => TokensStayValid
<1>1. ASSUME BaseInv, [Next]_vars, NEW k \in tokens, Present(k), ~Present(k)'
      PROVE  k[2] \notin InputConsumers(version)
  <2>1. k \in Keys /\ k[1] = "jwt"
    BY <1>1 DEF BaseInv, TypesOK, TokensAre
  <2>2. kong' # kong
    BY <1>1 DEF Present
  <2>3. PICK req \in pending : Send(req) \/ SendFails(req)
    BY <1>1, <2>2 DEF Next, Start, RemoveConsumer, AllRemoved, EnsureConsumer, SaveGroups,
       SaveCredential, SaveLimit, Read, ConsumerSaved, Aborted, Abort, vars, client
  <2>4. Accepted(req) /\ Effect(req)
    BY <2>2, <2>3, SendIs
  <2>5. kong[k] # Absent /\ kong'[k] = Absent
    BY <1>1 DEF Present
  <2>6. CASE stage = "absent"
    <3>1. PICK c \in Consumers \ InputConsumers(version) :
                 \A l \in Keys : kong'[l] = IF l = Consumer(c) \/ Consumer(c) \in Owners(l)
                                            THEN Absent ELSE kong[l]
      BY <1>1, <2>4, <2>6, RemovalEffect
    <3>2. Consumer(c) \in Owners(k)
      BY <2>1, <2>5, <3>1, ConsumerIs
    <3>3. Consumer(c) = Consumer(k[2])
      BY <2>1, <3>2 DEF Owners
    <3> QED BY <3>1, <3>3, ConsumerIs
  <2>7. CASE stage # "absent"
    <3>1. k = Target(req) /\ req.value = Absent
      BY <1>1, <2>1, <2>4, <2>5, <2>7, SingleEffect
    <3>2. req.method = "DELETE"
      BY <1>1, <3>1, RequestIs, NamesAssumption DEF WellFormed
    <3>3. Target(req) = req.key /\ req.key[1] # "jwt"
      BY <1>1, <3>2, RequestIs, TargetIs
    <3> QED BY <2>1, <3>1, <3>3
  <2> QED BY <2>6, <2>7
<1>2. BaseInv /\ [Next]_vars =>
        [\A k \in tokens : Present(k) /\ ~Present(k)' => k[2] \notin InputConsumers(version)]_vars
  BY <1>1
<1> QED BY <1>2, BaseAlways, PTL DEF Spec, TokensStayValid
-----------------------------------------------------------------------------
(* What a run has made of Kong *)
LEMMA WhoseIs ==
  /\ \A c : Whose(Consumer(c)) = c
  /\ \A c, g : Whose(Group(c, g)) = c
  /\ \A c, n : Whose(Credential(c, n)) = c
  /\ \A a, p, c : Whose(Plugin(a, p, c)) = c
  BY ConsumerIs, GroupIs, CredentialIs, PluginIs DEF Whose

(* After the removals every request is about the consumer at hand, or      *)
(* takes a plugin that no rate limit of the input is.                      *)
LEMMA TargetAt ==
  ASSUME BaseInv, NEW req \in pending, stage # "absent"
  PROVE  /\ stage \in AtConsumer
         /\ current \in Consumers /\ current \in InputConsumers(version)
         /\ Whose(Target(req)) = current \/ GivenUp(Target(req))
         /\ stage = "groups" => Target(req) = Consumer(current) /\ req.value = version
         /\ stage = "credential" =>
              \E g \in Groups :
                /\ Target(req) = Group(current, g) /\ req.key = Group(current, g)
                /\ req.value = IF g \in InputGroups[version][current] THEN version ELSE Absent
         /\ stage = "limits" =>
              /\ req.value = version \/ GivenUp(Target(req))
              /\ Target(req)[1] \in {"jwt", "plugin"}
              /\ CreatesCredential(req) \/ Target(req) = req.key
<1>1. stage \in AtConsumer /\ version \in Versions
  BY RequestIs DEF BaseInv, TypesOK
<1>2. current \in Consumers /\ current \in InputConsumers(version)
  BY <1>1, InputsAre DEF BaseInv, Placed
<1>3. CASE stage = "groups"
  <2>1. req = Post(Consumer(current), version)
    BY <1>3, RequestIs
  <2>2. Target(req) = Consumer(current) /\ req.value = version
    BY <2>1, PostIs, TargetIs, ConsumerIs
  <2> QED BY <1>1, <1>2, <1>3, <2>2, WhoseIs
<1>4. CASE stage = "credential"
  <2>1. ChangesGroup(req)
    BY <1>4, RequestIs
  <2>2. PICK g \in Groups :
          /\ req.key = Group(current, g)
          /\ req.value = IF g \in InputGroups[version][current] THEN version ELSE Absent
    BY <1>1, <1>2, <2>1, PostIs, DeleteIs, InputsAre DEF ChangesGroup
  <2>3. Target(req) = Group(current, g)
    BY <2>2, TargetIs, GroupIs
  <2> QED BY <1>1, <1>2, <1>4, <2>2, <2>3, WhoseIs
<1>5. CASE stage = "limits"
  <2>1. CASE TakesLimit(req)
    <3>1. PICK k \in Keys, a \in DOMAIN Limits[version][current] :
                 /\ k[1] = "plugin" /\ k[2] = a /\ req = Delete(k)
                 /\ Limits[version][current][a] = "absent"
      BY <2>1 DEF TakesLimit
    <3>2. req.key = k /\ Target(req) = k
      BY <3>1, DeleteIs, TargetIs
    <3>3. GivenUp(k)
      BY <1>2, <3>1 DEF GivenUp
    <3> QED BY <1>1, <1>2, <1>5, <3>1, <3>2, <3>3
  <2>2. CASE CreatesCredential(req)
    <3>1. PICK n \in 1 .. MaxCredentials : Target(req) = Credential(current, n)
      BY <2>2, RequestIs
    <3>2. Target(req)[1] = "jwt" /\ Whose(Target(req)) = current
      BY <3>1, CredentialIs, WhoseIs
    <3> QED BY <1>1, <1>2, <1>5, <2>2, <3>2, CreatesIs
  <2>3. CASE UpdatesCredential(req)
    <3>1. PICK n \in 1 .. MaxCredentials : req = Patch(Credential(current, n), version)
      BY <2>3 DEF UpdatesCredential
    <3>2. Target(req) = req.key /\ req.key = Credential(current, n) /\ req.value = version
      BY <3>1, PatchIs, TargetIs
    <3> QED BY <1>1, <1>2, <1>5, <3>2, CredentialIs, WhoseIs
  <2>4. CASE SetsLimit(req)
    <3>1. PICK a \in Apis : req \in {Post(Plugin(a, RateLimiting, current), version),
                                     Patch(Plugin(a, RateLimiting, current), version)}
      BY <2>4 DEF SetsLimit
    <3>2. /\ req.key = Plugin(a, RateLimiting, current) /\ req.value = version
          /\ req.key[1] = "plugin"
      BY <3>1, PostIs, PatchIs, PluginIs
    <3>3. Target(req) = req.key
      BY <3>2, TargetIs
    <3> QED BY <1>1, <1>2, <1>5, <3>2, <3>3, WhoseIs, PluginIs
  <2> QED BY <1>5, <2>1, <2>2, <2>3, <2>4, RequestIs
<1> QED BY <1>1, <1>3, <1>4, <1>5 DEF AtConsumer

(* A rate limit of the input is not given up. *)
LEMMA LimitKept ==
  ASSUME BaseInv, LimitsApart, NEW c \in InputConsumers(version),
         NEW a \in DOMAIN Limits[version][c], Limits[version][c][a] = "present"
  PROVE  ~GivenUp(Plugin(a, RateLimiting, c))
<1>1. Plugin(a, RateLimiting, c)[2] = a /\ version \in Versions
  BY PluginIs DEF BaseInv, TypesOK
<1> QED BY <1>1 DEF GivenUp, LimitsApart

(* A consumer that has been saved stays so as long as nothing it needs is  *)
(* changed.                                                                *)
LEMMA StaysSaved ==
  ASSUME BaseInv, LimitsApart, NEW c \in InputConsumers(version), Saved(c),
         version' = version,
         \A k \in Keys : Whose(k) = c /\ ~GivenUp(k) => kong'[k] = kong[k]
  PROVE  Saved(c)'
<1>1. c \in Consumers /\ DOMAIN Limits[version][c] \subseteq Apis
  BY InputsAre DEF BaseInv, TypesOK
<1>2. \A k \in Keys : Whose(k) = c /\ k[1] # "plugin" => kong'[k] = kong[k]
  BY DEF GivenUp
<1>3. Present(Consumer(c))'
  <2>1. Consumer(c) \in Keys /\ Whose(Consumer(c)) = c /\ Consumer(c)[1] # "plugin"
    BY <1>1, AreKeys, WhoseIs, ConsumerIs
  <2> QED BY <1>2, <2>1 DEF Saved, Present
<1>4. GroupsRight(c)'
  <2>1. \A g \in Groups : kong'[Group(c, g)] = kong[Group(c, g)]
    BY <1>1, <1>2, AreKeys, WhoseIs, GroupIs
  <2> QED BY <2>1 DEF Saved, GroupsRight, Present
<1>5. \A k \in SavedCredentials(c) : k \in SavedCredentials(c)'
  BY <1>2 DEF SavedCredentials, Present, Whose
<1>6. ASSUME NEW a \in DOMAIN Limits[version][c]
      PROVE  LimitRight(c, a)'
  <2>1. Plugin(a, RateLimiting, c) \in Keys /\ Whose(Plugin(a, RateLimiting, c)) = c
    BY <1>1, AreKeys, WhoseIs, RateLimitingAssumption
  <2>2. Limits[version][c][a] = "present" =>
          kong'[Plugin(a, RateLimiting, c)] = kong[Plugin(a, RateLimiting, c)]
    BY <2>1, LimitKept
  <2> QED BY <2>2 DEF Saved, LimitRight
<1> QED BY <1>3, <1>4, <1>5, <1>6 DEF Saved

(* Reading and deciding change nothing in Kong. *)
LEMMA QuietRight ==
  ASSUME UNCHANGED <<kong, version>>
  PROVE  \A c : /\ Saved(c)' <=> Saved(c)
                /\ GroupsRight(c)' <=> GroupsRight(c)
                /\ SavedCredentials(c)' = SavedCredentials(c)
                /\ \A a : LimitRight(c, a)' <=> LimitRight(c, a)
                /\ Present(Consumer(c))' <=> Present(Consumer(c))
                /\ \A g : Present(Group(c, g))' <=> Present(Group(c, g))
  BY DEF Saved, GroupsRight, SavedCredentials, LimitRight, Present
-----------------------------------------------------------------------------
(* ConvergeInv, step by step *)
LEMMA StartRight ==
  ASSUME BaseInv, NEW v \in Versions, Start(v)
  PROVE  ConvergeInv'
<1>1. stage' = "absent" /\ version' = v /\ todo' = Consumers \ InputConsumers(v)
  BY DEF Start
<1>2. InputConsumers(version)' = InputConsumers(v)
  BY <1>1 DEF InputConsumers
<1> QED BY <1>1, <1>2 DEF ConvergeInv, AbsentGone, Dealt, CurrentRight, Loop, AtConsumer

LEMMA RemoveConsumerRight ==
  ASSUME BaseInv, ConvergeInv, NEW c \in Consumers, RemoveConsumer(c)
  PROVE  ConvergeInv'
<1>1. /\ stage = "absent" /\ stage' = "absent" /\ pending = {} /\ todo' = todo \ {c}
      /\ Present(Consumer(c)) => pending' = {Delete(Consumer(c))}
      /\ UNCHANGED <<kong, version>>
  BY DEF RemoveConsumer
<1>2. InputConsumers(version)' = InputConsumers(version)
  BY <1>1 DEF InputConsumers
<1>3. ASSUME NEW d \in Consumers \ InputConsumers(version)
      PROVE  \/ d \in todo' \/ ~Present(Consumer(d))'
             \/ \E req \in pending' : req.key = Consumer(d)
  <2>1. d \in todo \/ ~Present(Consumer(d))
    BY <1>1 DEF ConvergeInv, AbsentGone
  <2>2. CASE d = c
    BY <1>1, <2>2, DeleteIs DEF Present
  <2>3. CASE d # c
    BY <1>1, <2>1, <2>3 DEF Present
  <2> QED BY <2>2, <2>3
<1> QED BY <1>1, <1>2, <1>3 DEF ConvergeInv, AbsentGone, Dealt, CurrentRight, Loop, AtConsumer

LEMMA AllRemovedRight ==
  ASSUME BaseInv, ConvergeInv, AllRemoved
  PROVE  ConvergeInv'
<1>1. /\ stage = "absent" /\ stage' \in {"next", "done"} /\ pending = {} /\ todo = {}
      /\ todo' = InputConsumers(version) /\ UNCHANGED <<kong, version>>
  BY DEF AllRemoved
<1>2. InputConsumers(version)' = InputConsumers(version)
  BY <1>1 DEF InputConsumers
<1>3. \A c \in Consumers \ InputConsumers(version) : ~Present(Consumer(c))'
  BY <1>1 DEF ConvergeInv, AbsentGone, Present
<1> QED BY <1>1, <1>2, <1>3 DEF ConvergeInv, AbsentGone, Dealt, CurrentRight, Loop, AtConsumer

(* Within the loop over the consumers of the input. *)
LEMMA AbsentStaysGone ==
  ASSUME ConvergeInv, stage \in Loop, UNCHANGED <<kong, version>>, stage' # "absent"
  PROVE  AbsentGone'
<1>1. \A c \in Consumers \ InputConsumers(version) : ~Present(Consumer(c))'
  BY DEF ConvergeInv, AbsentGone, Present
<1> QED BY <1>1 DEF AbsentGone, InputConsumers

LEMMA EnsureConsumerRight ==
  ASSUME BaseInv, ConvergeInv, NEW c \in Consumers, EnsureConsumer(c)
  PROVE  ConvergeInv'
<1>1. /\ stage = "next" /\ stage' = "groups" /\ pending = {} /\ todo' = todo \ {c}
      /\ current' = c /\ limits' = DOMAIN Limits[version][c] /\ UNCHANGED <<kong, version>>
      /\ ~Present(Consumer(c)) => pending' = {Post(Consumer(c), version)}
  BY DEF EnsureConsumer
<1>2. AbsentGone'
  BY <1>1, AbsentStaysGone DEF Loop
<1>3. Dealt'
  <2>1. \A d \in InputConsumers(version) : d \in todo \/ Saved(d)
    BY <1>1 DEF ConvergeInv, Dealt, Loop, AtConsumer
  <2>2. \A d \in InputConsumers(version) : d \in todo' \/ Saved(d)' \/ d = current'
    BY <1>1, <2>1, QuietRight
  <2> QED BY <1>1, <2>2 DEF Dealt, InputConsumers, AtConsumer
<1>4. CurrentRight'
  <2>1. Present(Consumer(c))' \/ Underway(Consumer(c))'
    BY <1>1, PostIs DEF Present, Underway
  <2> QED BY <1>1, <2>1 DEF CurrentRight
<1> QED BY <1>2, <1>3, <1>4 DEF ConvergeInv

(* The three reads of the consumer at hand leave alone what was dealt with. *)
LEMMA ReadRight ==
  ASSUME BaseInv, ConvergeInv, stage \in AtConsumer,
         NEW owner, NEW requests, NEW next \in {"credential", "limits"},
         Read(owner, requests, next), UNCHANGED <<version, todo, current>>
  PROVE  AbsentGone' /\ Dealt'
<1>1. stage' \in {next, "failed"} /\ UNCHANGED kong
  BY DEF Read
<1>2. AbsentGone'
  BY <1>1, AbsentStaysGone DEF AtConsumer, Loop
<1>3. Dealt'
  <2>1. \A d \in InputConsumers(version) : d \in todo \/ Saved(d) \/ d = current
    BY DEF ConvergeInv, Dealt, Loop, AtConsumer
  <2>2. \A d \in InputConsumers(version) : d \in todo' \/ Saved(d)' \/ d = current'
    BY <1>1, <2>1, QuietRight
  <2> QED BY <1>1, <2>2 DEF Dealt, InputConsumers, AtConsumer, Loop
<1> QED BY <1>2, <1>3

LEMMA SaveGroupsRight ==
  ASSUME BaseInv, ConvergeInv, SaveGroups
  PROVE  ConvergeInv'
<1> DEFINE wanted == {Group(current, g) : g \in InputGroups[version][current]}
           requests == GroupRequests(wanted, SavedGroups(current))
<1>1. /\ stage = "groups" /\ UNCHANGED <<version, todo, current, limits>>
      /\ Read(Consumer(current), requests, "credential")
  BY DEF SaveGroups, script
<1>2. /\ current \in Consumers /\ current \in InputConsumers(version)
      /\ InputGroups[version][current] \subseteq Groups
  BY <1>1, InputsAre DEF BaseInv, Placed, AtConsumer, TypesOK
<1>3. AbsentGone' /\ Dealt'
  BY <1>1, ReadRight DEF AtConsumer
<1>4. UNCHANGED kong /\ (stage' = "failed" \/ (/\ stage' = "credential" /\ pending' = requests
                                               /\ Present(Consumer(current))))
  BY <1>1 DEF Read
<1>5. ASSUME NEW g \in Groups
      PROVE  \/ Present(Group(current, g)) <=> g \in InputGroups[version][current]
             \/ \E req \in requests : req.key = Group(current, g)
  <2> DEFINE k == Group(current, g)
  <2>1. k \in Keys /\ k[1] = "group" /\ k[2] = current
    BY <1>2, AreKeys, GroupIs
  <2>2. k \in wanted <=> g \in InputGroups[version][current]
    <3>1. \A h \in InputGroups[version][current] : k = Group(current, h) => h = g
      BY GroupIs
    <3> QED BY <3>1
  <2>3. k \in SavedGroups(current) <=> Present(k)
    BY <2>1 DEF SavedGroups
  <2>4. CASE k \in wanted \ SavedGroups(current)
    <3>1. Post(k, version) \in requests /\ Post(k, version).key = k
      BY <2>4, PostIs DEF GroupRequests
    <3> QED BY <3>1
  <2>5. CASE k \in SavedGroups(current) \ wanted
    <3>1. Delete(k) \in requests /\ Delete(k).key = k
      BY <2>5, DeleteIs DEF GroupRequests
    <3> QED BY <3>1
  <2> QED BY <2>2, <2>3, <2>4, <2>5
<1> HIDE DEF requests
<1>6. CurrentRight'
  <2>1. CASE stage' = "failed"
    BY <2>1 DEF CurrentRight
  <2>2. CASE /\ stage' = "credential" /\ pending' = requests
             /\ Present(Consumer(current))
    <3>1. Present(Consumer(current))'
      BY <1>1, <1>4, <2>2 DEF Present
    <3>2. limits' = DOMAIN Limits[version'][current']
      BY <1>1 DEF ConvergeInv, CurrentRight
    <3>3. ASSUME NEW g \in Groups
          PROVE  \/ Present(Group(current, g))' <=> g \in InputGroups[version'][current']
                 \/ Underway(Group(current, g))'
      BY <1>1, <1>4, <1>5, <2>2 DEF Present, Underway
    <3> QED BY <2>2, <3>1, <3>2, <3>3 DEF CurrentRight
  <2> QED BY <1>4, <2>1, <2>2
<1> QED BY <1>3, <1>6 DEF ConvergeInv

LEMMA SaveCredentialRight ==
  ASSUME BaseInv, ConvergeInv, SaveCredential
  PROVE  ConvergeInv'
<1>1. PICK requests \in CredentialRequests(current) :
             Read(Consumer(current), requests, "limits")
  BY DEF SaveCredential
<1>2. stage = "credential" /\ UNCHANGED <<version, todo, current, limits>>
  BY DEF SaveCredential, script
<1>3. AbsentGone' /\ Dealt'
  BY <1>1, <1>2, ReadRight DEF AtConsumer
<1>4. /\ UNCHANGED kong /\ pending = {}
      /\ \/ stage' = "failed"
         \/ /\ stage' = "limits" /\ pending' = requests
            /\ Present(Consumer(current))
  BY <1>1 DEF Read
<1>5. limits = DOMAIN Limits[version][current] /\ GroupsRight(current)
  BY <1>2, <1>4 DEF ConvergeInv, CurrentRight, GroupsRight, Underway
<1>6. SavedCredentials(current) # {} \/ \E req \in requests : CreatesCredential(req)
  BY <1>1 DEF CredentialRequests, CreatesCredential
<1>7. CurrentRight'
  <2>1. CASE stage' = "failed"
    BY <2>1 DEF CurrentRight
  <2>2. CASE /\ stage' = "limits" /\ pending' = requests
             /\ Present(Consumer(current))
    <3>1. Present(Consumer(current))' /\ GroupsRight(current)'
      BY <1>2, <1>4, <1>5, <2>2 DEF Present, GroupsRight
    <3>2. SavedCredentials(current)' # {} \/ \E req \in pending' : CreatesCredential(req)'
      BY <1>2, <1>4, <1>6, <2>2 DEF SavedCredentials, Present, CreatesCredential
    <3>3. DOMAIN Limits[version'][current'] \ limits' = {}
      BY <1>2, <1>5
    <3> QED BY <2>2, <3>1, <3>2, <3>3 DEF CurrentRight
  <2> QED BY <1>4, <2>1, <2>2
<1> QED BY <1>3, <1>7 DEF ConvergeInv

LEMMA SaveLimitRight ==
  ASSUME BaseInv, ConvergeInv, NEW a \in Apis, SaveLimit(a)
  PROVE  ConvergeInv'
<1>1. PICK requests \in LimitRequests(current, a) : Read(Api(a), requests, "limits")
  BY DEF SaveLimit
<1>2. /\ stage = "limits" /\ a \in limits /\ limits' = limits \ {a}
      /\ UNCHANGED <<version, todo, current>>
  BY DEF SaveLimit
<1>3. AbsentGone' /\ Dealt'
  BY <1>1, <1>2, ReadRight DEF AtConsumer
<1>4. /\ UNCHANGED kong /\ pending = {}
      /\ stage' = "failed" \/ (stage' = "limits" /\ pending' = requests)
  BY <1>1 DEF Read
<1>5. ASSUME Limits[version][current][a] = "present"
      PROVE  \E req \in requests : req.key = Plugin(a, RateLimiting, current)
  <2>1. requests = {IF Present(Plugin(a, RateLimiting, current))
                    THEN Patch(Plugin(a, RateLimiting, current), version)
                    ELSE Post(Plugin(a, RateLimiting, current), version)}
    BY <1>1, <1>5 DEF LimitRequests
  <2> QED BY <2>1, PatchIs, PostIs
<1>6. CurrentRight'
  <2>1. CASE stage' = "failed"
    BY <2>1 DEF CurrentRight
  <2>2. CASE stage' = "limits" /\ pending' = requests
    <3>1. /\ Present(Consumer(current)) /\ GroupsRight(current)
          /\ SavedCredentials(current) # {}
          /\ \A b \in DOMAIN Limits[version][current] \ limits : LimitRight(current, b)
      BY <1>2, <1>4 DEF ConvergeInv, CurrentRight, Underway
    <3>2. /\ Present(Consumer(current))' /\ GroupsRight(current)'
          /\ SavedCredentials(current)' # {}
      BY <1>2, <1>4, <3>1 DEF Present, GroupsRight, SavedCredentials
    <3>3. ASSUME NEW b \in DOMAIN Limits[version'][current'] \ limits'
          PROVE  LimitRight(current, b)' \/ Underway(Plugin(b, RateLimiting, current))'
      <4>1. CASE b = a
        BY <1>2, <1>5, <2>2, <4>1 DEF Underway, LimitRight
      <4>2. CASE b # a
        BY <1>2, <1>4, <3>1, <4>2 DEF LimitRight
      <4> QED BY <4>1, <4>2
    <3> QED BY <2>2, <3>2, <3>3 DEF CurrentRight
  <2> QED BY <1>4, <2>1, <2>2
<1> QED BY <1>3, <1>6 DEF ConvergeInv

LEMMA ConsumerSavedRight ==
  ASSUME BaseInv, ConvergeInv, ConsumerSaved
  PROVE  ConvergeInv'
<1>1. /\ stage = "limits" /\ pending = {} /\ limits = {} /\ stage' \in {"done", "next"}
      /\ UNCHANGED <<kong, version, todo, current>>
  BY DEF ConsumerSaved, script
<1>2. AbsentGone'
  BY <1>1, AbsentStaysGone DEF Loop
<1>3. Saved(current)
  BY <1>1 DEF ConvergeInv, CurrentRight, Saved, Underway
<1>4. \A c \in InputConsumers(version) : c \in todo \/ Saved(c)
  BY <1>1, <1>3 DEF ConvergeInv, Dealt, Loop
<1>5. Dealt'
  <2>1. \A c \in InputConsumers(version) : c \in todo' \/ Saved(c)'
    BY <1>1, <1>4, QuietRight
  <2> QED BY <1>1, <2>1 DEF Dealt, InputConsumers
<1> QED BY <1>1, <1>2, <1>5 DEF ConvergeInv, CurrentRight
(* An attempt fails the script, changes nothing it waits for, or takes     *)
(* effect; a request is only given up when it has taken effect.            *)
LEMMA AttemptIs ==
  ASSUME NEW req \in pending, Send(req) \/ SendFails(req)
  PROVE  /\ UNCHANGED <<version, todo, current, limits>>
         /\ \/ stage' = "failed"
            \/ UNCHANGED <<kong, stage, pending>>
            \/ /\ stage' = stage /\ Accepted(req) /\ Effect(req)
               /\ \A r \in pending : r \in pending' \/ r = req
<1>1. Attempt(req) /\ UNCHANGED <<version, todo, current, limits>>
  BY SendIs, AttemptOf
<1> QED BY <1>1 DEF Attempt

LEMMA RemovalRight ==
  ASSUME BaseInv, ConvergeInv, NEW req \in pending, Send(req) \/ SendFails(req),
         stage = "absent", stage' = "absent", Effect(req),
         \A r \in pending : r \in pending' \/ r = req
  PROVE  ConvergeInv'
<1>1. UNCHANGED <<version, todo>>
  BY AttemptIs
<1>2. PICK c \in Consumers \ InputConsumers(version) :
             /\ req.key = Consumer(c)
             /\ \A k \in Keys : kong'[k] = IF k = Consumer(c) \/ Consumer(c) \in Owners(k)
                                           THEN Absent ELSE kong[k]
  BY RemovalEffect
<1>3. ASSUME NEW d \in Consumers \ InputConsumers(version)
      PROVE  \/ d \in todo' \/ ~Present(Consumer(d))'
             \/ \E r \in pending' : r.key = Consumer(d)
  <2>1. \/ d \in todo \/ ~Present(Consumer(d))
        \/ \E r \in pending : r.key = Consumer(d)
    BY DEF ConvergeInv, AbsentGone
  <2>2. kong'[Consumer(d)] = IF Consumer(d) = Consumer(c) THEN Absent ELSE kong[Consumer(d)]
    BY <1>2, AreKeys, ConsumerIs
  <2> QED BY <1>1, <1>2, <2>1, <2>2 DEF Present
<1> QED BY <1>1, <1>3 DEF ConvergeInv, AbsentGone, Dealt, CurrentRight, Loop, AtConsumer,
           InputConsumers

LEMMA EffectAtConsumer ==
  ASSUME BaseInv, ConvergeInv, LimitsApart, NEW req \in pending, Send(req) \/ SendFails(req),
         stage # "absent", stage' = stage, Effect(req)
  PROVE  AbsentGone' /\ Dealt'
<1>1. UNCHANGED <<version, todo, current, limits>>
  BY AttemptIs
<1>2. /\ stage \in AtConsumer /\ current \in Consumers
      /\ current \in InputConsumers(version) /\ (Whose(Target(req)) = current \/ GivenUp(Target(req)))
  BY TargetAt
<1>3. \A k \in Keys : Whose(k) # current /\ ~GivenUp(k) => kong'[k] = kong[k]
  BY <1>2, SingleEffect
<1>4. \A c \in Consumers \ InputConsumers(version) : ~Present(Consumer(c))'
  <2> SUFFICES ASSUME NEW c \in Consumers \ InputConsumers(version)
               PROVE  ~Present(Consumer(c))'
    OBVIOUS
  <2>1. ~Present(Consumer(c))
    BY <1>2 DEF ConvergeInv, AbsentGone, AtConsumer, Loop
  <2>2. Whose(Consumer(c)) # current /\ Consumer(c) \in Keys /\ ~GivenUp(Consumer(c))
    BY <1>2, WhoseIs, AreKeys, ConsumerIs DEF GivenUp
  <2> QED BY <1>3, <2>1, <2>2 DEF Present
<1>5. ASSUME NEW c \in InputConsumers(version)
      PROVE  c \in todo' \/ Saved(c)' \/ (stage' \in AtConsumer /\ c = current')
  <2>1. c \in todo \/ Saved(c) \/ c = current
    BY <1>2 DEF ConvergeInv, Dealt, AtConsumer, Loop
  <2>2. CASE Saved(c) /\ c # current
    <3>1. \A k \in Keys : Whose(k) = c /\ ~GivenUp(k) => kong'[k] = kong[k]
      BY <1>3, <2>2
    <3> QED BY <1>1, <2>2, <3>1, StaysSaved
  <2> QED BY <1>1, <1>2, <2>1, <2>2
<1>6. AbsentGone'
  BY <1>1, <1>2, <1>4 DEF AbsentGone, InputConsumers, AtConsumer
<1>7. Dealt'
  BY <1>1, <1>5 DEF Dealt, InputConsumers
<1> QED BY <1>6, <1>7

LEMMA EnsuredRight ==
  ASSUME BaseInv, ConvergeInv, NEW req \in pending, Send(req) \/ SendFails(req),
         stage = "groups", stage' = stage, Effect(req)
  PROVE  CurrentRight'
<1>1. UNCHANGED <<version, todo, current, limits>>
  BY AttemptIs
<1>2. Target(req) = Consumer(current) /\ req.value = version /\ current \in Consumers
  BY TargetAt
<1>3. kong'[Consumer(current)] = version
  BY <1>2, AreKeys, SingleEffect
<1>4. version # Absent
  BY NamesAssumption DEF BaseInv, TypesOK
<1>5. Present(Consumer(current))'
  BY <1>1, <1>3, <1>4 DEF Present
<1> QED BY <1>1, <1>5 DEF ConvergeInv, CurrentRight

LEMMA GroupsChangedRight ==
  ASSUME BaseInv, ConvergeInv, NEW req \in pending, Send(req) \/ SendFails(req),
         stage = "credential", stage' = stage, Effect(req),
         \A r \in pending : r \in pending' \/ r = req
  PROVE  CurrentRight'
<1>1. UNCHANGED <<version, todo, current, limits>>
  BY AttemptIs
<1>2. /\ current \in Consumers /\ current \in InputConsumers(version)
      /\ version # Absent
  BY TargetAt, NamesAssumption DEF BaseInv, TypesOK
<1>3. PICK h \in Groups :
             /\ Target(req) = Group(current, h) /\ req.key = Group(current, h)
             /\ req.value = IF h \in InputGroups[version][current] THEN version ELSE Absent
  BY TargetAt
<1>4. \A k \in Keys : kong'[k] = IF k = Group(current, h) THEN req.value ELSE kong[k]
  BY <1>3, SingleEffect
<1>5. Present(Consumer(current))'
  <2>1. Consumer(current) # Group(current, h)
    BY ConsumerIs, GroupIs
  <2>2. kong'[Consumer(current)] = kong[Consumer(current)]
    BY <1>2, <1>4, <2>1, AreKeys
  <2> QED BY <1>1, <2>2 DEF ConvergeInv, CurrentRight, Present
<1>6. ASSUME NEW g \in Groups
      PROVE  \/ Present(Group(current, g))' <=> g \in InputGroups[version'][current']
             \/ Underway(Group(current, g))'
  <2>1. \/ Present(Group(current, g)) <=> g \in InputGroups[version][current]
        \/ Underway(Group(current, g))
    BY DEF ConvergeInv, CurrentRight
  <2>2. Group(current, g) = Group(current, h) <=> g = h
    BY GroupIs
  <2>3. kong'[Group(current, g)] = IF g = h THEN req.value ELSE kong[Group(current, g)]
    BY <1>2, <1>4, <2>2, AreKeys
  <2>4. CASE g = h
    BY <1>1, <1>2, <1>3, <2>3, <2>4 DEF Present
  <2>5. CASE g # h
    <3>1. Underway(Group(current, g)) => Underway(Group(current, g))'
      BY <1>1, <1>3, <2>2, <2>5 DEF Underway
    <3> QED BY <1>1, <2>1, <2>3, <2>5, <3>1 DEF Present
  <2> QED BY <2>4, <2>5
<1> QED BY <1>1, <1>5, <1>6 DEF ConvergeInv, CurrentRight

LEMMA LimitsSetRight ==
  ASSUME BaseInv, ConvergeInv, LimitsApart, NEW req \in pending, Send(req) \/ SendFails(req),
         stage = "limits", stage' = stage, Effect(req),
         \A r \in pending : r \in pending' \/ r = req
  PROVE  CurrentRight'
<1>1. UNCHANGED <<version, todo, current, limits>>
  BY AttemptIs
<1>2. /\ current \in Consumers /\ current \in InputConsumers(version)
      /\ version # Absent /\ DOMAIN Limits[version][current] \subseteq Apis
  BY TargetAt, InputsAre, NamesAssumption DEF BaseInv, TypesOK
<1>3. /\ req.value = version \/ GivenUp(Target(req))
      /\ Target(req)[1] \in {"jwt", "plugin"}
      /\ CreatesCredential(req) \/ Target(req) = req.key
  BY TargetAt
<1>4. \A k \in Keys :
        ~GivenUp(k) => kong'[k] = IF k = Target(req) THEN version ELSE kong[k]
  BY <1>3, SingleEffect
<1>5. Present(Consumer(current))'
  <2>1. Consumer(current) # Target(req) /\ ~GivenUp(Consumer(current))
    BY <1>3, ConsumerIs DEF GivenUp
  <2>2. kong'[Consumer(current)] = kong[Consumer(current)]
    BY <1>2, <1>4, <2>1, AreKeys
  <2> QED BY <1>1, <2>2 DEF ConvergeInv, CurrentRight, Present
<1>6. GroupsRight(current)'
  <2>1. \A g \in Groups : kong'[Group(current, g)] = kong[Group(current, g)]
    <3> SUFFICES ASSUME NEW g \in Groups
                 PROVE  kong'[Group(current, g)] = kong[Group(current, g)]
      OBVIOUS
    <3>1. /\ Group(current, g) # Target(req) /\ Group(current, g) \in Keys
          /\ ~GivenUp(Group(current, g))
      BY <1>2, <1>3, GroupIs, AreKeys DEF GivenUp
    <3> QED BY <1>4, <3>1
  <2> QED BY <1>1, <2>1 DEF ConvergeInv, CurrentRight, GroupsRight, Present
<1>7. \/ SavedCredentials(current)' # {}
      \/ \E r \in pending' : CreatesCredential(r)'
  <2>1. CASE SavedCredentials(current) # {}
    <3>1. PICK k \in SavedCredentials(current) : TRUE
      BY <2>1
    <3>2. k \in Keys /\ k[1] = "jwt" /\ k[2] = current /\ kong[k] # Absent
      BY <3>1 DEF SavedCredentials, Present
    <3>3. kong'[k] # Absent
      BY <1>2, <1>4, <3>2 DEF GivenUp
    <3> QED BY <1>1, <3>2, <3>3 DEF SavedCredentials, Present
  <2>2. CASE CreatesCredential(req)
    <3>1. PICK n \in 1 .. MaxCredentials : Target(req) = Credential(current, n)
      BY <2>2, RequestIs
    <3>2. /\ Credential(current, n) \in Keys
          /\ Credential(current, n)[1] = "jwt" /\ Credential(current, n)[2] = current
      BY <1>2, AreKeys, CredentialIs
    <3>3. kong'[Credential(current, n)] = version
      BY <1>4, <3>1, <3>2 DEF GivenUp
    <3> QED BY <1>1, <1>2, <3>2, <3>3 DEF SavedCredentials, Present
  <2>3. CASE \E r \in pending : CreatesCredential(r) /\ r # req
    BY <1>1, <2>3 DEF CreatesCredential
  <2>4. SavedCredentials(current) # {} \/ \E r \in pending : CreatesCredential(r)
    BY DEF ConvergeInv, CurrentRight
  <2> QED BY <2>1, <2>2, <2>3, <2>4
<1>8. ASSUME NEW a \in DOMAIN Limits[version][current] \ limits
      PROVE  LimitRight(current, a)' \/ Underway(Plugin(a, RateLimiting, current))'
  <2> DEFINE limit == Plugin(a, RateLimiting, current)
  <2>1. limit \in Keys /\ limit[1] = "plugin"
    BY <1>2, AreKeys, PluginIs, RateLimitingAssumption
  <2>2. LimitRight(current, a) \/ Underway(limit)
    BY DEF ConvergeInv, CurrentRight
  <2>3. CASE Limits[version][current][a] # "present"
    BY <1>1, <2>3 DEF LimitRight
  <2>4. CASE Limits[version][current][a] = "present"
    <3>1. kong'[limit] = IF limit = Target(req) THEN version ELSE kong[limit]
      BY <1>2, <1>4, <2>1, <2>4, LimitKept
    <3>2. CASE LimitRight(current, a)
      BY <1>1, <3>1, <3>2 DEF LimitRight
    <3>3. CASE req.key = limit
      <4>1. Target(req) = limit
        BY <1>3, <2>1, <3>3, CreatesIs
      <4> QED BY <1>1, <3>1, <4>1 DEF LimitRight
    <3>4. CASE Underway(limit) /\ req.key # limit
      BY <1>1, <3>4 DEF Underway
    <3> QED BY <2>2, <3>2, <3>3, <3>4
  <2> QED BY <2>3, <2>4
<1> QED BY <1>1, <1>5, <1>6, <1>7, <1>8 DEF CurrentRight
LEMMA AttemptRight ==
  ASSUME BaseInv, ConvergeInv, LimitsApart, NEW req \in pending, Send(req) \/ SendFails(req)
  PROVE  ConvergeInv'
<1>1. UNCHANGED <<version, todo, current, limits>>
  BY AttemptIs
<1>2. CASE stage' = "failed"
  BY <1>2 DEF ConvergeInv, AbsentGone, Dealt, CurrentRight, Loop, AtConsumer
<1>3. CASE UNCHANGED <<kong, stage, pending>>
  <2>1. AbsentGone'
    BY <1>1, <1>3 DEF ConvergeInv, AbsentGone, InputConsumers, Present
  <2>2. Dealt'
    BY <1>1, <1>3, QuietRight DEF ConvergeInv, Dealt, InputConsumers
  <2>3. CurrentRight'
    <3>1. \A k : Underway(k)' <=> Underway(k)
      BY <1>3 DEF Underway
    <3>2. \A a : LimitRight(current, a)' <=> LimitRight(current, a)
      BY <1>1, <1>3 DEF LimitRight
    <3>3. /\ GroupsRight(current)' <=> GroupsRight(current)
          /\ SavedCredentials(current)' = SavedCredentials(current)
          /\ \A k : Present(k)' <=> Present(k)
          /\ \A r : CreatesCredential(r)' <=> CreatesCredential(r)
      BY <1>1, <1>3 DEF GroupsRight, SavedCredentials, Present, CreatesCredential
    <3> QED BY <1>1, <1>3, <3>1, <3>2, <3>3 DEF ConvergeInv, CurrentRight
  <2> QED BY <2>1, <2>2, <2>3 DEF ConvergeInv
<1>4. CASE /\ stage' = stage /\ Accepted(req) /\ Effect(req)
           /\ \A r \in pending : r \in pending' \/ r = req
  <2>1. CASE stage = "absent"
    BY <1>4, <2>1, RemovalRight
  <2>2. CASE stage # "absent"
    <3>1. AbsentGone' /\ Dealt'
      BY <1>4, <2>2, EffectAtConsumer
    <3>2. CurrentRight'
      <4>1. stage \in AtConsumer
        BY <2>2, RequestIs
      <4> QED BY <1>4, <2>2, <4>1, EnsuredRight, GroupsChangedRight, LimitsSetRight
              DEF AtConsumer
    <3> QED BY <3>1, <3>2 DEF ConvergeInv
  <2> QED BY <2>1, <2>2
<1> QED BY <1>2, <1>3, <1>4, AttemptIs

LEMMA ConvergeStep ==
  ASSUME LimitsApart, BaseInv, ConvergeInv, [Next]_vars
  PROVE  ConvergeInv'
<1>1. CASE \E v \in Versions : Start(v)
  BY <1>1, StartRight
<1>2. CASE \E c \in Consumers : RemoveConsumer(c)
  BY <1>2, RemoveConsumerRight
<1>3. CASE AllRemoved
  BY <1>3, AllRemovedRight
<1>4. CASE \E c \in Consumers : EnsureConsumer(c)
  BY <1>4, EnsureConsumerRight
<1>5. CASE SaveGroups
  BY <1>5, SaveGroupsRight
<1>6. CASE SaveCredential
  BY <1>6, SaveCredentialRight
<1>7. CASE \E a \in Apis : SaveLimit(a)
  BY <1>7, SaveLimitRight
<1>8. CASE ConsumerSaved
  BY <1>8, ConsumerSavedRight
<1>9. CASE \E req \in pending : Send(req) \/ SendFails(req)
  BY <1>9, AttemptRight
<1>10. CASE Aborted
  BY <1>10 DEF Aborted, Abort, ConvergeInv, AbsentGone, Dealt, CurrentRight, Loop, AtConsumer
<1>11. CASE UNCHANGED vars
  BY <1>11 DEF vars, client, script, ConvergeInv, AbsentGone, Dealt, CurrentRight, Saved,
     GroupsRight, LimitRight, SavedCredentials, Present, Underway, CreatesCredential,
     InputConsumers
<1> QED BY <1>1, <1>2, <1>3, <1>4, <1>5, <1>6, <1>7, <1>8, <1>9, <1>10, <1>11 DEF Next

LEMMA DoneIsConverged ==
  ASSUME BaseInv, ConvergeInv
  PROVE  DoneMeansConverged
<1> SUFFICES ASSUME stage = "done", NEW c \in Consumers
             PROVE  /\ Present(Consumer(c)) <=> c \in InputConsumers(version)
                    /\ c \in InputConsumers(version) =>
                         /\ SavedGroups(c) = {Group(c, g) : g \in InputGroups[version][c]}
                         /\ SavedCredentials(c) # {}
                         /\ \A a \in DOMAIN Limits[version][c] :
                              Limits[version][c][a] = "present" =>
                                kong[Plugin(a, RateLimiting, c)] = version
  BY DEF DoneMeansConverged
<1>1. CASE c \notin InputConsumers(version)
  BY <1>1 DEF ConvergeInv, AbsentGone
<1>2. CASE c \in InputConsumers(version)
  <2>1. Saved(c) /\ InputGroups[version][c] \subseteq Groups
    BY <1>2, InputsAre DEF BaseInv, TypesOK, Placed, ConvergeInv, Dealt, AtConsumer
  <2>2. SavedGroups(c) = {Group(c, g) : g \in InputGroups[version][c]}
    <3>1. ASSUME NEW k \in SavedGroups(c)
          PROVE  \E g \in InputGroups[version][c] : k = Group(c, g)
      <4>1. k \in Keys /\ k[1] = "group" /\ k[2] = c /\ Present(k)
        BY DEF SavedGroups
      <4>2. PICK d \in Consumers, g \in Groups : k = Group(d, g)
        BY <4>1, KeyKinds, ApiIs, PluginIs, ConsumerIs, CredentialIs
      <4>3. d = c
        BY <4>1, <4>2, GroupIs
      <4> QED BY <2>1, <4>1, <4>2, <4>3 DEF Saved, GroupsRight
    <3>2. ASSUME NEW g \in InputGroups[version][c]
          PROVE  Group(c, g) \in SavedGroups(c)
      BY <2>1, AreKeys, GroupIs DEF Saved, GroupsRight, SavedGroups
    <3> QED BY <3>1, <3>2
  <2> QED BY <1>2, <2>1, <2>2 DEF Saved, LimitRight
<1> QED BY <1>1, <1>2

(* A run that ends well leaves the consumers of its input and no other,    *)
(* each with exactly its groups, a credential and its rate limits, however *)
(* far earlier runs got and whatever they lost (kong_consumers.py:45-66).  *)
(* It holds of releases that do not both take away and set rate limits of  *)
(* one API: line 97 deletes another plugin than the one it means, which    *)
(* may be the rate limit of a consumer the run has dealt with before.      *)
THEOREM RunsConverge ==
  ASSUME LimitsApart
  PROVE  Spec => []DoneMeansConverged
<1>1. Init => ConvergeInv
  BY DEF Init, ConvergeInv, AbsentGone, Dealt, CurrentRight, Loop, AtConsumer
<1>2. BaseInv /\ ConvergeInv /\ [Next]_vars => ConvergeInv'
  BY ConvergeStep
<1>3. BaseInv /\ ConvergeInv => DoneMeansConverged
  BY DoneIsConverged
<1> QED BY <1>1, <1>2, <1>3, BaseAlways, PTL DEF Spec
-----------------------------------------------------------------------------
(* What a step does besides: Kong keeps owners, and APIs with the plugins  *)
(* of their own are left alone, unless a rate limit is taken away.         *)
KeepsLimits ==
  \A v \in Versions : \A c \in InputConsumers(v) :
    \A a \in DOMAIN Limits[v][c] : Limits[v][c][a] = "present"

LEMMA StepAttempts ==
  ASSUME [Next]_vars
  PROVE  \/ UNCHANGED kong
         \/ \E req \in pending : Accepted(req) /\ Effect(req)
<1>1. CASE \E req \in pending : Send(req) \/ SendFails(req)
  BY <1>1, SendIs
<1> QED BY <1>1 DEF Next, Start, RemoveConsumer, AllRemoved, EnsureConsumer, SaveGroups,
       SaveCredential, SaveLimit, Read, ConsumerSaved, Aborted, Abort, vars, client

LEMMA StepOwned ==
  ASSUME BaseInv, Owned, [Next]_vars
  PROVE  Owned'
<1>1. CASE UNCHANGED kong
  BY <1>1 DEF Owned, Present
<1>2. CASE \E req \in pending : Accepted(req) /\ Effect(req)
  <2>1. PICK req \in pending : Accepted(req) /\ Effect(req)
    BY <1>2
  <2>2. WellFormed(req) /\ Target(req) \in Keys
    BY RequestIs
  <2>3. Owners(Target(req)) = Owners(req.key)
    <3>1. CASE CreatesCredential(req)
      <4>1. PICK n \in 1 .. MaxCredentials : Target(req) = Credential(current, n)
        BY <3>1, RequestIs
      <4>2. req.key = Credential(current, 0)
        BY <3>1, PostIs DEF CreatesCredential
      <4> QED BY <4>1, <4>2, CredentialIs
    <3>2. CASE ~CreatesCredential(req)
      BY <3>2, RequestIs
    <3> QED BY <3>1, <3>2
  <2> QED BY <2>1, <2>2, <2>3, EffectOwned
<1> QED BY <1>1, <1>2, StepAttempts

LEMMA StepElsewhere ==
  ASSUME KeepsLimits, BaseInv, [Next]_vars, NEW k \in Keys,
         k[1] = "api" \/ (k[1] = "plugin" /\ k[4] = Nobody)
  PROVE  kong'[k] = kong[k]
<1>1. CASE \E req \in pending : Accepted(req) /\ Effect(req)
  <2>1. PICK req \in pending : Accepted(req) /\ Effect(req)
    BY <1>1
  <2>2. CASE stage = "absent"
    <3>1. PICK c \in Consumers \ InputConsumers(version) :
                 \A l \in Keys : kong'[l] = IF l = Consumer(c) \/ Consumer(c) \in Owners(l)
                                            THEN Absent ELSE kong[l]
      BY <2>1, <2>2, RemovalEffect
    <3>2. Consumer(c) \notin Owners(k) /\ k # Consumer(c)
      BY ConsumerIs, ApiIs DEF Owners
    <3> QED BY <3>1, <3>2
  <2>3. CASE stage # "absent"
    <3>1. current \in InputConsumers(version) /\ current # Nobody /\ version \in Versions
      BY <2>3, TargetAt, NamesAssumption DEF BaseInv, TypesOK
    <3>2. ~GivenUp(Target(req))
      BY <3>1 DEF GivenUp, KeepsLimits
    <3>3. Whose(Target(req)) = current
      BY <2>3, <3>2, TargetAt
    <3>4. Target(req)[1] # "api"
      <4>1. CASE stage = "groups"
        BY <2>3, <4>1, TargetAt, ConsumerIs
      <4>2. CASE stage = "credential"
        BY <2>3, <4>2, TargetAt, GroupIs
      <4>3. CASE stage = "limits"
        BY <2>3, <4>3, TargetAt
      <4> QED BY <2>3, <4>1, <4>2, <4>3, TargetAt DEF AtConsumer
    <3>5. k # Target(req)
      BY <3>1, <3>3, <3>4 DEF Whose
    <3> QED BY <2>1, <2>3, <3>5, SingleEffect
  <2> QED BY <2>2, <2>3
<1> QED BY <1>1, StepAttempts
=============================================================================
