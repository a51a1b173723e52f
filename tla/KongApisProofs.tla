---------------------------- MODULE KongApisProofs ----------------------------
(***************************************************************************)
(* kong_apis.py converges, and takes nothing down that stays, for any      *)
(* APIs, plugins, releases of the input, page size, number of attempts and *)
(* number of faults.                                                       *)
(***************************************************************************)
EXTENDS KongApis, KongAdminProofs

(* What an entity the script manages is to be in the end. *)
Goal(k) == IF k \in Wanted(version) THEN version ELSE Absent

(* What is visited has its goal, or a request on its way.  (The plugins of *)
(* an API that is to go are not listed: Kong deletes them with the API.)   *)
Visited(k) == k[1] = "api" \/ k[2] \in InputApis(version) \ unvisited

Rightful(req) ==
  /\ req.key \in Managed
  /\ IF req.key \in Wanted(version)
     THEN req.method \in {"POST", "PATCH"} /\ req.value = version
     ELSE req.method = "DELETE" /\ req.value = Absent

PendingRightful == \A req \in pending : Rightful(req)

Listed == stage = "plugins" => unvisited \subseteq InputApis(version)

Quiet == stage # "plugins" => pending = {}

Settled ==
  stage = "plugins" =>
    \A k \in Managed : Visited(k) =>
      kong[k] = Goal(k) \/ \E req \in pending : req.key = k

(* What the script relies on for its requests, whoever else changes Kong,  *)
(* and what it reaches when nobody else changes what it manages.           *)
RequestsInv == TypeOK /\ Listed /\ Quiet /\ PendingRightful

ApisInv == RequestsInv /\ Settled /\ Owned /\ DoneMeansConverged

-----------------------------------------------------------------------------
(* The entities of the script *)
LEMMA ManagedKinds ==
  ASSUME NEW k \in Managed
  PROVE  /\ k \in Keys
         /\ \/ \E a \in Apis : k = Api(a)
            \/ \E a \in Apis, p \in Plugins : k = Plugin(a, p, Nobody)
<1>1. k \in Keys /\ (k[1] = "api" \/ (k[1] = "plugin" /\ k[4] = Nobody))
  BY DEF Managed
<1>2. CASE \E a \in Apis : k = Api(a)
  BY <1>1, <1>2
<1>3. CASE \E a \in Apis, p \in Plugins, c \in Consumers \union {Nobody} :
             k = Plugin(a, p, c)
  <2>1. PICK a \in Apis, p \in Plugins, c \in Consumers \union {Nobody} :
               k = Plugin(a, p, c)
    BY <1>3
  <2>2. c = Nobody
    BY <1>1, <2>1, PluginIs
  <2> QED BY <1>1, <2>1, <2>2
<1>4. CASE \E c \in Consumers : k = Consumer(c)
  BY <1>1, <1>4, ConsumerIs
<1>5. CASE \E c \in Consumers, g \in Groups : k = Group(c, g)
  BY <1>1, <1>5, GroupIs
<1>6. CASE \E c \in Consumers, n \in 1 .. MaxCredentials : k = Credential(c, n)
  BY <1>1, <1>6, CredentialIs
<1> QED BY <1>1, <1>2, <1>3, <1>4, <1>5, <1>6, KeyKinds

LEMMA AreManaged ==
  /\ \A a \in Apis : Api(a) \in Managed
  /\ \A a \in Apis, p \in Plugins : Plugin(a, p, Nobody) \in Managed
<1>1. ASSUME NEW a \in Apis PROVE Api(a) \in Managed
  BY AreKeys, ApiIs DEF Managed
<1>2. ASSUME NEW a \in Apis, NEW p \in Plugins PROVE Plugin(a, p, Nobody) \in Managed
  BY AreKeys, PluginIs DEF Managed
<1> QED BY <1>1, <1>2

LEMMA WantedApi ==
  ASSUME NEW v \in Versions, NEW a \in Apis
  PROVE  Api(a) \in Wanted(v) <=> a \in InputApis(v)
<1>1. Api(a)[1] = "api" /\ (\A b : Api(b) = Api(a) => b = a)
  BY ApiIs
<1> QED BY <1>1 DEF Wanted

LEMMA WantedPlugin ==
  ASSUME NEW v \in Versions, NEW a \in Apis, NEW p \in Plugins
  PROVE  Plugin(a, p, Nobody) \in Wanted(v)
           <=> a \in InputApis(v) /\ p \in Input[v][a]
<1> DEFINE k == Plugin(a, p, Nobody)
<1>1. k \in Keys /\ k[1] = "plugin" /\ k[2] = a /\ k[3] = p /\ k[4] = Nobody
  BY AreKeys, PluginIs
<1>2. \A b : Api(b) # k
  BY <1>1, ApiIs
<1> HIDE DEF k
<1>3. k \in Wanted(v) <=> k[2] \in InputApis(v) /\ k[3] \in Input[v][k[2]]
  BY <1>1, <1>2 DEF Wanted
<1> QED BY <1>1, <1>3 DEF k

-----------------------------------------------------------------------------
(* Reconcile sends a request for every entity that is wanted or saved, and *)
(* each of them does what is wanted of its entity.                         *)
LEMMA ReconcileIs ==
  ASSUME NEW wanted \in SUBSET Keys, NEW saved \in SUBSET Keys, NEW v \in Versions
  PROVE  /\ Reconcile(wanted, saved, v) \subseteq
              [method : {"POST", "PATCH", "DELETE"}, key : Keys,
               value : Versions \union {Absent}]
         /\ \A req \in Reconcile(wanted, saved, v) :
              /\ req.key \in wanted \union saved
              /\ IF req.key \in wanted
                 THEN req.method \in {"POST", "PATCH"} /\ req.value = v
                 ELSE req.method = "DELETE" /\ req.value = Absent
         /\ \A k \in wanted \union saved :
              \E req \in Reconcile(wanted, saved, v) : req.key = k
<1>1. ASSUME NEW req \in Reconcile(wanted, saved, v)
      PROVE  /\ req \in [method : {"POST", "PATCH", "DELETE"}, key : Keys,
                         value : Versions \union {Absent}]
             /\ req.key \in wanted \union saved
             /\ IF req.key \in wanted
                THEN req.method \in {"POST", "PATCH"} /\ req.value = v
                ELSE req.method = "DELETE" /\ req.value = Absent
  <2>1. CASE \E k \in wanted \ saved : req = Post(k, v)
    BY <2>1 DEF Post
  <2>2. CASE \E k \in wanted \intersect saved : req = Patch(k, v)
    BY <2>2 DEF Patch
  <2>3. CASE \E k \in saved \ wanted : req = Delete(k)
    BY <2>3 DEF Delete
  <2> QED BY <2>1, <2>2, <2>3 DEF Reconcile
<1>2. ASSUME NEW k \in wanted \union saved
      PROVE  \E req \in Reconcile(wanted, saved, v) : req.key = k
  <2>1. CASE k \in wanted \ saved
    <3>1. Post(k, v) \in Reconcile(wanted, saved, v)
      BY <2>1 DEF Reconcile
    <3> QED BY <3>1, PostIs
  <2>2. CASE k \in wanted \intersect saved
    <3>1. Patch(k, v) \in Reconcile(wanted, saved, v)
      BY <2>2 DEF Reconcile
    <3> QED BY <3>1, PatchIs
  <2>3. CASE k \in saved \ wanted
    <3>1. Delete(k) \in Reconcile(wanted, saved, v)
      BY <2>3 DEF Reconcile
    <3> QED BY <3>1, DeleteIs
  <2> QED BY <2>1, <2>2, <2>3
<1> QED BY <1>1, <1>2

-----------------------------------------------------------------------------
(* A rightful request brings its entity to its goal, and leaves the others *)
(* as they are or, what it takes away with an API, brings them to theirs.  *)
LEMMA EffectOnManaged ==
  ASSUME TypeOK, NEW req, Rightful(req), Effect(req)
  PROVE  /\ Target(req) = req.key /\ WellFormed(req)
         /\ kong'[req.key] = Goal(req.key)
         /\ \A k \in Managed : kong'[k] = kong[k] \/ kong'[k] = Goal(k)
         /\ \A k \in Keys : k[1] = "plugin" /\ k[2] \in InputApis(version)
                              /\ k[4] # Nobody => kong'[k] = kong[k]
<1>1. req.key \in Keys /\ req.key[1] # "jwt"
      /\ (req.method \in {"POST", "PATCH", "DELETE"})
  BY DEF Rightful, Managed
<1>2. Target(req) = req.key
  BY <1>1, TargetIs
<1>3. version \in Versions
  BY DEF TypeOK
<1>4. WellFormed(req)
  BY <1>3 DEF Rightful, WellFormed
<1>5. req.value = Goal(req.key)
  BY DEF Rightful, Goal
<1>6. kong'[req.key] = Goal(req.key)
  BY <1>1, <1>2, <1>5, EffectOn
<1>7. \A a \in Apis : req.method = "DELETE" /\ req.key = Api(a)
                        => a \notin InputApis(version)
  BY <1>3, WantedApi DEF Rightful
<1>8. ASSUME NEW k \in Managed, k # req.key
      PROVE  kong'[k] = kong[k] \/ kong'[k] = Goal(k)
  <2>1. CASE \E a \in Apis : k = Api(a)
    <3>1. k \in Keys /\ Owners(k) = {}
      BY <2>1, ManagedKinds, ApiIs
    <3> QED BY <1>2, <1>8, <3>1, EffectOn
  <2>2. CASE \E a \in Apis, p \in Plugins : k = Plugin(a, p, Nobody)
    <3>1. PICK a \in Apis, p \in Plugins : k = Plugin(a, p, Nobody)
      BY <2>2
    <3>2. k \in Keys /\ Owners(k) = {Api(a)}
      BY <3>1, ManagedKinds, PluginIs
    <3>3. kong'[k] = kong[k]
            \/ (kong'[k] = Absent /\ req.method = "DELETE" /\ req.key = Api(a))
      BY <1>2, <1>8, <3>2, EffectOn
    <3>4. a \notin InputApis(version) => Goal(k) = Absent
      BY <1>3, <3>1, WantedPlugin DEF Goal
    <3> QED BY <1>7, <3>3, <3>4
  <2> QED BY <2>1, <2>2, ManagedKinds
<1>9. ASSUME NEW k \in Keys, k[1] = "plugin", k[2] \in InputApis(version),
             k[4] # Nobody
      PROVE  kong'[k] = kong[k]
  <2>1. k \notin Managed
    BY <1>9 DEF Managed
  <2>2. k # req.key
    BY <2>1 DEF Rightful
  <2>3. \A o \in Owners(k) : o[1] = "api" => o = Api(k[2])
    BY <1>9, ConsumerIs DEF Owners
  <2>4. ~(req.method = "DELETE" /\ req.key \in Owners(k))
    <3> SUFFICES ASSUME req.method = "DELETE", req.key \in Owners(k)
                 PROVE  FALSE
      OBVIOUS
    <3>1. req.key \in Managed /\ Owners(req.key) = {}
      BY OwnersAre DEF Rightful
    <3>2. PICK a \in Apis : req.key = Api(a)
      <4>1. \A a, p : req.key # Plugin(a, p, Nobody)
        BY <3>1, PluginIs
      <4> QED BY <3>1, <4>1, ManagedKinds
    <3>3. a = k[2]
      BY <2>3, <3>2, ApiIs
    <3> QED BY <1>7, <1>9, <3>2, <3>3
  <2> QED BY <1>2, <2>2, <2>4, EffectOn
<1> QED BY <1>2, <1>4, <1>6, <1>8, <1>9

LEMMA InitApis == Init => ApisInv
<1> SUFFICES ASSUME Init PROVE ApisInv
  OBVIOUS
<1>1. TypeOK
  BY BoundsAssumption DEF Init, TypeOK, Stages
<1>2. Owned
  BY DEF Init, Owned, Present
<1> QED BY <1>1, <1>2 DEF Init, ApisInv, RequestsInv, Listed, Quiet, PendingRightful,
           Settled, DoneMeansConverged

(* One attempt at a pending request. *)
LEMMA AttemptApis ==
  ASSUME RequestsInv, NEW req \in pending, Attempt(req), CountersOK',
         UNCHANGED <<version, unvisited>>
  PROVE  RequestsInv' /\ (ApisInv => ApisInv')
<1>1. TypeOK /\ Rightful(req) /\ stage = "plugins"
  BY DEF RequestsInv, PendingRightful, Quiet
<1>2. \A k \in Managed : Goal(k)' = Goal(k)
  BY DEF Goal, Wanted, InputApis
<1>3. pending' \subseteq pending
  BY DEF Attempt
<1>4. stage' = "plugins" \/ (stage' = "failed" /\ pending' = {})
  BY <1>1 DEF Attempt
<1>5. UNCHANGED kong \/ Effect(req)
  BY DEF Attempt
<1>6. kong' \in [Keys -> Versions \union {Absent}]
  <2>1. kong \in [Keys -> Values]
    BY <1>1 DEF TypeOK, Values
  <2>2. Effect(req) => kong' \in [Keys -> Values]
    BY <1>1, <2>1, EffectOnManaged, EffectType
  <2> QED BY <1>5, <2>1, <2>2 DEF Values
<1>7. TypeOK'
  BY <1>1, <1>3, <1>4, <1>6 DEF TypeOK, Stages, CountersOK
<1>8. PendingRightful'
  BY <1>3 DEF RequestsInv, PendingRightful, Rightful, Wanted, InputApis
<1>9. Quiet' /\ Listed' /\ DoneMeansConverged'
  BY <1>4 DEF RequestsInv, Quiet, Listed, DoneMeansConverged, InputApis
<1>10. ASSUME ApisInv PROVE Owned'
  <2>1. CASE UNCHANGED kong
    BY <1>10, <2>1 DEF ApisInv, Owned, Present
  <2>2. CASE Accepted(req) /\ Effect(req)
    <3>1. Target(req) = req.key /\ WellFormed(req) /\ req.key \in Keys
      BY <1>1, <2>2, EffectOnManaged DEF Rightful, Managed
    <3> QED BY <1>10, <2>2, <3>1, EffectOwned DEF ApisInv
  <2> QED BY <2>1, <2>2 DEF Attempt
<1>11. ASSUME ApisInv PROVE Settled'
  <2> SUFFICES ASSUME stage' = "plugins", NEW k \in Managed, Visited(k)'
               PROVE  kong'[k] = Goal(k) \/ \E r \in pending' : r.key = k
    BY <1>2 DEF Settled
  <2>1. Visited(k)
    BY DEF Visited, InputApis
  <2>2. kong[k] = Goal(k) \/ \E r \in pending : r.key = k
    BY <1>1, <1>11, <2>1 DEF ApisInv, Settled
  <2>3. kong[k] = Goal(k) => kong'[k] = Goal(k)
    BY <1>1, <1>5, EffectOnManaged
  <2>4. pending' = pending \/ (pending' = pending \ {req} /\ kong'[req.key] = Goal(req.key))
    BY <1>1, EffectOnManaged DEF Attempt
  <2> QED BY <2>2, <2>3, <2>4
<1> QED BY <1>7, <1>8, <1>9, <1>10, <1>11 DEF ApisInv, RequestsInv

LEMMA ListApisKeeps ==
  ASSUME RequestsInv, ListApis
  PROVE  RequestsInv' /\ (ApisInv => ApisInv')
<1>1. TypeOK /\ stage = "apis" /\ pending = {} /\ version \in Versions
  BY DEF RequestsInv, Quiet, ListApis, TypeOK
<1>2. UNCHANGED <<kong, faults, tries, version>> /\ (Owned => Owned')
  BY DEF ListApis, Owned, Present
<1>3. CASE stage' = "failed" /\ UNCHANGED <<pending, unvisited>>
  BY <1>1, <1>2, <1>3 DEF ApisInv, RequestsInv, TypeOK, Stages, Listed, Quiet, PendingRightful,
                          Settled, DoneMeansConverged
<1>4. CASE /\ stage' = "plugins"
           /\ pending' = Reconcile({Api(a) : a \in InputApis(version)}, SavedApis, version)
           /\ unvisited' = InputApis(version)
  <2> DEFINE wanted == {Api(a) : a \in InputApis(version)}
  <2>1. InputApis(version) \subseteq Apis
    BY <1>1, InputAssumption DEF InputApis
  <2>2. wanted \subseteq Keys /\ SavedApis \subseteq Keys
    BY <2>1, AreKeys DEF SavedApis, StoredApis
  <2>3. \A a \in Apis : Api(a) \in wanted <=> a \in InputApis(version)
    BY ApiIs
  <2>4. \A a \in Apis : Api(a) \in SavedApis <=> Present(Api(a))
    BY ApiIs DEF SavedApis, StoredApis
  <2>5. \A k \in wanted \union SavedApis : \E a \in Apis : k = Api(a)
    BY <2>1 DEF SavedApis, StoredApis
  <2> HIDE DEF wanted
  <2>6. pending' = Reconcile(wanted, SavedApis, version)
    BY <1>4 DEF wanted
  <2>7. TypeOK'
    BY <1>1, <1>2, <1>4, <2>1, <2>2, <2>6, ReconcileIs DEF TypeOK, Stages
  <2>8. PendingRightful'
    <3> SUFFICES ASSUME NEW req \in pending' PROVE Rightful(req)
      BY <1>2 DEF PendingRightful, Rightful, Wanted, InputApis
    <3>1. /\ req.key \in wanted \union SavedApis
          /\ IF req.key \in wanted
             THEN req.method \in {"POST", "PATCH"} /\ req.value = version
             ELSE req.method = "DELETE" /\ req.value = Absent
      BY <1>1, <2>2, <2>6, ReconcileIs
    <3>2. PICK a \in Apis : req.key = Api(a)
      BY <2>5, <3>1
    <3>3. req.key \in Managed /\ (req.key \in Wanted(version) <=> req.key \in wanted)
      BY <1>1, <2>3, <3>2, AreManaged, WantedApi
    <3> QED BY <3>1, <3>3 DEF Rightful
  <2>9. Settled'
    <3> SUFFICES ASSUME NEW k \in Managed, Visited(k)'
                 PROVE  kong[k] = Goal(k) \/ \E req \in pending' : req.key = k
      BY <1>2 DEF Settled, Goal, Wanted, InputApis
    <3>1. k[1] = "api"
      BY <1>2, <1>4 DEF Visited, InputApis
    <3>2. PICK a \in Apis : k = Api(a)
      BY <3>1, ManagedKinds, PluginIs
    <3>3. CASE k \in wanted \union SavedApis
      BY <1>1, <2>2, <2>6, <3>3, ReconcileIs
    <3>4. CASE k \notin wanted \union SavedApis
      BY <1>1, <2>3, <2>4, <3>2, <3>4, WantedApi DEF Goal, Present
    <3> QED BY <3>3, <3>4
  <2>10. Listed' /\ Quiet' /\ DoneMeansConverged'
    BY <1>2, <1>4 DEF Listed, Quiet, DoneMeansConverged, InputApis
  <2> QED BY <1>2, <2>7, <2>8, <2>9, <2>10 DEF ApisInv, RequestsInv
<1> QED BY <1>3, <1>4 DEF ListApis

LEMMA ListPluginsKeeps ==
  ASSUME RequestsInv, NEW a \in Apis, ListPlugins(a)
  PROVE  RequestsInv' /\ (ApisInv => ApisInv')
<1>1. /\ TypeOK /\ stage = "plugins" /\ pending = {} /\ version \in Versions
      /\ a \in unvisited /\ a \in InputApis(version)
  BY DEF RequestsInv, Listed, ListPlugins, Read, TypeOK
<1>2. /\ UNCHANGED <<kong, faults, tries, version>> /\ unvisited' = unvisited \ {a}
      /\ (Owned => Owned')
  BY DEF ListPlugins, Read, Owned, Present
<1>3. CASE stage' = "failed" /\ UNCHANGED pending
  BY <1>1, <1>2, <1>3 DEF ApisInv, RequestsInv, TypeOK, Stages, Listed, Quiet, PendingRightful,
                          Settled, DoneMeansConverged
<1>4. CASE /\ stage' = "plugins"
           /\ pending' = Reconcile({Plugin(a, p, Nobody) : p \in Input[version][a]},
                                   OwnPlugins(a), version)
  <2> DEFINE wanted == {Plugin(a, p, Nobody) : p \in Input[version][a]}
  <2>1. Input[version][a] \subseteq Plugins
    BY <1>1, InputAssumption DEF InputApis
  <2>2. wanted \subseteq Keys /\ OwnPlugins(a) \subseteq Keys
    BY <2>1, AreKeys DEF OwnPlugins
  <2>3. \A p \in Plugins : Plugin(a, p, Nobody) \in wanted <=> p \in Input[version][a]
    BY PluginIs
  <2>4. \A p \in Plugins : Plugin(a, p, Nobody) \in OwnPlugins(a)
                             <=> Present(Plugin(a, p, Nobody))
    BY PluginIs, AreKeys DEF OwnPlugins
  <2>5. \A k \in wanted \union OwnPlugins(a) :
          \E p \in Plugins : k = Plugin(a, p, Nobody)
    <3>1. \A k \in wanted : \E p \in Plugins : k = Plugin(a, p, Nobody)
      BY <2>1
    <3>2. ASSUME NEW k \in OwnPlugins(a)
          PROVE  \E p \in Plugins : k = Plugin(a, p, Nobody)
      <4>1. k \in Managed /\ k[1] = "plugin" /\ k[2] = a
        BY DEF OwnPlugins, Managed
      <4>2. PICK b \in Apis, p \in Plugins : k = Plugin(b, p, Nobody)
        BY <4>1, ManagedKinds, ApiIs
      <4>3. b = a
        BY <4>1, <4>2, PluginIs
      <4> QED BY <4>2, <4>3
    <3> QED BY <3>1, <3>2
  <2> HIDE DEF wanted
  <2>6. pending' = Reconcile(wanted, OwnPlugins(a), version)
    BY <1>4 DEF wanted
  <2>7. TypeOK'
    BY <1>1, <1>2, <1>4, <2>2, <2>6, ReconcileIs DEF TypeOK, Stages
  <2>8. PendingRightful'
    <3> SUFFICES ASSUME NEW req \in pending' PROVE Rightful(req)
      BY <1>2 DEF PendingRightful, Rightful, Wanted, InputApis
    <3>1. /\ req.key \in wanted \union OwnPlugins(a)
          /\ IF req.key \in wanted
             THEN req.method \in {"POST", "PATCH"} /\ req.value = version
             ELSE req.method = "DELETE" /\ req.value = Absent
      BY <1>1, <2>2, <2>6, ReconcileIs
    <3>2. PICK p \in Plugins : req.key = Plugin(a, p, Nobody)
      BY <2>5, <3>1
    <3>3. req.key \in Managed /\ (req.key \in Wanted(version) <=> req.key \in wanted)
      BY <1>1, <2>3, <3>2, AreManaged, WantedPlugin
    <3> QED BY <3>1, <3>3 DEF Rightful
  <2>9. ASSUME ApisInv PROVE Settled'
    <3> SUFFICES ASSUME NEW k \in Managed, Visited(k)'
                 PROVE  kong[k] = Goal(k) \/ \E req \in pending' : req.key = k
      BY <1>2 DEF Settled, Goal, Wanted, InputApis
    <3>1. CASE Visited(k)
      BY <1>1, <2>9, <3>1 DEF ApisInv, Settled
    <3>2. CASE ~Visited(k)
      <4>1. k[1] # "api" /\ k[2] = a
        BY <1>2, <3>2 DEF Visited, InputApis
      <4>2. PICK b \in Apis, p \in Plugins : k = Plugin(b, p, Nobody)
        BY <4>1, ManagedKinds, ApiIs
      <4>3. k = Plugin(a, p, Nobody)
        BY <4>1, <4>2, PluginIs
      <4>4. CASE k \in wanted \union OwnPlugins(a)
        BY <1>1, <2>2, <2>6, <4>4, ReconcileIs
      <4>5. CASE k \notin wanted \union OwnPlugins(a)
        BY <1>1, <2>3, <2>4, <4>3, <4>5, WantedPlugin DEF Goal, Present
      <4> QED BY <4>4, <4>5
    <3> QED BY <3>1, <3>2
  <2>10. Listed' /\ Quiet' /\ DoneMeansConverged'
    <3>1. unvisited' \subseteq InputApis(version')
      BY <1>1, <1>2 DEF RequestsInv, Listed
    <3> QED BY <1>4, <3>1 DEF Listed, Quiet, DoneMeansConverged
  <2> QED BY <1>2, <2>7, <2>8, <2>9, <2>10 DEF ApisInv, RequestsInv
<1> QED BY <1>3, <1>4 DEF ListPlugins, Read

(* At the end every entity is visited, but for the plugins of APIs that    *)
(* are not wanted: those have lost their owner.                            *)
LEMMA FinishKeeps ==
  ASSUME RequestsInv, Finish
  PROVE  RequestsInv' /\ (ApisInv => ApisInv')
<1>1. /\ TypeOK /\ stage = "plugins" /\ pending = {} /\ unvisited = {}
      /\ version \in Versions
      /\ UNCHANGED <<kong, faults, pending, tries, version, unvisited>>
      /\ stage' = "done"
  BY DEF RequestsInv, Finish, TypeOK
<1>2. ApisInv => \A k \in Managed : Visited(k) => kong[k] = Goal(k)
  BY <1>1 DEF ApisInv, Settled
<1>3. ASSUME ApisInv, NEW k \in Managed PROVE kong[k] = Goal(k)
  <2>1. CASE \E a \in Apis : k = Api(a)
    BY <1>2, <1>3, <2>1, ApiIs DEF Visited
  <2>2. CASE \E a \in Apis, p \in Plugins : k = Plugin(a, p, Nobody)
    <3>1. PICK a \in Apis, p \in Plugins : k = Plugin(a, p, Nobody)
      BY <2>2
    <3>2. CASE a \in InputApis(version)
      <4>1. Visited(k)
        BY <1>1, <3>1, <3>2, PluginIs DEF Visited
      <4> QED BY <1>2, <1>3, <4>1
    <3>3. CASE a \notin InputApis(version)
      <4>1. Api(a) \in Managed /\ Visited(Api(a)) /\ Goal(Api(a)) = Absent
        BY <1>1, <3>3, AreManaged, ApiIs, WantedApi DEF Visited, Goal
      <4>2. ~Present(Api(a))
        BY <1>2, <1>3, <4>1 DEF Present
      <4>3. k \in Keys /\ Api(a) \in Owners(k)
        BY <3>1, ManagedKinds, PluginIs
      <4>4. ~Present(k)
        BY <1>3, <4>2, <4>3 DEF ApisInv, Owned
      <4>5. Goal(k) = Absent
        BY <1>1, <3>1, <3>3, WantedPlugin DEF Goal
      <4> QED BY <4>4, <4>5 DEF Present
    <3> QED BY <3>2, <3>3
  <2> QED BY <2>1, <2>2, ManagedKinds
<1>4. ApisInv => DoneMeansConverged'
  BY <1>1, <1>3 DEF DoneMeansConverged, Goal, Wanted, InputApis
<1>5. RequestsInv' /\ Settled' /\ (Owned => Owned')
  BY <1>1 DEF RequestsInv, TypeOK, Stages, Owned, Present, Quiet, Listed,
              PendingRightful, Settled
<1> QED BY <1>4, <1>5 DEF ApisInv

LEMMA StartKeeps ==
  ASSUME RequestsInv, NEW v \in Versions, Start(v)
  PROVE  RequestsInv' /\ (ApisInv => ApisInv')
<1>1. /\ stage # "plugins" /\ stage' = "apis" /\ version' = v
      /\ UNCHANGED <<kong, faults, pending, tries, unvisited>>
  BY DEF Start, Running
<1>2. pending = {}
  BY <1>1 DEF RequestsInv, Quiet
<1> QED BY <1>1, <1>2 DEF ApisInv, RequestsInv, TypeOK, Stages, Owned, Present, Quiet, Listed,
           PendingRightful, Settled, DoneMeansConverged

LEMMA AbortKeeps ==
  ASSUME RequestsInv, Aborted
  PROVE  RequestsInv' /\ (ApisInv => ApisInv')
<1>1. /\ stage' = "failed" /\ pending' = {}
      /\ UNCHANGED <<kong, version, unvisited>>
  BY DEF Aborted, Abort
<1>2. CountersOK'
  BY AbortCounts DEF Aborted, RequestsInv, TypeOK, CountersOK
<1> QED BY <1>1, <1>2 DEF ApisInv, RequestsInv, TypeOK, CountersOK, Stages, Owned, Present, Quiet,
           Listed, PendingRightful, Settled, DoneMeansConverged

LEMMA SendKeeps ==
  ASSUME RequestsInv, NEW req \in pending, Send(req) \/ SendFails(req)
  PROVE  RequestsInv' /\ (ApisInv => ApisInv')
<1>1. /\ Answered(req) \/ Rejected(req) \/ Refused(req) \/ Lost(req)
      /\ UNCHANGED <<version, unvisited>>
  BY DEF Send, SendFails
<1>2. CountersOK
  BY DEF RequestsInv, TypeOK, CountersOK
<1> QED BY <1>1, <1>2, AttemptOf, AttemptCounts, AttemptApis

LEMMA ApisStep ==
  ASSUME RequestsInv, [Next]_vars
  PROVE  RequestsInv' /\ (ApisInv => ApisInv')
<1>1. CASE \E v \in Versions : Start(v)
  BY <1>1, StartKeeps
<1>2. CASE ListApis
  BY <1>2, ListApisKeeps
<1>3. CASE \E a \in Apis : ListPlugins(a)
  BY <1>3, ListPluginsKeeps
<1>4. CASE Finish
  BY <1>4, FinishKeeps
<1>5. CASE \E req \in pending : Send(req) \/ SendFails(req)
  BY <1>5, SendKeeps
<1>6. CASE Aborted
  BY <1>6, AbortKeeps
<1>7. CASE UNCHANGED vars
  BY <1>7 DEF vars, client, ApisInv, RequestsInv, TypeOK, Owned, Present, Quiet, Listed,
              PendingRightful, Rightful, Settled, Visited, Goal, Wanted, InputApis,
              DoneMeansConverged
<1> QED BY <1>1, <1>2, <1>3, <1>4, <1>5, <1>6, <1>7 DEF Next

(* What a step of this script does to what it does not manage: nothing,    *)
(* but for the overrides of APIs that are to go.                           *)
LEMMA StepElsewhere ==
  ASSUME RequestsInv, [Next]_vars, NEW k \in Keys
  PROVE  /\ k[1] \notin {"api", "plugin"} => kong'[k] = kong[k]
         /\ k[1] = "plugin" /\ k[2] \in InputApis(version') /\ k[4] # Nobody
              => kong'[k] = kong[k]
<1>1. CASE \E req \in pending : Send(req) \/ SendFails(req)
  <2>1. PICK req \in pending : Send(req) \/ SendFails(req)
    BY <1>1
  <2>2. TypeOK /\ Rightful(req) /\ version' = version
    BY <2>1 DEF RequestsInv, PendingRightful, Send, SendFails
  <2>3. UNCHANGED kong \/ Effect(req)
    BY <2>1, AttemptOf DEF Send, SendFails, Attempt
  <2>4. k[1] \notin {"api", "plugin"} => kong'[k] = kong[k]
    <3> SUFFICES ASSUME k[1] \notin {"api", "plugin"}, Effect(req)
                 PROVE  kong'[k] = kong[k]
      BY <2>3
    <3>1. Target(req) = req.key /\ req.key \in Managed
      BY <2>2, EffectOnManaged DEF Rightful
    <3>2. k # req.key
      BY <3>1 DEF Managed
    <3>3. req.key \notin Owners(k)
      <4>1. \A o \in Owners(k) : o[1] = "consumer"
        BY ConsumerIs DEF Owners
      <4> QED BY <3>1, <4>1 DEF Managed
    <3> QED BY <3>1, <3>2, <3>3, EffectOn
  <2> QED BY <2>2, <2>3, <2>4, EffectOnManaged
<1>2. CASE UNCHANGED kong
  BY <1>2
<1> QED BY <1>1, <1>2 DEF Next, vars, client, Start, ListApis, ListPlugins, Read, Finish,
           Aborted, Abort

LEMMA StepFaults ==
  ASSUME [Next]_vars
  PROVE  faults' \in {faults, faults + 1}
<1>1. CASE \E req \in pending : Send(req) \/ SendFails(req)
  BY <1>1 DEF Send, SendFails, Answered, Rejected, Refused, Lost, Fault
<1> QED BY <1>1 DEF Next, vars, client, Start, ListApis, ListPlugins, Read, Finish,
           Aborted, Abort, Fault

LEMMA ApisAlways == Spec => []ApisInv
<1>1. ApisInv /\ [Next]_vars => ApisInv'
  BY ApisStep DEF ApisInv
<1> QED BY InitApis, <1>1, PTL DEF Spec

(* Requests, lists and attempts are what the script can hold               *)
(* (kong_apis.py:22-84, common.py:9-45).                                   *)
THEOREM TypeCorrect == Spec => []TypeOK
<1>1. ApisInv => TypeOK
  BY DEF ApisInv, RequestsInv
<1> QED BY ApisAlways, <1>1, PTL

(* A run that ends well has left exactly the APIs and plugins of its       *)
(* input, in the release of the run, whatever earlier runs, lost answers   *)
(* and other releases have left behind (kong_apis.py:22-37).               *)
THEOREM RunsConverge == Spec => []DoneMeansConverged
<1>1. ApisInv => DoneMeansConverged
  BY DEF ApisInv
<1> QED BY ApisAlways, <1>1, PTL

(* No step takes down what the input keeps: the requests that change Kong  *)
(* are rightful ones (kong_apis.py:26-34).                                 *)
THEOREM KeepsServing == Spec => NoOutage
<1>1. ASSUME ApisInv, [Next]_vars, NEW k \in Wanted(version'), Present(k)
      PROVE  Present(k)'
  <2>1. CASE UNCHANGED kong
    BY <1>1, <2>1 DEF Present
  <2>2. CASE \E req \in pending : Send(req) \/ SendFails(req)
    <3>1. PICK req \in pending : Send(req) \/ SendFails(req)
      BY <2>2
    <3>2. TypeOK /\ Rightful(req) /\ version \in Versions /\ version' = version
      BY <1>1, <3>1 DEF ApisInv, RequestsInv, TypeOK, PendingRightful, Send, SendFails
    <3>3. UNCHANGED kong \/ Effect(req)
      BY <3>1, AttemptOf DEF Send, SendFails, Attempt
    <3>4. k \in Managed /\ Goal(k) = version
      <4>1. InputApis(version) \subseteq Apis
        BY <3>2, InputAssumption DEF InputApis
      <4>2. k \in Managed
        BY <1>1, <3>2, <4>1, AreManaged DEF Wanted, Managed
      <4> QED BY <1>1, <3>2, <4>2 DEF Goal
    <3>5. kong'[k] = kong[k] \/ kong'[k] = version
      BY <3>2, <3>3, <3>4, EffectOnManaged
    <3> QED BY <1>1, <3>2, <3>5, NamesAssumption DEF Present
  <2>3. UNCHANGED kong \/ \E req \in pending : Send(req) \/ SendFails(req)
    BY <1>1 DEF Next, vars, client, Start, ListApis, ListPlugins, Read, Finish,
                Aborted, Abort
  <2> QED BY <2>1, <2>2, <2>3
<1>2. ApisInv /\ [Next]_vars
        => [\A k \in Wanted(version') : Present(k) => Present(k)']_vars
  BY <1>1
<1> QED BY ApisAlways, <1>2, PTL DEF Spec, NoOutage
=============================================================================
