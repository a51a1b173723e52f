----------------------------- MODULE Telemetry -----------------------------
(***************************************************************************)
(* The telemetry library of the login page (EkTelemetry), the             *)
(* TelemetrySyncManager that collects and posts what it dispatches, and    *)
(* the fingerprint that stands in for a device id.                         *)
(*                                                                         *)
(* Every call of the library writes its event into ONE shared object, the  *)
(* envelope, and hands that object on.  An event is therefore named here   *)
(* by the number of its call: what the envelope holds is always the event  *)
(* of the last call, Len(log).  When the device has no id yet, the event   *)
(* is dispatched by the callback of a fingerprint, which runs later and    *)
(* dispatches what the envelope holds THEN.                                *)
(*                                                                         *)
(* The sync manager queues shallow copies of what is dispatched; a copy is *)
(* named by its place in the sequence `copies' of everything dispatched.   *)
(***************************************************************************)
EXTENDS Naturals, Sequences, FiniteSets, Functions

CONSTANTS
    None,          \* what an option or a configuration leaves out
    Empty,         \* a context, actor, ... without an id of its own
    FingerPrint,   \* the id that Fingerprint2 computes for this browser
    Configs,       \* the configurations initialize and start are given
    Options,       \* the options an event is logged with
    Keys,          \* the values options and resets set: context, actor, ...
    DefaultBatch,  \* _defaultValue.batchsize, 20 in the code
    BatchLimit,    \* the largest batchsize init accepts, 1000 in the code
    PageBatches,   \* what the page assigns to Telemetry.config.batchsize
    MaxCalls, MaxChanges, MaxFailures     \* bounds of the exploration

ASSUME BatchAssumption ==
    /\ DefaultBatch \in Nat \ {0} /\ BatchLimit \in Nat \ {0}
    /\ PageBatches \subseteq 1..BatchLimit
    /\ DefaultBatch <= BatchLimit

ASSUME ValueAssumption ==
    /\ FingerPrint # None
    /\ {"context", "actor"} \subseteq Keys
    /\ \A c \in Configs :
          /\ c.batchsize \in (Nat \ {0}) \cup {None}
          /\ c.validation \in BOOLEAN \cup {None}
          /\ c.runningEnv \in {"client", "server", None}
    /\ \A o \in Options : o["runningEnv"] \in {"client", "server", None}

ASSUME BoundAssumption == MaxCalls \in Nat /\ MaxChanges \in Nat /\ MaxFailures \in Nat

VARIABLES
    config,        \* what init and the page's own assignments have set
    current,       \* _currentContext, _currentActor, ... by key
    log,           \* the events written into the envelope, one per call
    fingerPrintId, \* Telemetry.fingerPrintId, None until it is known
    timers,        \* fingerprints waiting for their setTimeout, oldest first
    startData,     \* the START events no END has popped
    FP_T           \* sessionStorage.FP_T

VARIABLES          \* TelemetrySyncManager and what became of its posts
    copies,        \* all that was dispatched: event `of', dispatched `by' a call
    teleData,      \* _teleData, the queue
    posts,         \* the batches of the posts that have no answer yet
    acked,         \* the copies in posts that were answered with success
    retried,       \* the copies some failed post put back into the queue
    changes, failures                     \* counters of the bounds

library == <<config, current, log, fingerPrintId, timers, startData>>
sync    == <<copies, teleData, posts, FP_T>>
answers == <<acked, retried, failures>>
vars    == <<library, sync, answers, changes>>

----------------------------------------------------------------------------
\* Fingerprint2 collects its components one after the other in one run of the
\* script, and gives up control at a component that is to pause before it
\* runs.  A component that is excluded is skipped before its pause.

Components ==
    <<"userAgent", "language", "colorDepth", "deviceMemory", "pixelRatio",
      "hardwareConcurrency", "screenResolution", "availableScreenResolution",
      "timezoneOffset", "timezone", "sessionStorage", "localStorage",
      "indexedDb", "addBehavior", "openDatabase", "cpuClass", "platform",
      "doNotTrack", "plugins", "canvas", "webgl", "webglVendorAndRenderer",
      "adBlock", "hasLiedLanguages", "hasLiedResolution", "hasLiedOs",
      "hasLiedBrowser", "touchSupport", "fonts", "fontsFlash", "audio",
      "enumerateDevices">>

pauseBefore == {"fonts", "fontsFlash"}

excludes ==
    {"enumerateDevices", "pixelRatio", "doNotTrack", "fontsFlash", "canvas",
     "screenResolution", "availableScreenResolution", "touchSupport",
     "plugins", "webgl", "audio", "language", "deviceMemory"}

Finished == Len(Components) + 1

\* (Mutant: a run that has waited waits at the same component again.)
chainWaitsAgain(i) ==
    LET pauses == {j \in (i + 1)..Len(Components) :
                       Components[j] \in pauseBefore \ excludes}
    IN  IF pauses = {} THEN i ELSE CHOOSE j \in pauses : \A k \in pauses : j <= k

\* The component at which a run that resumes after component i stops.
chainComponents(i) ==
    LET pauses == {j \in (i + 1)..Len(Components) :
                       Components[j] \in pauseBefore \ excludes}
    IN  IF pauses = {} THEN Finished
        ELSE CHOOSE j \in pauses : \A k \in pauses : j <= k

----------------------------------------------------------------------------
\* The sync manager.

\* (Mutant: the post takes the last events of the queue.)
syncLast(q) ==
    LET size == config'.batchsize
        n    == IF size = None THEN 0 ELSE IF size <= Len(q) THEN size ELSE Len(q)
    IN  /\ posts' = posts \cup {SubSeq(q, Len(q) - n + 1, Len(q))}
        /\ teleData' = SubSeq(q, 1, Len(q) - n)

\* A post takes the first batchsize events out of the queue q; before init
\* the size is undefined, and splice then takes none.  (Two empty posts are one
\* element of posts: their answers change nothing.)
syncEvents(q) ==
    LET size == config'.batchsize
        n    == IF size = None THEN 0 ELSE IF size <= Len(q) THEN size ELSE Len(q)
    IN  /\ posts' = posts \cup {SubSeq(q, 1, n)}
        /\ teleData' = SubSeq(q, n + 1, Len(q))

\* (Mutant: the listener is registered twice.)
sendTwice(n, m) ==
    LET q == teleData \o <<Len(copies) + 1, Len(copies) + 2>>
    IN  /\ copies' = copies \o <<[of |-> n, by |-> m], [of |-> n, by |-> m]>>
        /\ FP_T' = fingerPrintId'
        /\ syncEvents(q)

\* The listener of the 'TelemetryEvent' of event n, which call m dispatches.
sendTelemetry(n, m) ==
    LET q    == Append(teleData, Len(copies) + 1)
        full == config'.batchsize # None /\ Len(q) >= config'.batchsize
    IN  /\ copies' = Append(copies, [of |-> n, by |-> m])
        /\ FP_T' = fingerPrintId'
        /\ \/ (log'[n].eid = "END" \/ full) /\ syncEvents(q)
           \/ ~(log'[n].eid = "END" \/ full) /\ teleData' = q /\ UNCHANGED posts

----------------------------------------------------------------------------
\* The library.

\* (Mutant: the actor is left as it is.)
getActorUnchanged(actor, device) == actor

getActorId(actor, device) == IF actor = None THEN device ELSE actor

\* What options set stays for the calls that follow; what they leave out is kept.
updateValues(options) ==
    [k \in Keys |-> IF options[k] = None THEN current[k] ELSE options[k]]

\* The device id of the configuration goes into the global context.
updateConfigurations(c) == IF c.did = None THEN config.did ELSE c.did

\* (Mutant: the limit of the batch size is left out.)
initUnlimited(c) ==
    [initialized |-> TRUE,
     batchsize   |-> IF c.batchsize = None THEN DefaultBatch ELSE c.batchsize,
     runningEnv  |-> IF c.runningEnv = None THEN config.runningEnv ELSE c.runningEnv,
     validation  |-> IF c.validation = None THEN config.validation ELSE c.validation,
     did         |-> updateConfigurations(c),
     uid         |-> c.uid]

\* A configuration with no batchsize gets the default, a large one the limit.
init(c) ==
    [initialized |-> TRUE,
     batchsize   |-> IF c.batchsize = None THEN DefaultBatch
                     ELSE IF c.batchsize > BatchLimit THEN BatchLimit
                     ELSE c.batchsize,
     runningEnv  |-> IF c.runningEnv = None THEN config.runningEnv ELSE c.runningEnv,
     validation  |-> IF c.validation = None THEN config.validation ELSE c.validation,
     did         |-> updateConfigurations(c),
     uid         |-> c.uid]

\* The envelope of a call: values set by options win over the configured ones.
\* (env, dropped and amid are kept for the properties: where the event is to be
\* dispatched, whether validation drops it, and which calls were waiting for a
\* fingerprint when it was written.)
getEvent(eid, valid, now, cfg, env) ==
    [eid |-> eid, env |-> env, dropped |-> cfg.validation /\ ~valid,
     did   |-> IF now["context"] # Empty THEN now["context"] ELSE cfg.did,
     actor |-> IF now["actor"] # Empty THEN now["actor"] ELSE cfg.uid,
     amid  |-> {timers[i].call : i \in DOMAIN timers}]

\* (Mutant: no fingerprint is asked for while one is awaited.)
getOneFingerPrint(n) ==
    /\ timers' = IF timers # <<>> THEN timers
                 ELSE Append(timers, [call |-> n, at |-> chainComponents(0)])
    /\ UNCHANGED sync

\* A fingerprint for event n, which is dispatched by the callback.
getFingerPrint(n) ==
    /\ timers' = Append(timers, [call |-> n, at |-> chainComponents(0)])
    /\ UNCHANGED sync

\* What _dispatch does with the event e of the next call.
_dispatch(e) ==
    LET n       == Len(log) + 1
        device  == IF e.did # None THEN e.did ELSE fingerPrintId
        client  == e.env = "client" /\ ~e.dropped
        waiting == client /\ device = None
        named   == [e EXCEPT !.did = device, !.actor = getActorId(@, device)]
    IN  /\ log' = Append(log, IF client /\ ~waiting THEN named ELSE e)
        /\ UNCHANGED fingerPrintId
        /\ \/ /\ e.dropped
              /\ UNCHANGED <<timers, sync>>
           \/ /\ waiting
              /\ getFingerPrint(n)
           \/ /\ ~e.dropped /\ ~waiting
              /\ sendTelemetry(n, n)
              /\ UNCHANGED timers

\* One call of the library that writes an event.
Write(eid, valid, options, cfg) ==
    LET now == updateValues(options)
        env == IF options["runningEnv"] = None THEN cfg.runningEnv
               ELSE options["runningEnv"]
    IN  /\ Len(log) < MaxCalls
        /\ current' = now
        /\ config' = [cfg EXCEPT !.runningEnv = env]
        /\ _dispatch(getEvent(eid, valid, now, cfg, env))
        /\ UNCHANGED <<answers, changes>>

----------------------------------------------------------------------------
\* Its operations.

initialize(c) ==
    /\ ~config.initialized
    /\ config' = init(c)
    /\ UNCHANGED <<current, log, fingerPrintId, timers, startData, sync, answers, changes>>

\* start initializes a library that is not, when it is given a configuration.
\* The START is remembered although its event may have been dropped.
start(c, valid, options) ==
    /\ c # None => ~config.initialized
    /\ Write("START", valid, options, IF c = None THEN config ELSE init(c))
    /\ startData' = Append(startData, Len(log) + 1)

\* (Mutant: the oldest START is taken instead of the latest.)
endOldest(valid, options) ==
    /\ startData # <<>>
    /\ startData' = Tail(startData)
    /\ Write("END", valid, options, config)

end(valid, options) ==
    /\ startData # <<>>
    /\ startData' = SubSeq(startData, 1, Len(startData) - 1)
    /\ Write("END", valid, options, config)

\* impression, interact, assess, response, interrupt, feedback, share, audit,
\* error, heartbeat, log, search, metrics, exdata and summary.
event(valid, options) ==
    /\ Write("EVENT", valid, options, config)
    /\ UNCHANGED startData

resetValue(k, v) ==   \* resetContext, resetObject, resetActor and resetTags
    /\ changes < MaxChanges
    /\ current[k] # v
    /\ current' = [current EXCEPT ![k] = v]
    /\ changes' = changes + 1
    /\ UNCHANGED <<config, log, fingerPrintId, timers, startData, sync, answers>>

\* The login page sets the batch size in the configuration itself.
SetBatchsize(b) ==
    /\ changes < MaxChanges
    /\ config.batchsize # b
    /\ config' = [config EXCEPT !.batchsize = b]
    /\ changes' = changes + 1
    /\ UNCHANGED <<current, log, fingerPrintId, timers, startData, sync, answers>>

SyncEvents ==
    /\ changes < MaxChanges
    /\ changes' = changes + 1
    /\ UNCHANGED config
    /\ syncEvents(teleData)
    /\ UNCHANGED <<current, log, fingerPrintId, timers, startData, copies, FP_T, answers>>

----------------------------------------------------------------------------
\* What happens later.

\* The oldest timer fires.  Its fingerprint goes on to its next pause, or it
\* is complete: the callback then names the device in the envelope as it is
\* now, and dispatches it.  Validation is not repeated.
FingerprintResumes ==
    LET t  == Head(timers)
        at == chainComponents(t.at)
        n  == Len(log)
    IN  /\ timers # <<>>
        /\ \/ /\ at # Finished
              /\ timers' = Append(Tail(timers), [t EXCEPT !.at = at])
              /\ UNCHANGED <<log, fingerPrintId, config, sync>>
           \/ /\ at = Finished
              /\ timers' = Tail(timers)
              /\ log' = [log EXCEPT ![n].did = FingerPrint,
                                    ![n].actor = getActorId(@, FingerPrint)]
              /\ fingerPrintId' = FingerPrint
              /\ UNCHANGED config
              /\ sendTelemetry(n, t.call)
        /\ UNCHANGED <<current, startData, answers, changes>>

\* The answer to a post.  A failed one puts its events behind the queue; the
\* server may have taken them all the same.
PostDone(p) ==
    /\ posts' = posts \ {p}
    /\ acked' = acked \cup {p[i] : i \in DOMAIN p}
    /\ UNCHANGED <<library, copies, teleData, FP_T, retried, failures, changes>>

\* (Mutant: the events of the failed post take the place of the queue.)
replaceEventStack(events) == events

updateEventStack(events) == teleData \o events

PostFails(p) ==
    /\ failures < MaxFailures
    /\ posts' = posts \ {p}
    /\ teleData' = updateEventStack(p)
    /\ retried' = retried \cup {p[i] : i \in DOMAIN p}
    /\ failures' = failures + 1
    /\ UNCHANGED <<library, copies, FP_T, acked, changes>>

----------------------------------------------------------------------------
Init ==
    /\ config = [initialized |-> FALSE, batchsize |-> None, runningEnv |-> "client",
                 validation |-> FALSE, did |-> None, uid |-> None]
    /\ current = [k \in Keys |-> Empty]
    /\ log = <<>> /\ fingerPrintId = None /\ timers = <<>> /\ startData = <<>>
    /\ copies = <<>> /\ teleData = <<>> /\ posts = {} /\ FP_T = None
    /\ acked = {} /\ retried = {} /\ changes = 0 /\ failures = 0

Logs ==
    \E options \in Options, valid \in BOOLEAN :
        \/ \E c \in Configs \cup {None} : start(c, valid, options)
        \/ end(valid, options)
        \/ event(valid, options)

Changes ==
    \/ \E c \in Configs : initialize(c)
    \/ \E k \in Keys : resetValue(k, Empty)
    \/ \E o \in Options, k \in Keys : o[k] # None /\ resetValue(k, o[k])
    \/ \E b \in PageBatches : SetBatchsize(b)
    \/ SyncEvents

Answers == \E p \in posts : PostDone(p) \/ PostFails(p)

Next == Logs \/ Changes \/ FingerprintResumes \/ Answers

Spec == Init /\ [][Next]_vars

\* A timer fires, and the browser ends every request with one answer or another.
FairSpec == Spec /\ WF_vars(FingerprintResumes) /\ WF_vars(Answers)

----------------------------------------------------------------------------
\* What is relied on.


Ids     == {FingerPrint, None} \cup {c.did : c \in Configs}
               \cup {c.uid : c \in Configs} \cup {o[k] : o \in Options, k \in Keys}
Copies  == DOMAIN copies

\* The variables hold what the code's variables can hold; the batch size is
\* undefined before init, and never 0 or above its limit.
TypeOK ==
    /\ config \in [initialized : BOOLEAN, batchsize : 1..BatchLimit \cup {None},
                   runningEnv : {"client", "server"}, validation : BOOLEAN,
                   did : Ids, uid : Ids]
    /\ current \in [Keys -> Ids \cup {Empty}]
    /\ log \in Seq([eid : {"START", "END", "EVENT"}, env : {"client", "server"},
                    dropped : BOOLEAN, did : Ids, actor : Ids,
                    amid : SUBSET DOMAIN log])
    /\ fingerPrintId \in {None, FingerPrint} /\ FP_T \in {None, FingerPrint}
    /\ timers \in Seq([call : DOMAIN log, at : DOMAIN Components])
    /\ startData \in Seq(DOMAIN log)
    /\ copies \in Seq([of : DOMAIN log, by : DOMAIN log])
    /\ teleData \in Seq(Copies) /\ posts \subseteq Seq(Copies)
    /\ acked \subseteq Copies /\ retried \subseteq Copies
    /\ changes \in 0..MaxChanges /\ failures \in 0..MaxFailures

\* NothingLost: a copy the sync manager was given is in the queue, in one post
\* that waits for its answer, or acknowledged, and in one place only, whatever
\* the sizes of the batches and however many posts failed.
Queued   == Range(teleData)
InFlight == UNION {Range(p) : p \in posts}

Apart ==
    /\ IsInjective(teleData)
    /\ \A p \in posts : IsInjective(p) /\ Range(p) \cap Queued = {}
    /\ \A p, q \in posts : p # q => Range(p) \cap Range(q) = {}
    /\ acked \cap (Queued \cup InFlight) = {}

NothingLost == Apart /\ Queued \cup InFlight \cup acked = Copies

\* The hazard of the shared envelope, as far as it goes: an event whose call was
\* accepted is dispatched, unless its fingerprint is still awaited or another
\* event was written while it was.
CopiesOf(n)  == {c \in Copies : copies[c].of = n}
Waits(n)     == \E i \in DOMAIN timers : timers[i].call = n
Overtaken(n) == \E m \in DOMAIN log : n \in log[m].amid

LostOnlyIfOvertaken ==
    \A n \in DOMAIN log :
        log[n].dropped \/ Waits(n) \/ Overtaken(n) \/ CopiesOf(n) # {}

\* The other side of it: an event is dispatched once, and once more at most for
\* each fingerprint that was awaited when it was written; one that validation
\* drops is never dispatched but in the place of such an event.
RepeatedOnlyAmid ==
    \A n \in DOMAIN log :
        Cardinality(CopiesOf(n))
            <= Cardinality(log[n].amid) + (IF log[n].dropped THEN 0 ELSE 1)

\* An event of a client names its device and its actor when it is dispatched,
\* whichever of the three ways of _dispatch it took and whatever options were
\* set or reset meanwhile.
DeviceNamed ==
    \A c \in Copies :
        LET e == log[copies[c].of]
        IN  e.env = "client" => e.did # None /\ e.actor # None

\* Starts and ends nest: startData holds, in order, the STARTs that no later
\* END closes as brackets do, whichever of their events were dropped.
Count(eid, i, j) == Cardinality({n \in i..j : log[n].eid = eid})

NestedEnds ==
    /\ Range(startData) =
          {n \in DOMAIN log :
              /\ log[n].eid = "START"
              /\ \A m \in n..Len(log) : Count("END", n, m) < Count("START", n, m)}
    /\ \A i, j \in DOMAIN startData : i < j => startData[i] < startData[j]

\* Events leave the queue in the order of their dispatch: one that is still
\* there while a later one has left it, or stands before it, was in a post that
\* failed.
LeftBefore(c, d) ==
    \/ d \in Queued /\ c \in InFlight \cup acked
    \/ \E i, j \in DOMAIN teleData : i < j /\ teleData[i] = c /\ teleData[j] = d

OutOfOrderOnlyRetried ==
    \A c, d \in Copies : d < c /\ LeftBefore(c, d) => d \in retried

\* Every accepted event is dispatched in the end, or overtaken: each
\* fingerprint comes to its last component.
EventuallyDispatched ==
    \A n \in 1..MaxCalls :
        (n \in DOMAIN log /\ ~log[n].dropped)
            ~> (CopiesOf(n) # {} \/ Overtaken(n))

=============================================================================
