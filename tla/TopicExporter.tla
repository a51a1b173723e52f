---------------------------- MODULE TopicExporter ----------------------------
(***************************************************************************)
(* The Kafka topic exporter (exporters/Go/kafka-topic-exporter/main.go).   *)
(*                                                                         *)
(* GET /metrics starts one fetching goroutine per Kafka cluster; every     *)
(* message fetched gets a goroutine of its own, which sends its samples    *)
(* one by one over ONE unbuffered channel shared by all requests; the      *)
(* request's handler writes what it receives into its response, remembers  *)
(* the greatest offset per partition and, when a second passes in silence  *)
(* or the client has gone, commits those offsets and returns.              *)
(*                                                                         *)
(* A goroutine blocked in the send outlives its request and hands its      *)
(* sample to whatever request comes next.                                  *)
(***************************************************************************)
EXTENDS Integers, FiniteSets

CONSTANTS Clusters,    \* indices of kafkaReaders
          Partitions,  \* partitions of a cluster's topic
          LogEnd,      \* bound: messages a partition may hold
          Requests,    \* bound: how many /metrics requests may be in progress
          Cancelled,   \* the context of a request that is over
          Size         \* samples in a message; 0: empty, or not valid JSON

Topics == Clusters \X Partitions
Messages == [topic : Topics, offset : 0 .. LogEnd - 1]

ASSUME ClustersAssumption == Clusters \subseteq Nat
ASSUME LogEndAssumption == LogEnd \in Nat
ASSUME CancelledAssumption == Cancelled \notin Requests
ASSUME SizeAssumption == Size \in [Messages -> Nat]

Contexts == Requests \union {Cancelled}
NoOffset == -1

(* The i-th sample of message m. *)
Samples(m) == {<<m, i>> : i \in 1 .. Size[m]}

(* A message's goroutine: before its context checks ("created") or in the  *)
(* sending loop, with left samples to go.                                  *)
Goroutine == [msg : Messages, ctx : Contexts, left : Nat,
              pc : {"created", "sending"}]

Held(g) == {<<g.msg, i>> : i \in Size[g.msg] - g.left + 1 .. Size[g.msg]}

VARIABLES end,        \* Kafka: messages appended to each partition
          committed,  \* Kafka: the consumer group's offsets
          position,   \* kafkaReaders: next offset FetchMessage returns
          fetching,   \* cluster -> contexts of its fetching goroutines
          running,    \* the goroutines of fetched messages
          handler,    \* request -> where its serve() stands
          client,     \* request -> the client is still connected
          lrm,        \* request -> topic -> greatest offset stored
          toCommit,   \* request -> topics commitMessage has still to visit
          body,       \* request -> samples written to the response
          written,    \* samples written to any response by this process
          received    \* samples Prometheus has got in complete responses

vars == <<end, committed, position, fetching, running, handler, client, lrm,
          toCommit, body, written, received>>
kafka == <<end, committed>>
request == <<handler, client, lrm, toCommit, body>>
samples == <<written, received>>

NothingStored == [t \in Topics |-> NoOffset]

Init == /\ end = [t \in Topics |-> 0]
        /\ committed = [t \in Topics |-> 0]
        /\ position = [t \in Topics |-> 0]
        /\ fetching = [c \in Clusters |-> {}]
        /\ running = {}
        /\ handler = [r \in Requests |-> "idle"]
        /\ client = [r \in Requests |-> FALSE]
        /\ lrm = [r \in Requests |-> NothingStored]
        /\ toCommit = [r \in Requests |-> {}]
        /\ body = [r \in Requests |-> {}]
        /\ written = {}
        /\ received = {}

-----------------------------------------------------------------------------
(* The context of r is cancelled: whoever runs under it runs cancelled.    *)
Cancel(r) ==
  /\ fetching' = [c \in Clusters |->
                    IF r \in fetching[c]
                    THEN (fetching[c] \ {r}) \union {Cancelled}
                    ELSE fetching[c]]
  /\ running' = {IF g.ctx = r THEN [g EXCEPT !.ctx = Cancelled] ELSE g :
                   g \in running}

(* A producer of metrics appends a message. *)
Produce(t) ==
  /\ end[t] < LogEnd
  /\ end' = [end EXCEPT ![t] = @ + 1]
  /\ UNCHANGED <<committed, position, fetching, running>>
  /\ UNCHANGED <<request, samples>>

(* Prometheus asks for /metrics: serve() up to its select loop. *)
Serve(r) ==
  /\ handler[r] = "idle"
  /\ handler' = [handler EXCEPT ![r] = "serving"]
  /\ client' = [client EXCEPT ![r] = TRUE]
  /\ fetching' = [c \in Clusters |-> fetching[c] \union {r}]
  /\ UNCHANGED <<kafka, position, running, lrm, toCommit, body, samples>>

(* kafka-go hands out the next message of a partition and commits nothing. *)
ReadMessage(t) ==     \* mutant: the call that commits what it returns
  /\ position[t] < end[t]
  /\ position' = [position EXCEPT ![t] = @ + 1]
  /\ committed' = [committed EXCEPT ![t] = position[t] + 1]
  /\ UNCHANGED end

FetchMessage(t) ==
  /\ position[t] < end[t]
  /\ position' = [position EXCEPT ![t] = @ + 1]
  /\ UNCHANGED kafka

(* A fetching goroutine gets a message and starts the message's own.       *)
(* FetchMessage takes a message even when ctx is done as well: both cases  *)
(* of its select are ready and Go picks either.                            *)
Fetch(t, x) ==
  /\ x \in fetching[t[1]]
  /\ FetchMessage(t)
  /\ LET m == [topic |-> t, offset |-> position[t]] IN
     running' = running \union
                  {[msg |-> m, ctx |-> x, left |-> Size[m], pc |-> "created"]}
  /\ UNCHANGED <<fetching, request, samples>>

FetchCancelled(c) ==
  /\ Cancelled \in fetching[c]
  /\ fetching' = [fetching EXCEPT ![c] = @ \ {Cancelled}]
  /\ UNCHANGED <<kafka, position, running, request, samples>>

(* FetchMessage fails for another reason: the loop ends all the same, and  *)
(* the request goes on without that cluster.                               *)
FetchFails(c, r) ==
  /\ r \in fetching[c]
  /\ fetching' = [fetching EXCEPT ![c] = @ \ {r}]
  /\ UNCHANGED <<kafka, position, running, request, samples>>

(* metricsCreation and pushMetrics up to the first send: the message is    *)
(* dropped when the context is done or when it carries no sample.          *)
Create(g) ==
  /\ g.pc = "created"
  /\ running' = (running \ {g}) \union
                  (IF g.ctx = Cancelled \/ g.left = 0
                   THEN {} ELSE {[g EXCEPT !.pc = "sending"]})
  /\ UNCHANGED <<kafka, position, fetching, request, samples>>

(* The greater offset wins. *)
StoreNext(r, m) ==    \* mutant: kafka-go adds one itself
  lrm' = [lrm EXCEPT ![r][m.topic] = IF @ < m.offset THEN m.offset + 1 ELSE @]

StoreAny(r, m) ==     \* mutant: the last to arrive wins
  lrm' = [lrm EXCEPT ![r][m.topic] = m.offset]

Store(r, m) ==
  lrm' = [lrm EXCEPT ![r][m.topic] = IF @ < m.offset THEN m.offset ELSE @]

ReceivesOwn(r, g) ==  \* mutant: a request takes its own samples only
  handler[r] = "serving" /\ g.pc = "sending" /\ g.ctx = r

Receives(r, g) == handler[r] = "serving" /\ g.pc = "sending"

SendAgain(g) == {g}   \* mutant: the loop does not advance

(* What is left of g's loop over its samples after a send. *)
AfterSend(g) == IF g.left = 1 THEN {} ELSE {[g EXCEPT !.left = @ - 1]}

(* The rendezvous on promMetricsChannel: r's handler takes the sample g is *)
(* blocked on, writes it and stores its message.  The request r need not   *)
(* be the one g was started for.                                           *)
Deliver(r, g) ==
  /\ Receives(r, g)
  /\ LET sample == <<g.msg, Size[g.msg] - g.left + 1>> IN
     /\ body' = [body EXCEPT ![r] = @ \union {sample}]
     /\ written' = written \union {sample}
  /\ Store(r, g.msg)
  /\ running' = (running \ {g}) \union AfterSend(g)
  /\ UNCHANGED <<kafka, position, fetching, handler, client, toCommit, received>>

(* The client closes the connection before the response is complete. *)
ClientLeaves(r) ==
  /\ client[r]
  /\ client' = [client EXCEPT ![r] = FALSE]
  /\ Cancel(r)
  /\ UNCHANGED <<kafka, position, handler, lrm, toCommit, body, samples>>

StartCommit(r) ==
  /\ handler[r] = "serving"
  /\ handler' = [handler EXCEPT ![r] = "committing"]
  /\ toCommit' = [toCommit EXCEPT ![r] = {t \in Topics : lrm[r][t] # NoOffset}]
  /\ UNCHANGED <<kafka, position, fetching, running, client, lrm, body, samples>>

ContextDone(r) == ~client[r] /\ StartCommit(r)

(* A second passes with nobody sending: a goroutine blocked in the send    *)
(* would have been received at once.                                       *)
Silence(r) == (\A g \in running : g.pc # "sending") /\ StartCommit(r)

(* kafka-go commits one past the offset it is given. *)
CommitMessages(t, o) == committed' = [committed EXCEPT ![t] = o + 1]

Uncommittable(o) == o < 0   \* mutant: offset 0 is as good as any

NotCommittable(o) == o <= 0

SkipCommit(r) == UNCHANGED toCommit   \* mutant: tries the same one again

EndCommit(r) == toCommit' = [toCommit EXCEPT ![r] = {}]

(* One turn of commitMessage's loops: clusters in order, the partitions of *)
(* a cluster in the order of a Go map, any.  An offset that is not greater *)
(* than zero ends both loops.                                              *)
CommitNext(r, t) ==
  /\ handler[r] = "committing"
  /\ t \in toCommit[r]
  /\ \A u \in toCommit[r] : t[1] <= u[1]
  /\ \/ /\ NotCommittable(lrm[r][t])
        /\ EndCommit(r)
        /\ UNCHANGED committed
     \/ /\ ~NotCommittable(lrm[r][t])
        /\ CommitMessages(t, lrm[r][t])
        /\ toCommit' = [toCommit EXCEPT ![r] = @ \ {t}]
  /\ UNCHANGED <<end, position, fetching, running, handler, client, lrm, body>>
  /\ UNCHANGED samples

(* CommitMessages returns an error: the rest is not committed. *)
CommitFails(r) ==
  /\ handler[r] = "committing"
  /\ toCommit[r] # {}
  /\ EndCommit(r)
  /\ UNCHANGED <<kafka, position, fetching, running, handler, client, lrm, body>>
  /\ UNCHANGED samples

(* serve() returns: net/http cancels the context and completes the         *)
(* response, which a client still connected receives.                      *)
Return(r) ==
  /\ handler[r] = "committing"
  /\ toCommit[r] = {}
  /\ received' = IF client[r] THEN received \union body[r] ELSE received
  /\ Cancel(r)
  /\ handler' = [handler EXCEPT ![r] = "idle"]
  /\ client' = [client EXCEPT ![r] = FALSE]
  /\ lrm' = [lrm EXCEPT ![r] = NothingStored]
  /\ body' = [body EXCEPT ![r] = {}]
  /\ UNCHANGED <<kafka, position, toCommit, written>>

ResumeAtStart == position' = [t \in Topics |-> 0]   \* mutant: no group id

Resume == position' = committed

(* The process dies and its container is started again: the readers resume *)
(* at the committed offsets.                                               *)
Crash ==
  /\ Resume
  /\ fetching' = [c \in Clusters |-> {}]
  /\ running' = {}
  /\ handler' = [r \in Requests |-> "idle"]
  /\ client' = [r \in Requests |-> FALSE]
  /\ lrm' = [r \in Requests |-> NothingStored]
  /\ toCommit' = [r \in Requests |-> {}]
  /\ body' = [r \in Requests |-> {}]
  /\ written' = {}
  /\ UNCHANGED <<kafka, received>>

-----------------------------------------------------------------------------
(* What the exporter does while nothing around it fails. *)
CalmNext ==
  \/ \E t \in Topics : Produce(t)
  \/ \E r \in Requests : Serve(r)
  \/ \E t \in Topics, x \in Contexts : Fetch(t, x)
  \/ \E c \in Clusters : FetchCancelled(c)
  \/ \E g \in running : Create(g)
  \/ \E r \in Requests, g \in running : Deliver(r, g)
  \/ \E r \in Requests : Silence(r)
  \/ \E r \in Requests, t \in Topics : CommitNext(r, t)
  \/ \E r \in Requests : Return(r)

Next ==
  \/ CalmNext
  \/ \E r \in Requests : ClientLeaves(r)
  \/ \E r \in Requests : ContextDone(r)
  \/ \E r \in Requests : CommitFails(r)
  \/ \E c \in Clusters, r \in Requests : FetchFails(c, r)
  \/ Crash

Spec == Init /\ [][Next]_vars
CalmSpec == Init /\ [][CalmNext]_vars

(* Prometheus keeps scraping, the readers keep fetching while somebody     *)
(* asks them to, timers fire and calls return.  Deliver is strongly fair:  *)
(* senders blocked on a Go channel are received in the order they came,    *)
(* and a select with several cases ready takes each of them in turn.       *)
Fairness ==
  /\ \A r \in Requests : /\ WF_vars(Serve(r))
                        /\ WF_vars(Silence(r))
                        /\ WF_vars(ContextDone(r))
                        /\ WF_vars(\E t \in Topics : CommitNext(r, t))
                        /\ WF_vars(Return(r))
  /\ \A t \in Topics : WF_vars(\E x \in Contexts : Fetch(t, x))
  /\ \A c \in Clusters : WF_vars(FetchCancelled(c))
  /\ \A m \in Messages :
       /\ WF_vars(\E g \in running : g.msg = m /\ Create(g))
       /\ SF_vars(\E r \in Requests, g \in running : g.msg = m /\ Deliver(r, g))

FairSpec == Spec /\ Fairness
FairCalmSpec == CalmSpec /\ Fairness

-----------------------------------------------------------------------------
TypeOK ==
  /\ end \in [Topics -> 0 .. LogEnd]
  /\ committed \in [Topics -> 0 .. LogEnd]
  /\ position \in [Topics -> 0 .. LogEnd]
  /\ fetching \in [Clusters -> SUBSET Contexts]
  /\ running \subseteq Goroutine
  /\ handler \in [Requests -> {"idle", "serving", "committing"}]
  /\ client \in [Requests -> BOOLEAN]
  /\ lrm \in [Requests -> [Topics -> NoOffset .. LogEnd - 1]]
  /\ toCommit \in [Requests -> SUBSET Topics]
  /\ body \in [Requests -> SUBSET (Messages \X Nat)]
  /\ written \subseteq Messages \X Nat
  /\ received \subseteq Messages \X Nat

(* The group's offset never passes what the readers have handed out: a     *)
(* restart repeats messages, it does not jump over messages never fetched. *)
(* The offset goes fetch - goroutine - channel - lrm - commit, through up  *)
(* to three requests (main.go:166).                                        *)
CommittedWithinFetched == \A t \in Topics : committed[t] <= position[t]

(* One process writes a sample at most once, whichever requests overlap    *)
(* and however long its goroutine was blocked: responses being written at  *)
(* the same time share no sample, and what a goroutine still has to send   *)
(* is in none (main.go:132, 207).                                          *)
SampleWrittenOnce ==
  /\ \A r, q \in Requests : r # q => body[r] \intersect body[q] = {}
  /\ \A g \in running : Held(g) \intersect written = {}
  /\ \A g, h \in running : g # h => Held(g) \intersect Held(h) = {}

(* What a request is going to commit is, per partition, the greatest       *)
(* offset it wrote a sample of, although samples arrive in any order       *)
(* ("Only the latest", main.go:54).                                        *)
StoredIsLatest ==
  \A r \in Requests, t \in Topics :
    LET offsets == {s[1].offset : s \in {b \in body[r] : b[1].topic = t}} IN
    IF offsets = {} THEN lrm[r][t] = NoOffset
    ELSE lrm[r][t] \in offsets /\ \A o \in offsets : o <= lrm[r][t]

(* A commit covers a message this process has written at least one sample  *)
(* of and fetched; offset 0 is never committed (main.go:161, 166).         *)
ServedMessages == {<<s[1].topic, s[1].offset>> : s \in written}

Promise == INSTANCE Consumer WITH served <- ServedMessages

ImplementsConsumer == Promise!Spec

(* Every request ends once the producers pause, whoever else is served     *)
(* (main.go:205-217).                                                      *)
RequestEnds == \A r \in Requests : handler[r] # "idle" ~> handler[r] = "idle"

(* No goroutine is blocked on the channel for ever: a later scrape drains  *)
(* what an earlier one left (main.go:132).                                 *)
GoroutinesDrain ==
  \A m \in Messages : (\E g \in running : g.msg = m) ~>
                        (\A g \in running : g.msg # m)

(* "designed to be eventually consistent" (README.md:3): every sample of   *)
(* the topic gets to Prometheus in the end.                                *)
EventuallyExported ==
  \A m \in Messages :
    end[m.topic] > m.offset ~> Samples(m) \subseteq received
=============================================================================
