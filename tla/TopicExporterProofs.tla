------------------------- MODULE TopicExporterProofs -------------------------
(***************************************************************************)
(* Proofs about TopicExporter for every number of clusters, partitions,    *)
(* messages and concurrent requests, and every Size.                       *)
(***************************************************************************)
EXTENDS TopicExporter, TLAPS

(* A goroutine never owes more samples than its message has, one that is   *)
(* sending owes at least one, and its message has been fetched.            *)
GoroutineOK ==
  \A g \in running : /\ g.left <= Size[g.msg]
                     /\ g.pc = "sending" => g.left > 0

(* Types alone are not inductive: Deliver decrements left. *)
TypeInv == TypeOK /\ GoroutineOK

LEMMA InitType == Init => TypeInv
  BY LogEndAssumption DEF Init, TypeInv, TypeOK, GoroutineOK, NothingStored,
     NoOffset, Topics

(* Cancelling a context changes the owner of a goroutine and nothing else. *)
LEMMA CancelType ==
  ASSUME TypeInv, NEW r \in Requests, Cancel(r)
  PROVE  /\ fetching' \in [Clusters -> SUBSET Contexts]
         /\ running' \subseteq Goroutine
         /\ \A g \in running' :
              /\ g.left <= Size[g.msg]
              /\ g.pc = "sending" => g.left > 0
<1>1. fetching' \in [Clusters -> SUBSET Contexts]
  BY DEF Cancel, TypeInv, TypeOK, Contexts
<1>2. ASSUME NEW h \in running'
      PROVE  \E g \in running : h = g \/ h = [g EXCEPT !.ctx = Cancelled]
  BY <1>2 DEF Cancel
<1>3. ASSUME NEW h \in running'
      PROVE  /\ h \in Goroutine
             /\ h.left <= Size[h.msg]
             /\ h.pc = "sending" => h.left > 0
  <2>1. PICK g \in running : h = g \/ h = [g EXCEPT !.ctx = Cancelled]
    BY <1>2
  <2>2. g \in Goroutine /\ g.left <= Size[g.msg] /\ (g.pc = "sending" => g.left > 0)
    BY DEF TypeInv, TypeOK, GoroutineOK
  <2> QED BY <2>1, <2>2 DEF Goroutine, Contexts
<1> QED BY <1>1, <1>3

LEMMA FetchType ==
  ASSUME TypeInv, NEW t \in Topics, NEW x \in Contexts, Fetch(t, x)
  PROVE  TypeInv'
<1> DEFINE m == [topic |-> t, offset |-> position[t]]
           new == [msg |-> m, ctx |-> x, left |-> Size[m], pc |-> "created"]
<1>1. position[t] \in 0 .. LogEnd - 1
  BY LogEndAssumption DEF Fetch, FetchMessage, TypeInv, TypeOK
<1>2. m \in Messages
  BY <1>1 DEF Messages
<1>3. Size[m] \in Nat
  BY <1>2, SizeAssumption
<1>4. new \in Goroutine
  BY <1>2, <1>3 DEF Goroutine
<1> HIDE DEF m
<1>5. running' = running \union {new}
  BY DEF Fetch, m
<1>6. position' \in [Topics -> 0 .. LogEnd]
  BY <1>1, LogEndAssumption DEF Fetch, FetchMessage, TypeInv, TypeOK
<1>7. GoroutineOK'
  BY <1>3, <1>5 DEF GoroutineOK, TypeInv
<1>8. TypeOK'
  BY <1>4, <1>5, <1>6
     DEF Fetch, FetchMessage, TypeInv, TypeOK, kafka, request, samples
<1> QED BY <1>7, <1>8 DEF TypeInv

LEMMA CreateType ==
  ASSUME TypeInv, NEW g \in running, Create(g)
  PROVE  TypeInv'
<1>1. g \in Goroutine /\ g.left <= Size[g.msg]
  BY DEF TypeInv, TypeOK, GoroutineOK
<1> DEFINE next == [g EXCEPT !.pc = "sending"]
<1>2. /\ next \in Goroutine
      /\ next.left = g.left /\ next.msg = g.msg /\ g.left \in Nat
  BY <1>1 DEF Goroutine
<1> HIDE DEF next
<1>3. running' \subseteq running \union (IF g.left = 0 THEN {} ELSE {next})
  BY DEF Create, next
<1>4. running' \subseteq Goroutine
  BY <1>2, <1>3 DEF TypeInv, TypeOK
<1>5. GoroutineOK'
  BY <1>1, <1>2, <1>3 DEF GoroutineOK, TypeInv
<1>6. TypeOK'
  BY <1>4 DEF Create, TypeInv, TypeOK, kafka, request, samples
<1> QED BY <1>5, <1>6 DEF TypeInv

LEMMA DeliverType ==
  ASSUME TypeInv, NEW r \in Requests, NEW g \in running, Deliver(r, g)
  PROVE  TypeInv'
<1> DEFINE sample == <<g.msg, Size[g.msg] - g.left + 1>>
           next == [g EXCEPT !.left = @ - 1]
<1>1. /\ g \in Goroutine /\ g.msg \in Messages
      /\ Size[g.msg] \in Nat /\ g.left \in Nat
      /\ g.left <= Size[g.msg] /\ g.left > 0
  BY SizeAssumption DEF TypeInv, TypeOK, GoroutineOK, Deliver, Receives, Goroutine
<1>2. sample \in Messages \X Nat
  <2>1. Size[g.msg] - g.left + 1 \in Nat
    BY <1>1
  <2> QED BY <1>1, <2>1
<1>3. g.left - 1 \in Nat /\ g.left - 1 <= Size[g.msg]
  BY <1>1
<1>4. /\ next \in Goroutine
      /\ next.left = g.left - 1 /\ next.msg = g.msg
  BY <1>1, <1>3 DEF Goroutine
<1>5. g.msg.topic \in Topics /\ g.msg.offset \in 0 .. LogEnd - 1
  BY <1>1 DEF Messages
<1>6. lrm' \in [Requests -> [Topics -> NoOffset .. LogEnd - 1]]
  <2>1. lrm[r] \in [Topics -> NoOffset .. LogEnd - 1]
    BY DEF TypeInv, TypeOK
  <2>2. [lrm[r] EXCEPT ![g.msg.topic] = IF @ < g.msg.offset THEN g.msg.offset ELSE @]
           \in [Topics -> NoOffset .. LogEnd - 1]
    BY <2>1, <1>5, LogEndAssumption DEF NoOffset
  <2> QED BY <2>2 DEF Deliver, Store, TypeInv, TypeOK
<1>7. body' \in [Requests -> SUBSET (Messages \X Nat)] /\ written' \subseteq Messages \X Nat
  BY <1>2 DEF Deliver, TypeInv, TypeOK
<1> HIDE DEF sample, next
<1>8. running' \subseteq running \union (IF g.left = 1 THEN {} ELSE {next})
  BY DEF Deliver, AfterSend, next
<1>9. running' \subseteq Goroutine
  BY <1>4, <1>8 DEF TypeInv, TypeOK
<1>10. GoroutineOK'
  BY <1>1, <1>3, <1>4, <1>8 DEF GoroutineOK, TypeInv
<1>11. TypeOK'
  BY <1>6, <1>7, <1>9 DEF Deliver, TypeInv, TypeOK, kafka
<1> QED BY <1>10, <1>11 DEF TypeInv

LEMMA CommitNextType ==
  ASSUME TypeInv, NEW r \in Requests, NEW t \in Topics, CommitNext(r, t)
  PROVE  TypeInv'
<1>1. lrm[r][t] \in NoOffset .. LogEnd - 1
  BY DEF TypeInv, TypeOK
<1>2. committed' \in [Topics -> 0 .. LogEnd]
  BY <1>1, LogEndAssumption
     DEF CommitNext, CommitMessages, NotCommittable, TypeInv, TypeOK, NoOffset
<1>3. toCommit' \in [Requests -> SUBSET Topics]
  BY DEF CommitNext, EndCommit, TypeInv, TypeOK
<1> QED BY <1>2, <1>3 DEF CommitNext, TypeInv, TypeOK, GoroutineOK, samples

LEMMA TypeStep == TypeInv /\ [Next]_vars => TypeInv'
<1> SUFFICES ASSUME TypeInv, [Next]_vars
             PROVE  TypeInv'
  OBVIOUS
<1>1. ASSUME NEW t \in Topics, Produce(t)
      PROVE  TypeInv'
  BY <1>1, LogEndAssumption
     DEF Produce, TypeInv, TypeOK, GoroutineOK, request, samples
<1>2. ASSUME NEW r \in Requests, Serve(r)
      PROVE  TypeInv'
  BY <1>2 DEF Serve, TypeInv, TypeOK, GoroutineOK, kafka, samples, Contexts
<1>3. ASSUME NEW t \in Topics, NEW x \in Contexts, Fetch(t, x)
      PROVE  TypeInv'
  BY <1>3, FetchType
<1>4. ASSUME NEW c \in Clusters, FetchCancelled(c)
      PROVE  TypeInv'
  BY <1>4 DEF FetchCancelled, TypeInv, TypeOK, GoroutineOK, kafka, request, samples
<1>5. ASSUME NEW g \in running, Create(g)
      PROVE  TypeInv'
  BY <1>5, CreateType
<1>6. ASSUME NEW r \in Requests, NEW g \in running, Deliver(r, g)
      PROVE  TypeInv'
  BY <1>6, DeliverType
<1>7. ASSUME NEW r \in Requests, StartCommit(r)
      PROVE  TypeInv'
  BY <1>7 DEF StartCommit, TypeInv, TypeOK, GoroutineOK, kafka, samples
<1>8. ASSUME NEW r \in Requests, NEW t \in Topics, CommitNext(r, t)
      PROVE  TypeInv'
  BY <1>8, CommitNextType
<1>9. ASSUME NEW r \in Requests, Return(r)
      PROVE  TypeInv'
  <2>1. received' \subseteq Messages \X Nat
    BY <1>9 DEF Return, TypeInv, TypeOK
  <2>2. NothingStored \in [Topics -> NoOffset .. LogEnd - 1]
    BY LogEndAssumption DEF NothingStored, NoOffset
  <2>3. Cancel(r)
    BY <1>9 DEF Return
  <2> QED BY <1>9, <2>1, <2>2, <2>3, CancelType
          DEF Return, TypeInv, TypeOK, GoroutineOK, kafka
<1>10. ASSUME NEW r \in Requests, ClientLeaves(r)
      PROVE  TypeInv'
  <2>1. Cancel(r)
    BY <1>10 DEF ClientLeaves
  <2> QED BY <1>10, <2>1, CancelType
          DEF ClientLeaves, TypeInv, TypeOK, GoroutineOK, kafka, samples
<1>11. ASSUME NEW r \in Requests, CommitFails(r)
      PROVE  TypeInv'
  BY <1>11 DEF CommitFails, EndCommit, TypeInv, TypeOK, GoroutineOK, kafka, samples
<1>12. ASSUME NEW c \in Clusters, NEW r \in Requests, FetchFails(c, r)
      PROVE  TypeInv'
  BY <1>12 DEF FetchFails, TypeInv, TypeOK, GoroutineOK, kafka, request, samples
<1>13. CASE Crash
  <2>1. NothingStored \in [Topics -> NoOffset .. LogEnd - 1]
    BY LogEndAssumption DEF NothingStored, NoOffset
  <2> QED BY <1>13, <2>1 DEF Crash, Resume, TypeInv, TypeOK, GoroutineOK, kafka
<1>14. CASE UNCHANGED vars
  BY <1>14 DEF vars, TypeInv, TypeOK, GoroutineOK
<1> QED BY <1>1, <1>2, <1>3, <1>4, <1>5, <1>6, <1>7, <1>8, <1>9, <1>10, <1>11,
           <1>12, <1>13, <1>14 DEF Next, CalmNext, Silence, ContextDone

(* Every variable keeps its type (main.go:186-217). *)
THEOREM TypeCorrect == Spec => []TypeOK
<1>1. TypeInv => TypeOK
  BY DEF TypeInv
<1> QED BY InitType, TypeStep, <1>1, PTL DEF Spec

-----------------------------------------------------------------------------
(* Where an offset may be on its way from the reader to the commit: in a   *)
(* goroutine, in a response, in a request's lrm.  All of them are behind   *)
(* the reader, which is what makes CommittedWithinFetched inductive.       *)
BehindReader ==
  /\ \A g \in running : g.msg.offset < position[g.msg.topic]
  /\ \A s \in written : s[1].offset < position[s[1].topic]
  /\ \A r \in Requests, t \in Topics : lrm[r][t] < position[t]

(* What a request stored, it has written. *)
StoredServed ==
  \A r \in Requests, t \in Topics :
    lrm[r][t] # NoOffset => <<t, lrm[r][t]>> \in ServedMessages

OffsetInv == TypeInv /\ BehindReader /\ StoredServed /\ CommittedWithinFetched

LEMMA InitOffset == Init => OffsetInv
<1> SUFFICES ASSUME Init PROVE OffsetInv
  OBVIOUS
<1>1. TypeInv
  BY InitType
<1> QED BY <1>1 DEF Init, OffsetInv, BehindReader, StoredServed,
            CommittedWithinFetched, NothingStored, NoOffset

(* Cancelling a context starts no goroutine for another message. *)
LEMMA CancelKeeps ==
  ASSUME TypeInv, NEW r \in Requests, Cancel(r), NEW h \in running'
  PROVE  \E g \in running : /\ h.msg = g.msg /\ h.left = g.left
                            /\ h = IF g.ctx = r THEN [g EXCEPT !.ctx = Cancelled] ELSE g
<1>1. PICK g \in running : h = IF g.ctx = r THEN [g EXCEPT !.ctx = Cancelled] ELSE g
  BY DEF Cancel
<1>2. g \in Goroutine
  BY DEF TypeInv, TypeOK
<1>3. h.msg = g.msg /\ h.left = g.left
  BY <1>1, <1>2 DEF Goroutine
<1> QED BY <1>1, <1>3

LEMMA FetchOffset ==
  ASSUME OffsetInv, NEW t \in Topics, NEW x \in Contexts, Fetch(t, x)
  PROVE  BehindReader' /\ StoredServed' /\ CommittedWithinFetched'
<1> DEFINE m == [topic |-> t, offset |-> position[t]]
           new == [msg |-> m, ctx |-> x, left |-> Size[m], pc |-> "created"]
<1>1. /\ position \in [Topics -> 0 .. LogEnd]
      /\ position' = [position EXCEPT ![t] = @ + 1]
      /\ running' = running \union {new}
      /\ lrm' = lrm /\ written' = written /\ committed' = committed
  BY DEF OffsetInv, TypeInv, TypeOK, Fetch, FetchMessage, kafka, request, samples
<1>2. \A u \in Topics : position[u] <= position'[u]
  BY <1>1, LogEndAssumption
<1>3. new.msg.topic = t /\ new.msg.offset = position[t] /\ position'[t] = position[t] + 1
  BY <1>1
<1> HIDE DEF m, new
<1>4. ASSUME NEW g \in running
      PROVE  g.msg.offset < position'[g.msg.topic]
  <2>1. g.msg.topic \in Topics /\ g.msg.offset \in Nat
    BY DEF OffsetInv, TypeInv, TypeOK, Goroutine, Messages
  <2> QED BY <1>1, <1>2, <2>1, LogEndAssumption DEF OffsetInv, BehindReader
<1>5. ASSUME NEW s \in written
      PROVE  s[1].offset < position'[s[1].topic]
  <2>1. s[1].topic \in Topics /\ s[1].offset \in Nat
    BY DEF OffsetInv, TypeInv, TypeOK, Messages
  <2> QED BY <1>1, <1>2, <2>1, LogEndAssumption DEF OffsetInv, BehindReader
<1>6. ASSUME NEW q \in Requests, NEW u \in Topics
      PROVE  lrm[q][u] < position'[u]
  <2>1. lrm[q][u] \in NoOffset .. LogEnd - 1
    BY DEF OffsetInv, TypeInv, TypeOK
  <2> QED BY <1>1, <1>2, <2>1, LogEndAssumption DEF OffsetInv, BehindReader, NoOffset
<1>7. new.msg.offset < position'[new.msg.topic]
  BY <1>1, <1>3, LogEndAssumption
<1>8. BehindReader'
  BY <1>1, <1>4, <1>5, <1>6, <1>7 DEF BehindReader
<1>9. StoredServed'
  BY <1>1 DEF OffsetInv, StoredServed, ServedMessages
<1>10. CommittedWithinFetched'
  <2>1. committed \in [Topics -> 0 .. LogEnd] /\ position' \in [Topics -> Int]
    BY <1>1, LogEndAssumption DEF OffsetInv, TypeInv, TypeOK
  <2>2. ASSUME NEW u \in Topics
        PROVE  committed[u] <= position'[u]
    <3>1. committed[u] <= position[u]
      BY DEF OffsetInv, CommittedWithinFetched
    <3> QED BY <1>1, <1>2, <2>1, <3>1, LogEndAssumption
  <2> QED BY <1>1, <2>2 DEF CommittedWithinFetched
<1> QED BY <1>8, <1>9, <1>10

LEMMA DeliverOffset ==
  ASSUME OffsetInv, NEW r \in Requests, NEW g \in running, Deliver(r, g)
  PROVE  BehindReader' /\ StoredServed' /\ CommittedWithinFetched'
<1> DEFINE sample == <<g.msg, Size[g.msg] - g.left + 1>>
           next == [g EXCEPT !.left = @ - 1]
           T == g.msg.topic
           o == g.msg.offset
<1>1. /\ g \in Goroutine
      /\ T \in Topics /\ o \in 0 .. LogEnd - 1 /\ o < position[T]
  BY DEF OffsetInv, TypeInv, TypeOK, Goroutine, Messages, BehindReader
<1>2. /\ position' = position /\ committed' = committed
      /\ written' = written \union {sample}
      /\ running' \subseteq running \union {next}
      /\ lrm \in [Requests -> [Topics -> NoOffset .. LogEnd - 1]]
      /\ lrm' = [lrm EXCEPT ![r][T] = IF @ < o THEN o ELSE @]
  BY DEF Deliver, AfterSend, Store, kafka, OffsetInv, TypeInv, TypeOK
<1>3. next.msg = g.msg
  BY <1>1 DEF Goroutine
<1>4. ASSUME NEW q \in Requests, NEW t \in Topics
      PROVE  lrm'[q][t] = lrm[q][t] \/ (t = T /\ lrm'[q][t] = o)
  BY <1>1, <1>2
<1>5. sample[1] = g.msg
  OBVIOUS
<1> HIDE DEF sample, next
<1>6. BehindReader'
  BY <1>1, <1>2, <1>3, <1>4, <1>5 DEF BehindReader, OffsetInv
<1>7. ServedMessages' = ServedMessages \union {<<T, o>>}
  BY <1>2, <1>5 DEF ServedMessages
<1>8. StoredServed'
  BY <1>4, <1>7 DEF StoredServed, OffsetInv
<1> QED BY <1>2, <1>6, <1>8 DEF CommittedWithinFetched, OffsetInv

LEMMA CommitNextOffset ==
  ASSUME OffsetInv, NEW r \in Requests, NEW t \in Topics, CommitNext(r, t)
  PROVE  BehindReader' /\ StoredServed' /\ CommittedWithinFetched'
<1>1. /\ lrm[r][t] \in NoOffset .. LogEnd - 1 /\ lrm[r][t] < position[t]
      /\ committed \in [Topics -> 0 .. LogEnd]
      /\ position \in [Topics -> 0 .. LogEnd]
  BY DEF OffsetInv, BehindReader, TypeInv, TypeOK
<1>2. position' = position /\ running' = running /\ lrm' = lrm /\ written' = written
  BY DEF CommitNext, samples
<1>3. committed' = committed \/ committed' = [committed EXCEPT ![t] = lrm[r][t] + 1]
  BY DEF CommitNext, CommitMessages
<1>4. CommittedWithinFetched'
  BY <1>1, <1>2, <1>3, LogEndAssumption DEF CommittedWithinFetched, OffsetInv, NoOffset
<1> QED BY <1>2, <1>4 DEF BehindReader, StoredServed, ServedMessages, OffsetInv

LEMMA OffsetStep == OffsetInv /\ [Next]_vars => OffsetInv'
<1> SUFFICES ASSUME OffsetInv, [Next]_vars
             PROVE  BehindReader' /\ StoredServed' /\ CommittedWithinFetched'
  BY TypeStep DEF OffsetInv
<1> DEFINE Goal == BehindReader' /\ StoredServed' /\ CommittedWithinFetched'
<1>1. ASSUME UNCHANGED <<position, committed, lrm, written>>,
             \A h \in running' : \E g \in running : h.msg = g.msg
      PROVE  Goal
  BY <1>1 DEF OffsetInv, BehindReader, StoredServed, ServedMessages,
              CommittedWithinFetched
<1>2. ASSUME NEW t \in Topics, Produce(t)
      PROVE  Goal
  BY <1>1, <1>2 DEF Produce, request, samples
<1>3. ASSUME NEW r \in Requests, Serve(r)
      PROVE  Goal
  BY <1>1, <1>3 DEF Serve, kafka, samples
<1>4. ASSUME NEW t \in Topics, NEW x \in Contexts, Fetch(t, x)
      PROVE  Goal
  BY <1>4, FetchOffset
<1>5. ASSUME NEW c \in Clusters, FetchCancelled(c)
      PROVE  Goal
  BY <1>1, <1>5 DEF FetchCancelled, kafka, request, samples
<1>6. ASSUME NEW g \in running, Create(g)
      PROVE  Goal
  <2>1. g \in Goroutine
    BY DEF OffsetInv, TypeInv, TypeOK
  <2>2. [g EXCEPT !.pc = "sending"].msg = g.msg
    BY <2>1 DEF Goroutine
  <2>3. \A h \in running' : \E k \in running : h.msg = k.msg
    BY <1>6, <2>2 DEF Create
  <2> QED BY <1>1, <1>6, <2>3 DEF Create, kafka, request, samples
<1>7. ASSUME NEW r \in Requests, NEW g \in running, Deliver(r, g)
      PROVE  Goal
  BY <1>7, DeliverOffset
<1>8. ASSUME NEW r \in Requests, StartCommit(r)
      PROVE  Goal
  BY <1>1, <1>8 DEF StartCommit, kafka, samples
<1>9. ASSUME NEW r \in Requests, NEW t \in Topics, CommitNext(r, t)
      PROVE  Goal
  BY <1>9, CommitNextOffset
<1>10. ASSUME NEW r \in Requests, Return(r)
      PROVE  Goal
  <2>1. \A h \in running' : \E g \in running : h.msg = g.msg
    BY <1>10, CancelKeeps DEF Return, OffsetInv
  <2>2. /\ position' = position /\ committed' = committed /\ written' = written
        /\ position \in [Topics -> 0 .. LogEnd]
        /\ lrm' = [lrm EXCEPT ![r] = NothingStored]
        /\ lrm \in [Requests -> [Topics -> NoOffset .. LogEnd - 1]]
    BY <1>10 DEF Return, kafka, OffsetInv, TypeInv, TypeOK
  <2>3. \A q \in Requests, t \in Topics :
          lrm'[q][t] = lrm[q][t] \/ lrm'[q][t] = NoOffset
    BY <2>2 DEF NothingStored
  <2>4. \A t \in Topics : NoOffset < position[t]
    BY <2>2, LogEndAssumption DEF NoOffset
  <2> QED BY <2>1, <2>2, <2>3, <2>4
          DEF OffsetInv, BehindReader, StoredServed, ServedMessages,
              CommittedWithinFetched
<1>11. ASSUME NEW r \in Requests, ClientLeaves(r)
      PROVE  Goal
  <2>1. \A h \in running' : \E g \in running : h.msg = g.msg
    BY <1>11, CancelKeeps DEF ClientLeaves, OffsetInv
  <2> QED BY <1>1, <1>11, <2>1 DEF ClientLeaves, kafka, samples
<1>12. ASSUME NEW r \in Requests, CommitFails(r)
      PROVE  Goal
  BY <1>1, <1>12 DEF CommitFails, kafka, samples
<1>13. ASSUME NEW c \in Clusters, NEW r \in Requests, FetchFails(c, r)
      PROVE  Goal
  BY <1>1, <1>13 DEF FetchFails, kafka, request, samples
<1>14. CASE Crash
  <2>1. /\ position' = committed /\ committed' = committed
        /\ running' = {} /\ written' = {}
        /\ lrm' = [r \in Requests |-> NothingStored]
        /\ committed \in [Topics -> 0 .. LogEnd]
    BY <1>14 DEF Crash, Resume, kafka, OffsetInv, TypeInv, TypeOK
  <2> QED BY <2>1, LogEndAssumption
          DEF BehindReader, StoredServed, CommittedWithinFetched, NothingStored,
              NoOffset
<1>15. CASE UNCHANGED vars
  BY <1>1, <1>15 DEF vars
<1> QED BY <1>2, <1>3, <1>4, <1>5, <1>6, <1>7, <1>8, <1>9, <1>10, <1>11, <1>12,
           <1>13, <1>14, <1>15 DEF Next, CalmNext, Silence, ContextDone

LEMMA OffsetAlways == Spec => []OffsetInv
  BY InitOffset, OffsetStep, PTL DEF Spec

(* However requests overlap and whenever clients leave or the process      *)
(* dies, a restart never jumps over a message that was not fetched         *)
(* (main.go:166).                                                          *)
THEOREM CommitsStayBehind == Spec => []CommittedWithinFetched
<1>1. OffsetInv => CommittedWithinFetched
  BY DEF OffsetInv
<1> QED BY OffsetAlways, <1>1, PTL

-----------------------------------------------------------------------------
(* Requests cannot share a sample: one goroutine per message and process,  *)
(* and each of its samples is either still held or written.                *)
OneGoroutinePerMessage == \A g, h \in running : g.msg = h.msg => g = h

BodyWritten == \A r \in Requests : body[r] \subseteq written

BodiesDisjoint == \A r, q \in Requests : r # q => body[r] \intersect body[q] = {}

HeldUnwritten == \A g \in running : Held(g) \intersect written = {}

OnceInv == OneGoroutinePerMessage /\ BodyWritten /\ BodiesDisjoint /\ HeldUnwritten

LEMMA OnceImplies == OnceInv => SampleWrittenOnce
  BY DEF OnceInv, OneGoroutinePerMessage, BodiesDisjoint, HeldUnwritten,
         SampleWrittenOnce, Held

LEMMA FetchOnce ==
  ASSUME OffsetInv, OnceInv, NEW t \in Topics, NEW x \in Contexts, Fetch(t, x)
  PROVE  OnceInv'
<1> DEFINE m == [topic |-> t, offset |-> position[t]]
           new == [msg |-> m, ctx |-> x, left |-> Size[m], pc |-> "created"]
<1>1. /\ running' = running \union {new}
      /\ written' = written /\ body' = body
  BY DEF Fetch, request, samples
<1>2. new.msg = m /\ m.topic = t /\ m.offset = position[t]
  OBVIOUS
<1>3. position[t] \in Int
  BY LogEndAssumption DEF OffsetInv, TypeInv, TypeOK
<1> HIDE DEF m, new
<1>4. \A g \in running : g.msg # m
  BY <1>2, <1>3 DEF OffsetInv, BehindReader
<1>5. \A s \in written : s[1] # m
  BY <1>2, <1>3 DEF OffsetInv, BehindReader
<1>6. OneGoroutinePerMessage'
  BY <1>1, <1>2, <1>4 DEF OnceInv, OneGoroutinePerMessage
<1>7. Held(new) \intersect written = {}
  BY <1>2, <1>5 DEF Held
<1>8. HeldUnwritten'
  BY <1>1, <1>7 DEF OnceInv, HeldUnwritten, Held
<1> QED BY <1>1, <1>6, <1>8 DEF OnceInv, BodyWritten, BodiesDisjoint

LEMMA CreateOnce ==
  ASSUME OffsetInv, OnceInv, NEW g \in running, Create(g)
  PROVE  OnceInv'
<1> DEFINE next == [g EXCEPT !.pc = "sending"]
<1>1. /\ running' \subseteq (running \ {g}) \union {next}
      /\ written' = written /\ body' = body
  BY DEF Create, request, samples
<1>2. next.msg = g.msg /\ next.left = g.left
  BY DEF OffsetInv, TypeInv, TypeOK, Goroutine
<1> HIDE DEF next
<1>3. Held(next) = Held(g)
  BY <1>2 DEF Held
<1>4. OneGoroutinePerMessage'
  BY <1>1, <1>2 DEF OnceInv, OneGoroutinePerMessage
<1>5. HeldUnwritten'
  BY <1>1, <1>3 DEF OnceInv, HeldUnwritten, Held
<1> QED BY <1>1, <1>4, <1>5 DEF OnceInv, BodyWritten, BodiesDisjoint

LEMMA DeliverOnce ==
  ASSUME OffsetInv, OnceInv, NEW r \in Requests, NEW g \in running, Deliver(r, g)
  PROVE  OnceInv'
<1> DEFINE i == Size[g.msg] - g.left + 1
           sample == <<g.msg, i>>
           next == [g EXCEPT !.left = @ - 1]
<1>1. /\ g \in Goroutine /\ g.msg \in Messages
      /\ Size[g.msg] \in Nat /\ g.left \in Nat
      /\ g.left <= Size[g.msg] /\ g.left > 0
  BY SizeAssumption DEF OffsetInv, TypeInv, TypeOK, GoroutineOK, Deliver, Receives,
                        Goroutine
<1>2. next.msg = g.msg /\ next.left = g.left - 1
  BY <1>1 DEF Goroutine
<1>3. i \in Size[g.msg] - g.left + 1 .. Size[g.msg]
  BY <1>1
<1>4. sample \in Held(g)
  BY <1>3 DEF Held
<1>5. Held(next) \subseteq Held(g) \ {sample}
  <2>1. Held(next) = {<<g.msg, j>> : j \in Size[g.msg] - (g.left - 1) + 1 .. Size[g.msg]}
    BY <1>2 DEF Held
  <2>2. \A j \in Size[g.msg] - (g.left - 1) + 1 .. Size[g.msg] :
          j \in Size[g.msg] - g.left + 1 .. Size[g.msg] /\ j # i
    BY <1>1
  <2> QED BY <2>1, <2>2 DEF Held
<1>6. /\ written' = written \union {sample}
      /\ running' \subseteq (running \ {g}) \union {next}
      /\ body \in [Requests -> SUBSET (Messages \X Nat)]
      /\ body' = [body EXCEPT ![r] = @ \union {sample}]
  BY DEF Deliver, AfterSend, OffsetInv, TypeInv, TypeOK
<1>7. sample \notin written
  BY <1>4 DEF OnceInv, HeldUnwritten
<1> HIDE DEF i
<1>8. \A h \in running \ {g} : sample \notin Held(h)
  BY DEF OnceInv, OneGoroutinePerMessage, Held
<1> HIDE DEF sample, next
<1>9. OneGoroutinePerMessage'
  BY <1>2, <1>6 DEF OnceInv, OneGoroutinePerMessage
<1>10. HeldUnwritten'
  <2>1. ASSUME NEW h \in running'
        PROVE  Held(h) \intersect written' = {}
    <3>1. CASE h = next
      BY <1>5, <1>6, <3>1 DEF OnceInv, HeldUnwritten
    <3>2. CASE h \in running \ {g}
      BY <1>6, <1>8, <3>2 DEF OnceInv, HeldUnwritten
    <3> QED BY <1>6, <3>1, <3>2
  <2> QED BY <2>1 DEF HeldUnwritten, Held
<1>11. \A q \in Requests : body[q] \subseteq written
  BY DEF OnceInv, BodyWritten
<1>12. \A q \in Requests :
         body'[q] = IF q = r THEN body[q] \union {sample} ELSE body[q]
  BY <1>6
<1>13. BodyWritten'
  BY <1>6, <1>11, <1>12 DEF BodyWritten
<1>14. BodiesDisjoint'
  BY <1>7, <1>11, <1>12 DEF OnceInv, BodiesDisjoint
<1> QED BY <1>9, <1>10, <1>13, <1>14 DEF OnceInv

LEMMA CancelOnce ==
  ASSUME OffsetInv, OnceInv, NEW r \in Requests, Cancel(r), UNCHANGED written
  PROVE  OneGoroutinePerMessage' /\ HeldUnwritten'
<1>1. \A h \in running' : \E g \in running :
        /\ h.msg = g.msg /\ h.left = g.left
        /\ h = IF g.ctx = r THEN [g EXCEPT !.ctx = Cancelled] ELSE g
  BY CancelKeeps DEF OffsetInv
<1>2. OneGoroutinePerMessage'
  BY <1>1 DEF OnceInv, OneGoroutinePerMessage
<1>3. HeldUnwritten'
  BY <1>1 DEF OnceInv, HeldUnwritten, Held
<1> QED BY <1>2, <1>3

LEMMA OnceStep == OffsetInv /\ OnceInv /\ [Next]_vars => OnceInv'
<1> SUFFICES ASSUME OffsetInv, OnceInv, [Next]_vars
             PROVE  OnceInv'
  OBVIOUS
<1>1. ASSUME UNCHANGED <<running, body, written>>
      PROVE  OnceInv'
  BY <1>1 DEF OnceInv, OneGoroutinePerMessage, BodyWritten, BodiesDisjoint,
              HeldUnwritten, Held
<1>2. ASSUME NEW t \in Topics, Produce(t)
      PROVE  OnceInv'
  BY <1>1, <1>2 DEF Produce, request, samples
<1>3. ASSUME NEW r \in Requests, Serve(r)
      PROVE  OnceInv'
  BY <1>1, <1>3 DEF Serve, samples
<1>4. ASSUME NEW t \in Topics, NEW x \in Contexts, Fetch(t, x)
      PROVE  OnceInv'
  BY <1>4, FetchOnce
<1>5. ASSUME NEW c \in Clusters, FetchCancelled(c)
      PROVE  OnceInv'
  BY <1>1, <1>5 DEF FetchCancelled, request, samples
<1>6. ASSUME NEW g \in running, Create(g)
      PROVE  OnceInv'
  BY <1>6, CreateOnce
<1>7. ASSUME NEW r \in Requests, NEW g \in running, Deliver(r, g)
      PROVE  OnceInv'
  BY <1>7, DeliverOnce
<1>8. ASSUME NEW r \in Requests, StartCommit(r)
      PROVE  OnceInv'
  BY <1>1, <1>8 DEF StartCommit, samples
<1>9. ASSUME NEW r \in Requests, NEW t \in Topics, CommitNext(r, t)
      PROVE  OnceInv'
  BY <1>1, <1>9 DEF CommitNext, samples
<1>10. ASSUME NEW r \in Requests, Return(r)
      PROVE  OnceInv'
  <2>1. OneGoroutinePerMessage' /\ HeldUnwritten' /\ UNCHANGED written
    BY <1>10, CancelOnce DEF Return
  <2>2. \A q \in Requests : body'[q] \subseteq body[q]
    BY <1>10 DEF Return, OffsetInv, TypeInv, TypeOK
  <2> QED BY <2>1, <2>2 DEF OnceInv, BodyWritten, BodiesDisjoint
<1>11. ASSUME NEW r \in Requests, ClientLeaves(r)
      PROVE  OnceInv'
  <2>1. UNCHANGED <<body, written>> /\ Cancel(r)
    BY <1>11 DEF ClientLeaves, samples
  <2> QED BY <2>1, CancelOnce DEF OnceInv, BodyWritten, BodiesDisjoint
<1>12. ASSUME NEW r \in Requests, CommitFails(r)
      PROVE  OnceInv'
  BY <1>1, <1>12 DEF CommitFails, samples
<1>13. ASSUME NEW c \in Clusters, NEW r \in Requests, FetchFails(c, r)
      PROVE  OnceInv'
  BY <1>1, <1>13 DEF FetchFails, request, samples
<1>14. CASE Crash
  BY <1>14 DEF Crash, Resume, OnceInv, OneGoroutinePerMessage, BodyWritten, BodiesDisjoint,
               HeldUnwritten
<1>15. CASE UNCHANGED vars
  BY <1>1, <1>15 DEF vars
<1> QED BY <1>2, <1>3, <1>4, <1>5, <1>6, <1>7, <1>8, <1>9, <1>10, <1>11, <1>12,
           <1>13, <1>14, <1>15 DEF Next, CalmNext, Silence, ContextDone

(* One process puts a sample into at most one response, although all       *)
(* requests read the same channel (main.go:132, 207).                      *)
THEOREM WrittenAtMostOnce == Spec => []SampleWrittenOnce
<1>1. Init => OnceInv
  BY DEF Init, OnceInv, OneGoroutinePerMessage, BodyWritten, BodiesDisjoint,
         HeldUnwritten
<1> QED BY <1>1, OffsetAlways, OnceStep, OnceImplies, PTL DEF Spec

-----------------------------------------------------------------------------
(* StoredIsLatest by name: the offsets a response has samples of, and the  *)
(* number that is the greatest of them.                                    *)
OffsetsIn(samps, t) == {s[1].offset : s \in {b \in samps : b[1].topic = t}}

Latest(n, S) == IF S = {} THEN n = NoOffset ELSE n \in S /\ \A o \in S : o <= n

LatestOf(stored, b, t) == Latest(stored[t], OffsetsIn(b, t))

LatestStored == \A r \in Requests, t \in Topics : LatestOf(lrm[r], body[r], t)

LEMMA StoredNamed == LatestStored <=> StoredIsLatest
  BY DEF LatestStored, LatestOf, Latest, OffsetsIn, StoredIsLatest

LEMMA NothingIsLatest ==
  ASSUME NEW t \in Topics
  PROVE  LatestOf(NothingStored, {}, t)
  BY DEF LatestOf, Latest, OffsetsIn, NothingStored

(* What Store does to the greatest of a set when the set grows. *)
LEMMA LatestGrows ==
  ASSUME NEW S \in SUBSET Nat, NEW n \in Int, Latest(n, S), NEW o \in Nat
  PROVE  Latest(IF n < o THEN o ELSE n, S \union {o})
  BY DEF Latest, NoOffset

LEMMA DeliverLatest ==
  ASSUME TypeInv, LatestStored, NEW r \in Requests, NEW g \in running, Deliver(r, g)
  PROVE  LatestStored'
<1> DEFINE sample == <<g.msg, Size[g.msg] - g.left + 1>>
           T == g.msg.topic
           o == g.msg.offset
<1>1. g.msg \in Messages /\ T \in Topics /\ o \in Nat
  BY LogEndAssumption DEF TypeInv, TypeOK, Goroutine, Messages
<1>2. /\ lrm \in [Requests -> [Topics -> NoOffset .. LogEnd - 1]]
      /\ body \in [Requests -> SUBSET (Messages \X Nat)]
  BY DEF TypeInv, TypeOK
<1>3. /\ body' = [body EXCEPT ![r] = @ \union {sample}]
      /\ lrm' = [lrm EXCEPT ![r][T] = IF @ < o THEN o ELSE @]
  BY DEF Deliver, Store
<1>4. sample[1] = g.msg
  OBVIOUS
<1> HIDE DEF sample
<1> SUFFICES ASSUME NEW q \in Requests, NEW t \in Topics
             PROVE  LatestOf(lrm'[q], body'[q], t)
  BY DEF LatestStored
<1>5. LatestOf(lrm[q], body[q], t)
  BY DEF LatestStored
<1>6. CASE q # r
  BY <1>2, <1>3, <1>5, <1>6
<1>7. CASE q = r /\ t # T
  <2>1. lrm'[q][t] = lrm[q][t] /\ body'[q] = body[q] \union {sample}
    BY <1>1, <1>2, <1>3, <1>7
  <2>2. OffsetsIn(body'[q], t) = OffsetsIn(body[q], t)
    BY <1>4, <1>7, <2>1 DEF OffsetsIn
  <2> QED BY <1>5, <2>1, <2>2 DEF LatestOf
<1>8. CASE q = r /\ t = T
  <2>1. /\ lrm'[q][t] = (IF lrm[q][t] < o THEN o ELSE lrm[q][t])
        /\ body'[q] = body[q] \union {sample}
        /\ body[q] \subseteq Messages \X Nat
        /\ lrm[q][t] \in Int
    BY <1>1, <1>2, <1>3, <1>8, LogEndAssumption DEF NoOffset
  <2>2. OffsetsIn(body'[q], t) = OffsetsIn(body[q], t) \union {o}
    BY <1>4, <1>8, <2>1 DEF OffsetsIn
  <2>3. OffsetsIn(body[q], t) \subseteq Nat
    BY <2>1, LogEndAssumption DEF OffsetsIn, Messages
  <2>4. Latest(lrm[q][t], OffsetsIn(body[q], t))
    BY <1>5 DEF LatestOf
  <2>5. Latest(IF lrm[q][t] < o THEN o ELSE lrm[q][t], OffsetsIn(body[q], t) \union {o})
    BY <1>1, <2>1, <2>3, <2>4, LatestGrows
  <2> QED BY <2>1, <2>2, <2>5 DEF LatestOf
<1> QED BY <1>6, <1>7, <1>8

(* Only a delivery stores; a return and a crash forget both. *)
LEMMA LatestStep == OffsetInv /\ LatestStored /\ [Next]_vars => LatestStored'
<1> SUFFICES ASSUME TypeInv, LatestStored, [Next]_vars
             PROVE  LatestStored'
  BY DEF OffsetInv
<1>1. ASSUME UNCHANGED <<lrm, body>>
      PROVE  LatestStored'
  BY <1>1 DEF LatestStored
<1>2. ASSUME NEW t \in Topics, Produce(t)
      PROVE  LatestStored'
  BY <1>1, <1>2 DEF Produce, request
<1>3. ASSUME NEW r \in Requests, Serve(r)
      PROVE  LatestStored'
  BY <1>1, <1>3 DEF Serve
<1>4. ASSUME NEW t \in Topics, NEW x \in Contexts, Fetch(t, x)
      PROVE  LatestStored'
  BY <1>1, <1>4 DEF Fetch, request
<1>5. ASSUME NEW c \in Clusters, FetchCancelled(c)
      PROVE  LatestStored'
  BY <1>1, <1>5 DEF FetchCancelled, request
<1>6. ASSUME NEW g \in running, Create(g)
      PROVE  LatestStored'
  BY <1>1, <1>6 DEF Create, request
<1>7. ASSUME NEW r \in Requests, NEW g \in running, Deliver(r, g)
      PROVE  LatestStored'
  BY <1>7, DeliverLatest
<1>8. ASSUME NEW r \in Requests, StartCommit(r)
      PROVE  LatestStored'
  BY <1>1, <1>8 DEF StartCommit
<1>9. ASSUME NEW r \in Requests, NEW t \in Topics, CommitNext(r, t)
      PROVE  LatestStored'
  BY <1>1, <1>9 DEF CommitNext
<1>10. ASSUME NEW r \in Requests, Return(r)
      PROVE  LatestStored'
  <2>1. /\ lrm' = [lrm EXCEPT ![r] = NothingStored] /\ body' = [body EXCEPT ![r] = {}]
        /\ lrm \in [Requests -> [Topics -> NoOffset .. LogEnd - 1]]
        /\ body \in [Requests -> SUBSET (Messages \X Nat)]
    BY <1>10 DEF Return, TypeInv, TypeOK
  <2>2. \A q \in Requests : \/ lrm'[q] = NothingStored /\ body'[q] = {}
                            \/ lrm'[q] = lrm[q] /\ body'[q] = body[q]
    BY <2>1
  <2> QED BY <2>2, NothingIsLatest DEF LatestStored
<1>11. ASSUME NEW r \in Requests, ClientLeaves(r)
      PROVE  LatestStored'
  BY <1>1, <1>11 DEF ClientLeaves
<1>12. ASSUME NEW r \in Requests, CommitFails(r)
      PROVE  LatestStored'
  BY <1>1, <1>12 DEF CommitFails
<1>13. ASSUME NEW c \in Clusters, NEW r \in Requests, FetchFails(c, r)
      PROVE  LatestStored'
  BY <1>1, <1>13 DEF FetchFails, request
<1>14. CASE Crash
  <2>1. \A q \in Requests : lrm'[q] = NothingStored /\ body'[q] = {}
    BY <1>14 DEF Crash
  <2> QED BY <2>1, NothingIsLatest DEF LatestStored
<1>15. CASE UNCHANGED vars
  BY <1>1, <1>15 DEF vars
<1> QED BY <1>2, <1>3, <1>4, <1>5, <1>6, <1>7, <1>8, <1>9, <1>10, <1>11, <1>12,
           <1>13, <1>14, <1>15 DEF Next, CalmNext, Silence, ContextDone

(* What a request is going to commit is the greatest offset it wrote a     *)
(* sample of, whichever requests' goroutines it received from, and in      *)
(* whatever order (main.go:54).                                            *)
THEOREM StoresLatest == Spec => []StoredIsLatest
<1>1. Init => LatestStored
  <2> SUFFICES ASSUME Init PROVE LatestStored
    OBVIOUS
  <2>1. \A q \in Requests : lrm[q] = NothingStored /\ body[q] = {}
    BY DEF Init
  <2> QED BY <2>1, NothingIsLatest DEF LatestStored
<1> QED BY <1>1, OffsetAlways, LatestStep, StoredNamed, PTL DEF Spec

-----------------------------------------------------------------------------
(* Every step is a step of the abstract consumer or none. *)
LEMMA ConsumerStep == OffsetInv /\ OffsetInv' /\ [Next]_vars
                        => [Promise!Next]_Promise!vars
<1> SUFFICES ASSUME OffsetInv, [Next]_vars
             PROVE  Promise!Next \/ UNCHANGED Promise!vars
  OBVIOUS
<1> USE DEF Promise!vars
<1>1. ASSUME UNCHANGED <<end, position, committed, written>>
      PROVE  UNCHANGED Promise!vars
  BY <1>1 DEF ServedMessages
<1>2. ASSUME NEW t \in Topics, Produce(t)
      PROVE  Promise!Next
  BY <1>2 DEF Produce, samples, ServedMessages, Promise!Next, Promise!Produce
<1>3. ASSUME NEW r \in Requests, Serve(r)
      PROVE  UNCHANGED Promise!vars
  BY <1>1, <1>3 DEF Serve, kafka, samples
<1>4. ASSUME NEW t \in Topics, NEW x \in Contexts, Fetch(t, x)
      PROVE  Promise!Next
  BY <1>4 DEF Fetch, FetchMessage, kafka, samples, ServedMessages,
              Promise!Next, Promise!Take
<1>5. ASSUME NEW c \in Clusters, FetchCancelled(c)
      PROVE  UNCHANGED Promise!vars
  BY <1>1, <1>5 DEF FetchCancelled, kafka, samples
<1>6. ASSUME NEW g \in running, Create(g)
      PROVE  UNCHANGED Promise!vars
  BY <1>1, <1>6 DEF Create, kafka, samples
<1>7. ASSUME NEW r \in Requests, NEW g \in running, Deliver(r, g)
      PROVE  Promise!Next
  <2> DEFINE sample == <<g.msg, Size[g.msg] - g.left + 1>>
             T == g.msg.topic
             o == g.msg.offset
  <2>1. T \in Topics /\ o \in 0 .. LogEnd - 1 /\ o < position[T]
    BY DEF OffsetInv, TypeInv, TypeOK, Goroutine, Messages, BehindReader
  <2>2. written' = written \union {sample} /\ UNCHANGED <<end, position, committed>>
    BY <1>7 DEF Deliver, kafka
  <2>3. sample[1] = g.msg
    OBVIOUS
  <2> HIDE DEF sample
  <2>4. ServedMessages' = ServedMessages \union {<<T, o>>}
    BY <2>2, <2>3 DEF ServedMessages
  <2>5. Promise!Serve(T, o)
    BY <2>1, <2>2, <2>4 DEF Promise!Serve
  <2> QED BY <2>1, <2>5 DEF Promise!Next
<1>8. ASSUME NEW r \in Requests, StartCommit(r)
      PROVE  UNCHANGED Promise!vars
  BY <1>1, <1>8 DEF StartCommit, kafka, samples
<1>9. ASSUME NEW r \in Requests, NEW t \in Topics, CommitNext(r, t)
      PROVE  Promise!Next \/ UNCHANGED Promise!vars
  <2> DEFINE o == lrm[r][t]
  <2>1. o \in NoOffset .. LogEnd - 1 /\ o < position[t]
    BY DEF OffsetInv, BehindReader, TypeInv, TypeOK
  <2>2. UNCHANGED <<end, position, written>>
    BY <1>9 DEF CommitNext, samples
  <2>3. CASE NotCommittable(o)
    BY <1>1, <1>9, <2>2, <2>3 DEF CommitNext
  <2>4. CASE ~NotCommittable(o)
    <3>1. o > 0 /\ o \in 0 .. LogEnd - 1
      BY <2>1, <2>4, LogEndAssumption DEF NotCommittable, NoOffset
    <3>2. <<t, o>> \in ServedMessages
      BY <3>1 DEF OffsetInv, StoredServed, NoOffset
    <3>3. committed' = [committed EXCEPT ![t] = o + 1]
      BY <1>9, <2>4 DEF CommitNext, CommitMessages
    <3>4. ServedMessages' = ServedMessages
      BY <2>2 DEF ServedMessages
    <3>5. Promise!Commit(t, o)
      BY <2>1, <2>2, <3>1, <3>2, <3>3, <3>4 DEF Promise!Commit
    <3> QED BY <3>1, <3>5 DEF Promise!Next
  <2> QED BY <2>3, <2>4
<1>10. ASSUME NEW r \in Requests, Return(r)
      PROVE  UNCHANGED Promise!vars
  BY <1>1, <1>10 DEF Return, kafka
<1>11. ASSUME NEW r \in Requests, ClientLeaves(r)
      PROVE  UNCHANGED Promise!vars
  BY <1>1, <1>11 DEF ClientLeaves, kafka, samples
<1>12. ASSUME NEW r \in Requests, CommitFails(r)
      PROVE  UNCHANGED Promise!vars
  BY <1>1, <1>12 DEF CommitFails, kafka, samples
<1>13. ASSUME NEW c \in Clusters, NEW r \in Requests, FetchFails(c, r)
      PROVE  UNCHANGED Promise!vars
  BY <1>1, <1>13 DEF FetchFails, kafka, samples
<1>14. CASE Crash
  BY <1>14 DEF Crash, Resume, kafka, ServedMessages, Promise!Next, Promise!Restart
<1>15. CASE UNCHANGED vars
  BY <1>1, <1>15 DEF vars
<1> QED BY <1>2, <1>3, <1>4, <1>5, <1>6, <1>7, <1>8, <1>9, <1>10, <1>11, <1>12,
           <1>13, <1>14, <1>15 DEF Next, CalmNext, Silence, ContextDone

(* The exporter is a consumer that commits only what this process fetched  *)
(* and wrote a sample of, never offset 0, and resumes at what it committed *)
(* (main.go:161, 166, 209).                                                *)
THEOREM RefinesConsumer == Spec => ImplementsConsumer
<1>1. Init => Promise!Init
  BY DEF Init, Promise!Init, ServedMessages
<1> QED BY <1>1, OffsetAlways, ConsumerStep, PTL
        DEF Spec, ImplementsConsumer, Promise!Spec
=============================================================================
