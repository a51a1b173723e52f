-------------------------- MODULE TelemetryProofs --------------------------
(***************************************************************************)
(* Theorems about Telemetry, for any configurations, options, sizes of the *)
(* batches and number of calls.                                            *)
(***************************************************************************)
EXTENDS Telemetry, FiniteSetTheorems, TLAPS

----------------------------------------------------------------------------
\* Sequences, and how a post divides a queue.

LEMMA RangeAppend ==
    ASSUME NEW S, NEW s \in Seq(S), NEW x \in S
    PROVE  /\ Append(s, x) \in Seq(S)
           /\ Range(Append(s, x)) = Range(s) \cup {x}
           /\ IsInjective(s) /\ x \notin Range(s) => IsInjective(Append(s, x))
<1>1. /\ Append(s, x) \in Seq(S)
      /\ DOMAIN Append(s, x) = 1..(Len(s) + 1)
      /\ Append(s, x)[Len(s) + 1] = x
      /\ \A i \in DOMAIN s : Append(s, x)[i] = s[i]
      /\ DOMAIN s = 1..Len(s) /\ Len(s) \in Nat
  OBVIOUS
<1>2. Range(Append(s, x)) = Range(s) \cup {x}
  BY <1>1 DEF Range
<1>3. IsInjective(s) /\ x \notin Range(s) => IsInjective(Append(s, x))
  BY <1>1 DEF Range, IsInjective
<1> QED BY <1>1, <1>2, <1>3

\* q is a, and b behind it.
Joined(q, a, b) ==
    /\ Len(q) = Len(a) + Len(b)
    /\ \A i \in 1..Len(a) : q[i] = a[i]
    /\ \A i \in 1..Len(b) : q[Len(a) + i] = b[i]

(* A sequence made of two others, put together or cut apart. *)
LEMMA TwoParts ==
    ASSUME NEW S, NEW q \in Seq(S), NEW a \in Seq(S), NEW b \in Seq(S),
           Joined(q, a, b)
    PROVE  /\ Range(q) = Range(a) \cup Range(b)
           /\ IsInjective(q) <=> /\ IsInjective(a) /\ IsInjective(b)
                              /\ Range(a) \cap Range(b) = {}
<1> USE DEF Joined
<1>1. /\ DOMAIN q = 1..(Len(a) + Len(b))
      /\ DOMAIN a = 1..Len(a) /\ DOMAIN b = 1..Len(b)
      /\ Len(a) \in Nat /\ Len(b) \in Nat
  OBVIOUS
<1>2. \A i \in DOMAIN q : \/ i \in DOMAIN a /\ q[i] = a[i]
                          \/ i - Len(a) \in DOMAIN b /\ q[i] = b[i - Len(a)]
  <2> SUFFICES ASSUME NEW i \in DOMAIN q, i \notin DOMAIN a
               PROVE  i - Len(a) \in DOMAIN b /\ q[i] = b[i - Len(a)]
    BY <1>1
  <2>1. i - Len(a) \in 1..Len(b) /\ Len(a) + (i - Len(a)) = i
    BY <1>1
  <2> QED BY <2>1, <1>1
<1>3. Range(q) = Range(a) \cup Range(b)
  <2>1. Range(q) \subseteq Range(a) \cup Range(b)
    BY <1>2 DEF Range
  <2>2. Range(a) \subseteq Range(q)
    BY <1>1 DEF Range
  <2>3. Range(b) \subseteq Range(q)
    <3>1. \A i \in DOMAIN b : Len(a) + i \in DOMAIN q
      BY <1>1
    <3> QED BY <3>1, <1>1 DEF Range
  <2> QED BY <2>1, <2>2, <2>3
<1>4. ASSUME IsInjective(q)
      PROVE  IsInjective(a) /\ IsInjective(b) /\ Range(a) \cap Range(b) = {}
  <2>1. \A i \in DOMAIN a : i \in DOMAIN q /\ q[i] = a[i]
    BY <1>1
  <2>2. \A i \in DOMAIN b : Len(a) + i \in DOMAIN q /\ q[Len(a) + i] = b[i]
    BY <1>1
  <2>3. IsInjective(a)
    BY <1>4, <2>1 DEF IsInjective
  <2>4. IsInjective(b)
    <3> SUFFICES ASSUME NEW i \in DOMAIN b, NEW j \in DOMAIN b, b[i] = b[j]
                 PROVE  i = j
      BY DEF IsInjective
    <3>1. Len(a) + i = Len(a) + j
      BY <1>4, <2>2 DEF IsInjective
    <3> QED BY <3>1, <1>1
  <2>5. Range(a) \cap Range(b) = {}
    <3> SUFFICES ASSUME NEW i \in DOMAIN a, NEW j \in DOMAIN b, a[i] = b[j]
                 PROVE  FALSE
      BY DEF Range
    <3>1. i = Len(a) + j
      BY <1>4, <2>1, <2>2 DEF IsInjective
    <3> QED BY <3>1, <1>1
  <2> QED BY <2>3, <2>4, <2>5
<1>5. ASSUME IsInjective(a), IsInjective(b), Range(a) \cap Range(b) = {}
      PROVE  IsInjective(q)
  <2> SUFFICES ASSUME NEW i \in DOMAIN q, NEW j \in DOMAIN q, q[i] = q[j]
               PROVE  i = j
    BY DEF IsInjective
  <2>1. CASE i \in DOMAIN a /\ j \in DOMAIN a /\ q[i] = a[i] /\ q[j] = a[j]
    BY <2>1, <1>5 DEF IsInjective
  <2>2. CASE i \in DOMAIN a /\ q[i] = a[i] /\ j - Len(a) \in DOMAIN b /\ q[j] = b[j - Len(a)]
    <3>1. q[i] \in Range(a) /\ q[j] \in Range(b)
      BY <2>2 DEF Range
    <3> QED BY <3>1, <1>5
  <2>3. CASE j \in DOMAIN a /\ q[j] = a[j] /\ i - Len(a) \in DOMAIN b /\ q[i] = b[i - Len(a)]
    <3>1. q[j] \in Range(a) /\ q[i] \in Range(b)
      BY <2>3 DEF Range
    <3> QED BY <3>1, <1>5
  <2>4. CASE /\ i - Len(a) \in DOMAIN b /\ q[i] = b[i - Len(a)]
             /\ j - Len(a) \in DOMAIN b /\ q[j] = b[j - Len(a)]
    <3>1. i - Len(a) = j - Len(a)
      BY <2>4, <1>5 DEF IsInjective
    <3> QED BY <3>1, <1>1
  <2> QED BY <1>2, <2>1, <2>2, <2>3, <2>4
<1> QED BY <1>3, <1>4, <1>5

(* What splice leaves, and what it takes out. *)
LEMMA CutParts ==
    ASSUME NEW S, NEW q \in Seq(S), NEW n \in 0..Len(q)
    PROVE  /\ SubSeq(q, 1, n) \in Seq(S) /\ SubSeq(q, n + 1, Len(q)) \in Seq(S)
           /\ Range(q) = Range(SubSeq(q, 1, n)) \cup Range(SubSeq(q, n + 1, Len(q)))
           /\ IsInjective(q) => /\ IsInjective(SubSeq(q, 1, n))
                             /\ IsInjective(SubSeq(q, n + 1, Len(q)))
                             /\ Range(SubSeq(q, 1, n)) \cap Range(SubSeq(q, n + 1, Len(q))) = {}
<1> DEFINE a == SubSeq(q, 1, n)
           b == SubSeq(q, n + 1, Len(q))
<1>1. a \in Seq(S) /\ Len(a) = n /\ \A i \in 1..n : q[i] = a[i]
  OBVIOUS
<1>2. /\ b \in Seq(S) /\ Len(b) = Len(q) - n
      /\ \A i \in 1..(Len(q) - n) : q[n + i] = b[i]
  OBVIOUS
<1>3. Len(q) \in Nat /\ n \in Nat
  OBVIOUS
<1> HIDE DEF a, b
<1>4. Joined(q, a, b)
  BY <1>1, <1>2, <1>3 DEF Joined
<1>5. /\ Range(q) = Range(a) \cup Range(b)
      /\ IsInjective(q) => IsInjective(a) /\ IsInjective(b) /\ Range(a) \cap Range(b) = {}
  BY <1>1, <1>2, <1>4, TwoParts
<1> QED BY <1>1, <1>2, <1>5 DEF a, b

(* What stands behind the queue when a post has failed. *)
LEMMA ConcatParts ==
    ASSUME NEW S, NEW s \in Seq(S), NEW t \in Seq(S)
    PROVE  /\ s \o t \in Seq(S)
           /\ Range(s \o t) = Range(s) \cup Range(t)
           /\ IsInjective(s) /\ IsInjective(t) /\ Range(s) \cap Range(t) = {}
                 => IsInjective(s \o t)
<1> DEFINE q == s \o t
<1>1. q \in Seq(S) /\ Joined(q, s, t)
  BY DEF Joined
<1> HIDE DEF q
<1>2. /\ Range(q) = Range(s) \cup Range(t)
      /\ IsInjective(s) /\ IsInjective(t) /\ Range(s) \cap Range(t) = {} => IsInjective(q)
  BY <1>1, TwoParts
<1> QED BY <1>1, <1>2 DEF q

----------------------------------------------------------------------------
\* A queue q, posts P and acknowledged copies A that hold the copies C, each
\* of them in one place.

InPosts(P) == UNION {Range(p) : p \in P}

Kept(q, P, A, C) ==
    /\ IsInjective(q)
    /\ \A p \in P : IsInjective(p) /\ Range(p) \cap Range(q) = {}
    /\ \A p, r \in P : p # r => Range(p) \cap Range(r) = {}
    /\ A \cap (Range(q) \cup InPosts(P)) = {}
    /\ Range(q) \cup InPosts(P) \cup A = C

LEMMA KeptIsNothingLost ==
    /\ NothingLost <=> Kept(teleData, posts, acked, Copies)
    /\ NothingLost' <=> Kept(teleData', posts', acked', Copies')
BY DEF NothingLost, Apart, Kept, Queued, InFlight, InPosts

(* The listener puts a new copy into the queue. *)
LEMMA KeptAppend ==
    ASSUME NEW S, NEW q \in Seq(S), NEW P, NEW A, NEW C, NEW x \in S,
           Kept(q, P, A, C), x \notin C
    PROVE  Kept(Append(q, x), P, A, C \cup {x})
<1>1. Range(Append(q, x)) = Range(q) \cup {x} /\ x \notin Range(q)
  BY RangeAppend DEF Kept
<1>2. IsInjective(Append(q, x))
  BY <1>1, RangeAppend DEF Kept
<1>3. x \notin InPosts(P) /\ x \notin A
  BY DEF Kept
<1>4. \A p \in P : Range(p) \cap Range(Append(q, x)) = {}
  BY <1>1, <1>3 DEF Kept, InPosts
<1> QED BY <1>1, <1>2, <1>3, <1>4 DEF Kept

(* A post takes the beginning of the queue. *)
LEMMA KeptCut ==
    ASSUME NEW S, NEW q \in Seq(S), NEW n \in 0..Len(q), NEW P, NEW A, NEW C,
           Kept(q, P, A, C)
    PROVE  Kept(SubSeq(q, n + 1, Len(q)), P \cup {SubSeq(q, 1, n)}, A, C)
<1> DEFINE a == SubSeq(q, 1, n)
           b == SubSeq(q, n + 1, Len(q))
           Q == P \cup {a}
<1>1. /\ Range(q) = Range(a) \cup Range(b)
      /\ IsInjective(a) /\ IsInjective(b) /\ Range(a) \cap Range(b) = {}
  BY CutParts DEF Kept
<1> HIDE DEF a, b
<1>2. InPosts(Q) = InPosts(P) \cup Range(a)
  BY DEF InPosts
<1>3. \A p \in Q : IsInjective(p) /\ Range(p) \cap Range(b) = {}
  BY <1>1 DEF Kept
<1>4. \A p, r \in Q : p # r => Range(p) \cap Range(r) = {}
  BY <1>1 DEF Kept
<1>5. /\ A \cap (Range(b) \cup InPosts(Q)) = {}
      /\ Range(b) \cup InPosts(Q) \cup A = C
  <2> HIDE DEF Q
  <2> QED BY <1>1, <1>2 DEF Kept
<1>6. Kept(b, Q, A, C)
  <2> HIDE DEF Q
  <2> QED BY <1>1, <1>3, <1>4, <1>5 DEF Kept
<1> QED BY <1>6 DEF a, b

(* What a post holds is held by nothing else. *)
LEMMA KeptWithout ==
    ASSUME NEW P, NEW A, NEW C, NEW q, NEW p \in P, Kept(q, P, A, C)
    PROVE  /\ InPosts(P) = InPosts(P \ {p}) \cup Range(p)
           /\ InPosts(P \ {p}) \cap Range(p) = {}
           /\ IsInjective(p) /\ Range(p) \cap Range(q) = {} /\ Range(p) \cap A = {}
<1>1. InPosts(P) = InPosts(P \ {p}) \cup Range(p)
  BY DEF InPosts
<1>2. InPosts(P \ {p}) \cap Range(p) = {}
  BY DEF Kept, InPosts
<1>3. IsInjective(p) /\ Range(p) \cap Range(q) = {} /\ Range(p) \cap A = {}
  BY DEF Kept, InPosts
<1> QED BY <1>1, <1>2, <1>3

(* A post is answered. *)
LEMMA KeptDone ==
    ASSUME NEW P, NEW A, NEW C, NEW q, NEW p \in P, Kept(q, P, A, C)
    PROVE  Kept(q, P \ {p}, A \cup Range(p), C)
<1> DEFINE U == InPosts(P \ {p})
<1>1. /\ InPosts(P) = U \cup Range(p)
      /\ U \cap Range(p) = {}
      /\ Range(p) \cap Range(q) = {} /\ Range(p) \cap A = {}
  BY KeptWithout
<1> HIDE DEF U
<1>2. /\ (A \cup Range(p)) \cap (Range(q) \cup U) = {}
      /\ Range(q) \cup U \cup (A \cup Range(p)) = C
  BY <1>1 DEF Kept
<1>3. /\ IsInjective(q)
      /\ \A r \in P \ {p} : IsInjective(r) /\ Range(r) \cap Range(q) = {}
      /\ \A r, s \in P \ {p} : r # s => Range(r) \cap Range(s) = {}
  BY DEF Kept
<1> QED BY <1>2, <1>3 DEF Kept, U

(* A post fails, and its copies go behind the queue. *)
LEMMA KeptFails ==
    ASSUME NEW S, NEW q \in Seq(S), NEW P \in SUBSET Seq(S), NEW A, NEW C,
           NEW p \in P, Kept(q, P, A, C)
    PROVE  Kept(q \o p, P \ {p}, A, C)
<1> DEFINE U == InPosts(P \ {p})
           b == q \o p
<1>1. /\ InPosts(P) = U \cup Range(p)
      /\ U \cap Range(p) = {} /\ IsInjective(p)
      /\ Range(p) \cap Range(q) = {} /\ Range(p) \cap A = {}
  BY KeptWithout
<1>2. Range(b) = Range(q) \cup Range(p) /\ IsInjective(b)
  BY <1>1, ConcatParts DEF Kept
<1> HIDE DEF U, b
<1>3. /\ A \cap (Range(b) \cup U) = {}
      /\ Range(b) \cup U \cup A = C
  BY <1>1, <1>2 DEF Kept
<1>4. /\ \A r \in P \ {p} : IsInjective(r) /\ Range(r) \cap Range(b) = {}
      /\ \A r, s \in P \ {p} : r # s => Range(r) \cap Range(s) = {}
  BY <1>2 DEF Kept
<1> QED BY <1>2, <1>3, <1>4 DEF Kept, U, b

----------------------------------------------------------------------------
\* The fingerprint pauses once, before the fonts.

LEMMA OnlyFonts ==
    /\ Len(Components) = 32 /\ DOMAIN Components = 1..32
    /\ \A j \in 1..32 : Components[j] \in pauseBefore \ excludes <=> j = 29
<1>1. pauseBefore \ excludes = {"fonts"}
  BY DEF pauseBefore, excludes
<1>2. /\ Len(Components) = 32 /\ DOMAIN Components = 1..32
      /\ \A j \in 1..32 : Components[j] = "fonts" <=> j = 29
  BY DEF Components
<1> QED BY <1>1, <1>2

LEMMA ChainPauses ==
    ASSUME NEW i \in Nat
    PROVE  chainComponents(i) = IF i < 29 THEN 29 ELSE Finished
<1> DEFINE pauses == {j \in (i + 1)..Len(Components) :
                           Components[j] \in pauseBefore \ excludes}
<1>1. pauses = IF i < 29 THEN {29} ELSE {}
  BY OnlyFonts
<1>2. chainComponents(i) = IF pauses = {} THEN Finished
                           ELSE CHOOSE j \in pauses : \A k \in pauses : j <= k
  BY DEF chainComponents
<1> HIDE DEF pauses
<1>3. CASE i < 29
  <2>1. \A j : j \in pauses <=> j = 29
    BY <1>1, <1>3
  <2>2. (CHOOSE j \in pauses : \A k \in pauses : j <= k) = 29
    BY <2>1
  <2> QED BY <2>1, <2>2, <1>2, <1>3
<1>4. CASE ~(i < 29)
  BY <1>1, <1>2, <1>4
<1> QED BY <1>3, <1>4

----------------------------------------------------------------------------
\* Types.

ConfigSet ==
    [initialized : BOOLEAN, batchsize : 1..BatchLimit \cup {None},
     runningEnv : {"client", "server"}, validation : BOOLEAN,
     did : Ids, uid : Ids]

CurrentSet == [Keys -> Ids \cup {Empty}]

EventSet(D) ==
    [eid : {"START", "END", "EVENT"}, env : {"client", "server"},
     dropped : BOOLEAN, did : Ids, actor : Ids, amid : SUBSET D]

TimerSet(D) == [call : D, at : DOMAIN Components]

CopySet(D) == [of : D, by : D]

LEMMA IdsHold ==
    /\ None \in Ids /\ FingerPrint \in Ids
    /\ \A c \in Configs : c.did \in Ids /\ c.uid \in Ids
    /\ \A o \in Options, k \in Keys : o[k] \in Ids
BY DEF Ids

(* A configuration that init is given becomes one the library can have. *)
LEMMA InitConfig ==
    ASSUME config \in ConfigSet, NEW c \in Configs
    PROVE  init(c) \in ConfigSet
<1>1. /\ c.batchsize \in (Nat \ {0}) \cup {None}
      /\ c.validation \in BOOLEAN \cup {None}
      /\ c.runningEnv \in {"client", "server", None}
  BY ValueAssumption
<1>2. (IF c.batchsize = None THEN DefaultBatch
       ELSE IF c.batchsize > BatchLimit THEN BatchLimit
       ELSE c.batchsize) \in 1..BatchLimit \cup {None}
  BY <1>1, BatchAssumption
<1>3. (IF c.runningEnv = None THEN config.runningEnv ELSE c.runningEnv) \in {"client", "server"}
  BY <1>1 DEF ConfigSet
<1>4. (IF c.validation = None THEN config.validation ELSE c.validation) \in BOOLEAN
  BY <1>1 DEF ConfigSet
<1>5. updateConfigurations(c) \in Ids /\ c.uid \in Ids
  BY IdsHold DEF ConfigSet, updateConfigurations
<1> QED BY <1>2, <1>3, <1>4, <1>5 DEF init, ConfigSet

(* Options name ids, or leave the current ones. *)
LEMMA UpdateTyped ==
    ASSUME current \in CurrentSet, NEW options \in Options
    PROVE  updateValues(options) \in CurrentSet
BY IdsHold DEF updateValues, CurrentSet

Typed ==
    /\ config \in ConfigSet /\ current \in CurrentSet
    /\ log \in Seq(EventSet(DOMAIN log))
    /\ fingerPrintId \in {None, FingerPrint} /\ FP_T \in {None, FingerPrint}
    /\ timers \in Seq(TimerSet(DOMAIN log))
    /\ startData \in Seq(DOMAIN log)
    /\ copies \in Seq(CopySet(DOMAIN log))
    /\ teleData \in Seq(Copies) /\ posts \subseteq Seq(Copies)
    /\ acked \subseteq Copies /\ retried \subseteq Copies
    /\ changes \in 0..MaxChanges /\ failures \in 0..MaxFailures

LEMMA TypeParts == (TypeOK <=> Typed) /\ (TypeOK' <=> Typed')
BY DEF TypeOK, Typed, ConfigSet, CurrentSet, EventSet, TimerSet, CopySet

(* What is typed for some calls is typed for more. *)
LEMMA Widen ==
    ASSUME NEW D, NEW E, D \subseteq E
    PROVE  /\ Seq(EventSet(D)) \subseteq Seq(EventSet(E))
           /\ Seq(TimerSet(D)) \subseteq Seq(TimerSet(E))
           /\ Seq(CopySet(D)) \subseteq Seq(CopySet(E))
           /\ Seq(D) \subseteq Seq(E)
<1>1. EventSet(D) \subseteq EventSet(E)
  BY DEF EventSet
<1>2. TimerSet(D) \subseteq TimerSet(E) /\ CopySet(D) \subseteq CopySet(E)
  BY DEF TimerSet, CopySet
<1>3. \A S, T : S \subseteq T => Seq(S) \subseteq Seq(T)
  OBVIOUS
<1> QED BY <1>1, <1>2, <1>3

----------------------------------------------------------------------------
\* What the sync manager does, whoever calls it.

(* A post takes a beginning of the queue, whatever the size of the batch. *)
LEMMA SyncCuts ==
    ASSUME NEW S, NEW q \in Seq(S), config' \in ConfigSet, syncEvents(q)
    PROVE  \E n \in 0..Len(q) : /\ posts' = posts \cup {SubSeq(q, 1, n)}
                                /\ teleData' = SubSeq(q, n + 1, Len(q))
<1> DEFINE size == config'.batchsize
           n == IF size = None THEN 0 ELSE IF size <= Len(q) THEN size ELSE Len(q)
<1>1. size \in 1..BatchLimit \cup {None} /\ Len(q) \in Nat
  BY DEF ConfigSet
<1>2. n \in 0..Len(q)
  BY <1>1, BatchAssumption
<1> QED BY <1>2 DEF syncEvents

(* The listener adds one copy to the copies dispatched, and keeps them all. *)
LEMMA SendKeeps ==
    ASSUME NEW n, NEW m, config' \in ConfigSet, sendTelemetry(n, m),
           copies \in Seq(CopySet(DOMAIN log)),
           teleData \in Seq(Copies), posts \subseteq Seq(Copies)
    PROVE  /\ copies' = Append(copies, [of |-> n, by |-> m])
           /\ Copies' = Copies \cup {Len(copies) + 1}
           /\ FP_T' = fingerPrintId'
           /\ teleData' \in Seq(Copies') /\ posts' \subseteq Seq(Copies')
           /\ Kept(teleData, posts, acked, Copies)
                 => Kept(teleData', posts', acked, Copies')
<1> DEFINE x == Len(copies) + 1
           q == Append(teleData, x)
<1>1. /\ copies' = Append(copies, [of |-> n, by |-> m])
      /\ FP_T' = fingerPrintId'
      /\ syncEvents(q) \/ (teleData' = q /\ posts' = posts)
  BY DEF sendTelemetry
<1>2. /\ Copies = 1..Len(copies) /\ Len(copies) \in Nat
      /\ Copies' = 1..x
  BY <1>1 DEF Copies
<1>3. Copies' = Copies \cup {x} /\ x \notin Copies /\ x \in Copies'
  BY <1>2
<1> HIDE DEF x
<1>4. teleData \in Seq(Copies') /\ posts \subseteq Seq(Copies')
  BY <1>3, Widen
<1>5. q \in Seq(Copies')
  BY <1>3, <1>4
<1>6. Kept(teleData, posts, acked, Copies) => Kept(q, posts, acked, Copies')
  BY <1>3, <1>4, KeptAppend
<1> HIDE DEF q
<1>7. CASE teleData' = q /\ posts' = posts
  BY <1>1, <1>3, <1>4, <1>5, <1>6, <1>7 DEF x
<1>8. CASE syncEvents(q)
  <2>1. PICK k \in 0..Len(q) : /\ posts' = posts \cup {SubSeq(q, 1, k)}
                               /\ teleData' = SubSeq(q, k + 1, Len(q))
    BY <1>8, <1>5, SyncCuts
  <2>2. SubSeq(q, 1, k) \in Seq(Copies') /\ SubSeq(q, k + 1, Len(q)) \in Seq(Copies')
    BY <1>5, CutParts
  <2>3. Kept(q, posts, acked, Copies') => Kept(teleData', posts', acked, Copies')
    BY <2>1, <1>5, KeptCut
  <2> QED BY <2>1, <2>2, <2>3, <1>1, <1>3, <1>4, <1>6 DEF x
<1> QED BY <1>1, <1>7, <1>8

----------------------------------------------------------------------------
\* What a call that writes an event does: the new event e, and its three ways
\* through _dispatch.

Writes(eid, e) ==
    /\ e \in EventSet(DOMAIN log) /\ log' = Append(log, e)
    /\ e.eid = eid /\ e.amid = {timers[i].call : i \in DOMAIN timers}
    /\ config' \in ConfigSet /\ current' \in CurrentSet
    /\ UNCHANGED <<fingerPrintId, acked, retried, failures, changes>>
    /\ \/ e.dropped /\ UNCHANGED <<timers, sync>>
       \/ /\ ~e.dropped
          /\ timers' = Append(timers, [call |-> Len(log) + 1, at |-> 29])
          /\ UNCHANGED sync
       \/ /\ ~e.dropped /\ UNCHANGED timers
          /\ e.env = "client" => e.did # None /\ e.actor # None
          /\ sendTelemetry(Len(log) + 1, Len(log) + 1)

LEMMA WriteFacts ==
    ASSUME TypeOK, NEW eid \in {"START", "END", "EVENT"}, NEW valid \in BOOLEAN,
           NEW options \in Options, NEW cfg \in ConfigSet,
           Write(eid, valid, options, cfg)
    PROVE  \E e : Writes(eid, e)
<1> DEFINE now == updateValues(options)
           env == IF options["runningEnv"] = None THEN cfg.runningEnv
                  ELSE options["runningEnv"]
           e == getEvent(eid, valid, now, cfg, env)
           device == IF e.did # None THEN e.did ELSE fingerPrintId
           named == [e EXCEPT !.did = device, !.actor = getActorId(@, device)]
           client == e.env = "client" /\ ~e.dropped
           waiting == client /\ device = None
<1>1. /\ current' = now /\ config' = [cfg EXCEPT !.runningEnv = env]
      /\ _dispatch(e)
      /\ UNCHANGED <<answers, changes>>
  BY DEF Write
<1>2. now \in CurrentSet /\ now["context"] \in Ids \cup {Empty}
                         /\ now["actor"] \in Ids \cup {Empty}
  BY TypeParts, UpdateTyped, ValueAssumption DEF CurrentSet, Typed
<1>3. env \in {"client", "server"}
  BY ValueAssumption DEF ConfigSet
<1>4. config' \in ConfigSet
  <2>1. [cfg EXCEPT !.runningEnv = env] \in ConfigSet
    <3> HIDE DEF env
    <3> QED BY <1>3 DEF ConfigSet
  <2> QED BY <2>1, <1>1
<1>5. {timers[i].call : i \in DOMAIN timers} \subseteq DOMAIN log
  <2>1. timers \in Seq(TimerSet(DOMAIN log))
    BY TypeParts DEF Typed
  <2>2. \A i \in DOMAIN timers : timers[i] \in TimerSet(DOMAIN log)
    BY <2>1
  <2> QED BY <2>2 DEF TimerSet
<1>6. /\ e \in EventSet(DOMAIN log) /\ e.eid = eid
      /\ e.amid = {timers[i].call : i \in DOMAIN timers}
  <2> HIDE DEF env, now
  <2> QED BY <1>2, <1>3, <1>5 DEF getEvent, EventSet, ConfigSet
<1> HIDE DEF e
<1>7. device \in Ids /\ getActorId(e.actor, device) \in Ids
  BY <1>6, TypeParts, IdsHold DEF EventSet, getActorId, Typed
<1>8. /\ named \in EventSet(DOMAIN log)
      /\ named.eid = e.eid /\ named.amid = e.amid /\ named.env = e.env
      /\ named.dropped = e.dropped /\ named.did = device
      /\ named.actor = getActorId(e.actor, device)
  <2> HIDE DEF device
  <2> QED BY <1>6, <1>7 DEF EventSet
<1>9. named.actor # None \/ device = None
  BY <1>8 DEF getActorId
<1> HIDE DEF named
<1>10. /\ log' = Append(log, IF client /\ ~waiting THEN named ELSE e)
       /\ UNCHANGED fingerPrintId
       /\ \/ e.dropped /\ UNCHANGED <<timers, sync>>
          \/ waiting /\ getFingerPrint(Len(log) + 1)
          \/ /\ ~e.dropped /\ ~waiting
             /\ sendTelemetry(Len(log) + 1, Len(log) + 1)
             /\ UNCHANGED timers
  BY <1>1 DEF _dispatch, named
<1>11. e.dropped \in BOOLEAN /\ chainComponents(0) = 29
  BY <1>6, ChainPauses DEF EventSet
<1>12. UNCHANGED <<acked, retried, failures, changes>>
  BY <1>1 DEF answers
<1>13. CASE e.dropped /\ UNCHANGED <<timers, sync>>
  <2>1. Writes(eid, e)
    BY <1>13, <1>1, <1>2, <1>4, <1>6, <1>10, <1>12 DEF Writes
  <2> QED BY <2>1
<1>14. CASE waiting /\ getFingerPrint(Len(log) + 1)
  <2>1. Writes(eid, e)
    BY <1>14, <1>1, <1>2, <1>4, <1>6, <1>10, <1>11, <1>12 DEF Writes, getFingerPrint
  <2> QED BY <2>1
<1>15. CASE /\ ~e.dropped /\ ~waiting /\ e.env = "client"
            /\ sendTelemetry(Len(log) + 1, Len(log) + 1)
            /\ UNCHANGED timers
  <2>1. log' = Append(log, named) /\ device # None
    BY <1>15, <1>10
  <2>2. Writes(eid, named)
    BY <2>1, <1>15, <1>1, <1>2, <1>4, <1>6, <1>8, <1>9, <1>10, <1>12 DEF Writes
  <2> QED BY <2>2
<1>16. CASE /\ ~e.dropped /\ ~waiting /\ e.env # "client"
            /\ sendTelemetry(Len(log) + 1, Len(log) + 1)
            /\ UNCHANGED timers
  <2>1. Writes(eid, e)
    BY <1>16, <1>1, <1>2, <1>4, <1>6, <1>10, <1>12 DEF Writes
  <2> QED BY <2>1
<1> QED BY <1>10, <1>13, <1>14, <1>15, <1>16

----------------------------------------------------------------------------
\* The invariant.

\* A fingerprint that is awaited was asked for by the last call, or was awaited
\* already when that call wrote its event.
Known ==
    \A i \in DOMAIN timers :
        timers[i].call = Len(log) \/ timers[i].call \in log[Len(log)].amid

IInv == TypeOK /\ NothingLost /\ DeviceNamed /\ Known /\ LostOnlyIfOvertaken

LEMMA InitIInv == Init => IInv
<1> SUFFICES ASSUME Init PROVE IInv
  OBVIOUS
<1>1. /\ log = <<>> /\ timers = <<>> /\ copies = <<>> /\ teleData = <<>>
      /\ startData = <<>> /\ posts = {} /\ acked = {} /\ retried = {}
      /\ DOMAIN log = {} /\ DOMAIN timers = {} /\ Copies = {}
  BY DEF Init, Copies
<1>2. config \in ConfigSet /\ current \in CurrentSet
  BY IdsHold DEF Init, ConfigSet, CurrentSet
<1>3. TypeOK
  BY <1>1, <1>2, TypeParts, BoundAssumption DEF Init, Typed
<1>4. NothingLost
  BY <1>1, KeptIsNothingLost DEF Kept, InPosts, Range, IsInjective
<1>5. DeviceNamed /\ Known /\ LostOnlyIfOvertaken
  BY <1>1 DEF DeviceNamed, Known, LostOnlyIfOvertaken
<1> QED BY <1>3, <1>4, <1>5 DEF IInv

(* The last call and the calls before it. *)
LEMMA AppendLog ==
    ASSUME NEW e, log \in Seq(EventSet(DOMAIN log)), e \in EventSet(DOMAIN log),
           log' = Append(log, e)
    PROVE  /\ Len(log) \in Nat /\ DOMAIN log = 1..Len(log)
           /\ Len(log') = Len(log) + 1 /\ DOMAIN log' = 1..(Len(log) + 1)
           /\ \A i \in DOMAIN log : log'[i] = log[i]
           /\ log'[Len(log) + 1] = e
           /\ log' \in Seq(EventSet(DOMAIN log'))
<1>1. /\ Len(log) \in Nat /\ DOMAIN log = 1..Len(log)
      /\ Len(log') = Len(log) + 1 /\ DOMAIN log' = 1..(Len(log) + 1)
      /\ \A i \in DOMAIN log : log'[i] = log[i]
      /\ log'[Len(log) + 1] = e
  OBVIOUS
<1>2. log' \in Seq(EventSet(DOMAIN log)) /\ DOMAIN log \subseteq DOMAIN log'
  OBVIOUS
<1>3. log' \in Seq(EventSet(DOMAIN log'))
  <2>1. Seq(EventSet(DOMAIN log)) \subseteq Seq(EventSet(DOMAIN log'))
    BY <1>2, Widen
  <2> QED BY <2>1, <1>2
<1> QED BY <1>1, <1>3

(* An event is written. *)
LEMMA WriteKeeps ==
    ASSUME IInv, NEW eid, NEW e, Writes(eid, e), startData' \in Seq(DOMAIN log')
    PROVE  IInv'
<1>0. PICK n : n = Len(log) + 1
  OBVIOUS
<1> DEFINE t == [call |-> n, at |-> 29]
<1>1. /\ log \in Seq(EventSet(DOMAIN log))
      /\ timers \in Seq(TimerSet(DOMAIN log))
      /\ copies \in Seq(CopySet(DOMAIN log))
      /\ teleData \in Seq(Copies) /\ posts \subseteq Seq(Copies)
      /\ acked \subseteq Copies /\ retried \subseteq Copies
      /\ fingerPrintId \in {None, FingerPrint} /\ FP_T \in {None, FingerPrint}
      /\ changes \in 0..MaxChanges /\ failures \in 0..MaxFailures
  BY TypeParts DEF IInv, Typed
<1>2. /\ log' = Append(log, e) /\ e \in EventSet(DOMAIN log)
      /\ e.amid = {timers[i].call : i \in DOMAIN timers}
      /\ config' \in ConfigSet /\ current' \in CurrentSet
      /\ UNCHANGED <<fingerPrintId, acked, retried, failures, changes>>
  BY DEF Writes
<1>3. /\ Len(log) \in Nat /\ DOMAIN log = 1..Len(log)
      /\ Len(log') = n /\ DOMAIN log' = 1..n
      /\ \A i \in DOMAIN log : log'[i] = log[i]
      /\ log'[n] = e
      /\ log' \in Seq(EventSet(DOMAIN log'))
  <2>1. /\ Len(log) \in Nat /\ DOMAIN log = 1..Len(log)
        /\ Len(log') = Len(log) + 1 /\ DOMAIN log' = 1..(Len(log) + 1)
        /\ \A i \in DOMAIN log : log'[i] = log[i]
        /\ log'[Len(log) + 1] = e
        /\ log' \in Seq(EventSet(DOMAIN log'))
    BY <1>1, <1>2, AppendLog, Zenon
  <2> QED BY <1>0, <2>1
<1>4. DOMAIN log \subseteq DOMAIN log' /\ n \in DOMAIN log' /\ n \notin DOMAIN log
  BY <1>0, <1>3
<1>5. /\ Kept(teleData, posts, acked, Copies) => Kept(teleData', posts', acked, Copies')
      /\ copies' \in Seq(CopySet(DOMAIN log')) /\ Copies \subseteq Copies'
      /\ teleData' \in Seq(Copies') /\ posts' \subseteq Seq(Copies')
      /\ FP_T' \in {None, FingerPrint}
      /\ \/ UNCHANGED copies
         \/ /\ copies' = Append(copies, [of |-> n, by |-> n])
            /\ e.env = "client" => e.did # None /\ e.actor # None
  <2>1. copies \in Seq(CopySet(DOMAIN log'))
    BY <1>1, <1>4, Widen
  <2>2. CASE UNCHANGED sync
    BY <2>1, <2>2, <1>1 DEF sync, Copies
  <2>3. CASE /\ sendTelemetry(n, n)
             /\ e.env = "client" => e.did # None /\ e.actor # None
    <3>1. [of |-> n, by |-> n] \in CopySet(DOMAIN log')
      BY <1>4 DEF CopySet
    <3>2. /\ copies' = Append(copies, [of |-> n, by |-> n])
          /\ Copies' = Copies \cup {Len(copies) + 1}
          /\ FP_T' = fingerPrintId'
          /\ teleData' \in Seq(Copies') /\ posts' \subseteq Seq(Copies')
          /\ Kept(teleData, posts, acked, Copies)
                => Kept(teleData', posts', acked, Copies')
      BY <2>3, <1>1, <1>2, SendKeeps, Zenon
    <3>3. copies' \in Seq(CopySet(DOMAIN log'))
      BY <2>1, <3>1, <3>2
    <3> QED BY <2>3, <3>2, <3>3, <1>1, <1>2
  <2> QED BY <1>0, <2>2, <2>3 DEF Writes
<1>14. /\ \A c \in Copies : /\ c \in Copies' /\ copies'[c] = copies[c]
                            /\ copies[c].of \in DOMAIN log
       /\ \A c \in Copies' : \/ c \in Copies
                            \/ /\ copies'[c] = [of |-> n, by |-> n]
                               /\ e.env = "client" => e.did # None /\ e.actor # None
  <2>1. \A c \in Copies : copies[c] \in CopySet(DOMAIN log)
    BY <1>1 DEF Copies
  <2>2. \A c \in Copies : copies[c].of \in DOMAIN log
    BY <2>1 DEF CopySet
  <2> DEFINE x == [of |-> n, by |-> n]
  <2>3. x = [of |-> n, by |-> n]
    OBVIOUS
  <2> HIDE DEF x
  <2>4. CASE UNCHANGED copies
    BY <2>2, <2>4 DEF Copies
  <2>5. CASE /\ copies' = Append(copies, x)
             /\ e.env = "client" => e.did # None /\ e.actor # None
    <3>1. /\ DOMAIN copies = 1..Len(copies) /\ Len(copies) \in Nat
          /\ DOMAIN copies' = 1..(Len(copies) + 1)
          /\ \A c \in DOMAIN copies : copies'[c] = copies[c]
          /\ copies'[Len(copies) + 1] = x
      BY <1>1, <2>5
    <3> QED BY <3>1, <2>2, <2>3, <2>5 DEF Copies
  <2> QED BY <1>5, <2>3, <2>4, <2>5
<1>6. timers = timers' \/ timers' = Append(timers, t)
  BY <1>0 DEF Writes
<1>7. /\ t \in TimerSet(DOMAIN log')
      /\ timers \in Seq(TimerSet(DOMAIN log'))
  <2>1. t \in TimerSet(DOMAIN log')
    BY <1>4, OnlyFonts DEF TimerSet
  <2>2. timers \in Seq(TimerSet(DOMAIN log'))
    BY <1>1, <1>4, Widen
  <2> QED BY <2>1, <2>2
<1>8. /\ timers' \in Seq(TimerSet(DOMAIN log'))
      /\ \A i \in DOMAIN timers : i \in DOMAIN timers' /\ timers'[i] = timers[i]
      /\ \A i \in DOMAIN timers' : i \in DOMAIN timers \/ timers'[i] = t
  <2> DEFINE S == TimerSet(DOMAIN log')
  <2>1. timers \in Seq(S) /\ t \in S
    BY <1>7
  <2> HIDE DEF t, S
  <2>2. CASE timers' = timers
    BY <2>1, <2>2 DEF S
  <2>3. CASE timers' = Append(timers, t)
    <3>1. /\ timers' \in Seq(S) /\ DOMAIN timers' = 1..(Len(timers) + 1)
          /\ DOMAIN timers = 1..Len(timers) /\ Len(timers) \in Nat
          /\ timers'[Len(timers) + 1] = t
          /\ \A i \in DOMAIN timers : timers'[i] = timers[i]
      BY <2>1, <2>3
    <3>2. \A i \in DOMAIN timers' : i \in DOMAIN timers \/ i = Len(timers) + 1
      BY <3>1
    <3> QED BY <3>1, <3>2 DEF S
  <2> QED BY <1>6, <2>2, <2>3
<1>9. TypeOK'
  <2>1. acked' \subseteq Copies' /\ retried' \subseteq Copies'
    BY <1>1, <1>2, <1>5
  <2> QED BY <1>1, <1>2, <1>3, <1>5, <1>8, <2>1, TypeParts DEF Typed
<1>10. NothingLost'
  <2>1. Kept(teleData, posts, acked, Copies)
    BY KeptIsNothingLost DEF IInv
  <2>2. Kept(teleData', posts', acked', Copies')
    BY <2>1, <1>5, <1>2
  <2> QED BY <2>2, KeptIsNothingLost
<1>11. Known'
  <2> SUFFICES ASSUME NEW i \in DOMAIN timers'
               PROVE  timers'[i].call = Len(log') \/ timers'[i].call \in log'[Len(log')].amid
    BY DEF Known
  <2>1. CASE i \in DOMAIN timers
    BY <2>1, <1>2, <1>3, <1>8
  <2>2. CASE timers'[i] = t
    BY <2>2, <1>3
  <2> QED BY <2>1, <2>2, <1>8
<1>12. DeviceNamed'
  <2> SUFFICES ASSUME NEW c \in Copies', log'[copies'[c].of].env = "client"
               PROVE  /\ log'[copies'[c].of].did # None
                      /\ log'[copies'[c].of].actor # None
    BY DEF DeviceNamed
  <2>1. CASE c \in Copies /\ copies'[c] = copies[c]
    BY <2>1, <1>3, <1>14 DEF IInv, DeviceNamed
  <2>2. CASE /\ copies'[c] = [of |-> n, by |-> n]
             /\ e.env = "client" => e.did # None /\ e.actor # None
    BY <2>2, <1>3
  <2>3. \/ c \in Copies /\ copies'[c] = copies[c]
        \/ /\ copies'[c] = [of |-> n, by |-> n]
           /\ e.env = "client" => e.did # None /\ e.actor # None
    BY <1>14
  <2> QED BY <2>1, <2>2, <2>3
<1>13. LostOnlyIfOvertaken'
  <2> SUFFICES ASSUME NEW k \in DOMAIN log', ~log'[k].dropped
               PROVE  Waits(k)' \/ Overtaken(k)' \/ CopiesOf(k)' # {}
    BY DEF LostOnlyIfOvertaken
  <2>1. CASE k \in DOMAIN log
    <3>1. Waits(k) \/ Overtaken(k) \/ CopiesOf(k) # {}
      BY <2>1, <1>3 DEF IInv, LostOnlyIfOvertaken
    <3>2. Waits(k) => Waits(k)'
      BY <1>8 DEF Waits
    <3>3. Overtaken(k) => Overtaken(k)'
      BY <1>3, <1>4 DEF Overtaken
    <3>4. CopiesOf(k) \subseteq CopiesOf(k)'
      BY <1>14 DEF CopiesOf
    <3> QED BY <3>1, <3>2, <3>3, <3>4
  <2>2. CASE k = n
    <3>1. ~e.dropped
      BY <2>2, <1>3
    <3>2. \/ timers' = Append(timers, t)
          \/ copies' = Append(copies, [of |-> n, by |-> n])
      <4>1. CASE sendTelemetry(n, n)
        BY <4>1 DEF sendTelemetry
      <4> QED BY <1>0, <3>1, <4>1 DEF Writes
    <3>3. CASE timers' = Append(timers, t)
      <4>1. Len(timers) + 1 \in DOMAIN timers' /\ timers'[Len(timers) + 1] = t
        BY <3>3, <1>1
      <4> QED BY <4>1, <2>2 DEF Waits
    <3>4. CASE copies' = Append(copies, [of |-> n, by |-> n])
      <4>1. /\ Len(copies) + 1 \in DOMAIN copies'
            /\ copies'[Len(copies) + 1] = [of |-> n, by |-> n]
        BY <3>4, <1>1
      <4> QED BY <4>1, <2>2 DEF CopiesOf, Copies
    <3> QED BY <3>2, <3>3, <3>4
  <2> QED BY <1>0, <2>1, <2>2, <1>3
<1> QED BY <1>9, <1>10, <1>11, <1>12, <1>13 DEF IInv

LEMMA TailRange ==
    ASSUME NEW S, NEW s \in Seq(S), s # <<>>
    PROVE  /\ Tail(s) \in Seq(S) /\ Head(s) \in S
           /\ Range(s) = {Head(s)} \cup Range(Tail(s))
<1>1. /\ Tail(s) \in Seq(S) /\ Head(s) \in S /\ Len(s) \in Nat \ {0}
      /\ DOMAIN s = 1..Len(s) /\ DOMAIN Tail(s) = 1..(Len(s) - 1)
      /\ Head(s) = s[1]
      /\ \A i \in 1..(Len(s) - 1) : Tail(s)[i] = s[i + 1]
  OBVIOUS
<1> DEFINE b == Tail(s)
<1> HIDE DEF b
<1>2. /\ \A i \in DOMAIN s : i = 1 \/ (i - 1 \in DOMAIN b /\ b[i - 1] = s[i])
      /\ \A i \in DOMAIN b : i + 1 \in DOMAIN s /\ b[i] = s[i + 1]
      /\ 1 \in DOMAIN s
  BY <1>1 DEF b
<1>3. Range(s) = {Head(s)} \cup Range(b)
  BY <1>1, <1>2 DEF Range
<1> QED BY <1>1, <1>3 DEF b

(* The event the envelope holds is named, and nothing else of it is changed. *)
LEMMA NameLog ==
    ASSUME log \in Seq(EventSet(DOMAIN log)), log # <<>>,
           log' = [log EXCEPT ![Len(log)].did = FingerPrint,
                              ![Len(log)].actor = getActorId(@, FingerPrint)]
    PROVE  /\ Len(log) \in DOMAIN log
           /\ Len(log') = Len(log) /\ DOMAIN log' = DOMAIN log
           /\ \A i \in DOMAIN log : /\ log'[i].env = log[i].env
                                    /\ log'[i].eid = log[i].eid
                                    /\ log'[i].dropped = log[i].dropped
                                    /\ log'[i].amid = log[i].amid
                                    /\ i # Len(log) => log'[i] = log[i]
           /\ log'[Len(log)].did # None /\ log'[Len(log)].actor # None
           /\ log' \in Seq(EventSet(DOMAIN log'))
<1> PICK n : n = Len(log)
  OBVIOUS
<1> DEFINE e == log[n]
           d == [e EXCEPT !.did = FingerPrint, !.actor = getActorId(@, FingerPrint)]
<1>1. n \in DOMAIN log /\ DOMAIN log = 1..n /\ n \in Nat
  OBVIOUS
<1>2. e \in EventSet(DOMAIN log)
  BY <1>1
<1>3. log' = [log EXCEPT ![n] = d]
  BY <1>1
<1> HIDE DEF e
<1>4. getActorId(e.actor, FingerPrint) \in Ids /\ getActorId(e.actor, FingerPrint) # None
  BY <1>2, IdsHold, ValueAssumption DEF EventSet, getActorId
<1>5. /\ d \in EventSet(DOMAIN log)
      /\ d.env = e.env /\ d.dropped = e.dropped /\ d.amid = e.amid
      /\ d.eid = e.eid
      /\ d.did # None /\ d.actor # None
  BY <1>2, <1>4, IdsHold, ValueAssumption DEF EventSet
<1> HIDE DEF d
<1>6. /\ log' \in Seq(EventSet(DOMAIN log)) /\ Len(log') = n /\ DOMAIN log' = DOMAIN log
      /\ log'[n] = d /\ \A i \in DOMAIN log : i # n => log'[i] = log[i]
  <2>1. /\ DOMAIN log' = DOMAIN log /\ log'[n] = d
        /\ \A i \in DOMAIN log : i # n => log'[i] = log[i]
    BY <1>1, <1>3
  <2>2. log' \in Seq(EventSet(DOMAIN log))
    <3> DEFINE S == EventSet(DOMAIN log)
    <3>1. log \in Seq(S) /\ d \in S
      BY <1>5
    <3> HIDE DEF S
    <3>2. log' \in Seq(S)
      BY <3>1, <1>1, <1>3
    <3> QED BY <3>2 DEF S
  <2>3. Len(log') = n
    BY <2>1, <2>2, <1>1
  <2> QED BY <2>1, <2>2, <2>3
<1> QED BY <1>1, <1>5, <1>6 DEF e

(* A timer fires. *)
LEMMA FingerprintKeeps ==
    ASSUME IInv, FingerprintResumes
    PROVE  IInv'
<1>0. PICK n, t : n = Len(log) /\ t = Head(timers)
  OBVIOUS
<1>1. /\ log \in Seq(EventSet(DOMAIN log))
      /\ timers \in Seq(TimerSet(DOMAIN log))
      /\ copies \in Seq(CopySet(DOMAIN log))
      /\ teleData \in Seq(Copies) /\ posts \subseteq Seq(Copies)
      /\ acked \subseteq Copies /\ retried \subseteq Copies
      /\ config \in ConfigSet /\ current \in CurrentSet
      /\ startData \in Seq(DOMAIN log)
      /\ fingerPrintId \in {None, FingerPrint} /\ FP_T \in {None, FingerPrint}
      /\ changes \in 0..MaxChanges /\ failures \in 0..MaxFailures
  BY TypeParts DEF IInv, Typed
<1>2. /\ timers # <<>>
      /\ config' = config /\ current' = current /\ startData' = startData
      /\ UNCHANGED <<acked, retried, failures, changes>>
      /\ \/ /\ chainComponents(t.at) # Finished
            /\ timers' = Append(Tail(timers), [t EXCEPT !.at = chainComponents(t.at)])
            /\ UNCHANGED <<log, fingerPrintId, sync>>
         \/ /\ timers' = Tail(timers)
            /\ log' = [log EXCEPT ![n].did = FingerPrint,
                                  ![n].actor = getActorId(@, FingerPrint)]
            /\ fingerPrintId' = FingerPrint
            /\ sendTelemetry(n, t.call)
  BY <1>0 DEF FingerprintResumes, answers
<1>3. /\ Tail(timers) \in Seq(TimerSet(DOMAIN log)) /\ t \in TimerSet(DOMAIN log)
      /\ Range(timers) = {t} \cup Range(Tail(timers))
  BY <1>1, <1>2, <1>0, TailRange
<1>4. \A k : Waits(k) <=> \E x \in Range(timers) : x.call = k
  BY DEF Waits, Range
<1>5. \A k : Waits(k)' <=> \E x \in Range(timers') : x.call = k
  BY DEF Waits, Range
<1>6. Known <=> \A k : Waits(k) => k = Len(log) \/ k \in log[Len(log)].amid
  BY DEF Known, Waits
<1>7. Known' <=> \A k : Waits(k)' => k = Len(log') \/ k \in log'[Len(log')].amid
  BY DEF Known, Waits
<1>8. CASE /\ chainComponents(t.at) # Finished
           /\ timers' = Append(Tail(timers), [t EXCEPT !.at = chainComponents(t.at)])
           /\ UNCHANGED <<log, fingerPrintId, sync>>
  <2>1. t.at \in Nat /\ 29 \in DOMAIN Components
    <3>1. DOMAIN Components = 1..32
      BY OnlyFonts
    <3>2. t.at \in 1..32
      BY <3>1, <1>3 DEF TimerSet
    <3>3. 29 \in 1..32 /\ t.at \in Nat
      BY <3>2
    <3>4. 29 \in DOMAIN Components
      BY <3>1, <3>3, Zenon
    <3> QED BY <3>3, <3>4
  <2>2. chainComponents(t.at) = 29
    <3>1. chainComponents(t.at) = IF t.at < 29 THEN 29 ELSE Finished
      BY <2>1, ChainPauses
    <3> QED BY <3>1, <1>8
  <2>u. PICK u : u = [t EXCEPT !.at = 29]
    OBVIOUS
  <2>v. u \in TimerSet(DOMAIN log) /\ u.call = t.call
    BY <2>u, <2>1, <1>3 DEF TimerSet
  <2>3. /\ timers' \in Seq(TimerSet(DOMAIN log))
        /\ Range(timers') = Range(Tail(timers)) \cup {u}
    <3> DEFINE S == TimerSet(DOMAIN log)
    <3> DEFINE b == Tail(timers)
    <3>1. b \in Seq(S) /\ u \in S /\ timers' = Append(b, u)
      BY <1>3, <1>8, <2>2, <2>u, <2>v
    <3> HIDE DEF S, b
    <3>2. timers' \in Seq(S) /\ Range(timers') = Range(b) \cup {u}
      BY <3>1, RangeAppend
    <3> QED BY <3>2 DEF S, b
  <2>4. \A k : Waits(k)' <=> Waits(k)
    BY <1>3, <1>4, <1>5, <2>v, <2>3
  <2>5. TypeOK'
    BY <1>1, <1>2, <1>8, <2>3, TypeParts DEF Typed, Copies, sync
  <2>6. NothingLost'
    BY <1>2, <1>8, KeptIsNothingLost DEF IInv, Copies, sync
  <2>7. DeviceNamed'
    BY <1>8 DEF IInv, DeviceNamed, Copies, sync
  <2>8. Known'
    BY <1>6, <1>7, <1>8, <2>4 DEF IInv
  <2>9. LostOnlyIfOvertaken'
    BY <1>8, <2>4 DEF IInv, LostOnlyIfOvertaken, Overtaken, CopiesOf, Copies, sync
  <2> QED BY <2>5, <2>6, <2>7, <2>8, <2>9 DEF IInv
<1>9. CASE /\ timers' = Tail(timers)
           /\ log' = [log EXCEPT ![n].did = FingerPrint,
                                 ![n].actor = getActorId(@, FingerPrint)]
           /\ fingerPrintId' = FingerPrint
           /\ sendTelemetry(n, t.call)
  <2>1. t.call \in DOMAIN log /\ log # <<>>
    BY <1>1, <1>3 DEF TimerSet
  <2>2. /\ n \in DOMAIN log
        /\ Len(log') = n /\ DOMAIN log' = DOMAIN log
        /\ \A i \in DOMAIN log : /\ log'[i].env = log[i].env
                                 /\ log'[i].dropped = log[i].dropped
                                 /\ log'[i].amid = log[i].amid
                                 /\ i # n => log'[i] = log[i]
        /\ log'[n].did # None /\ log'[n].actor # None
        /\ log' \in Seq(EventSet(DOMAIN log'))
    BY <1>1, <1>9, <1>0, <2>1, NameLog
  <2>x. PICK x : x = [of |-> n, by |-> t.call]
    OBVIOUS
  <2>3. /\ copies' = Append(copies, x)
        /\ Copies' = Copies \cup {Len(copies) + 1}
        /\ FP_T' = fingerPrintId'
        /\ teleData' \in Seq(Copies') /\ posts' \subseteq Seq(Copies')
        /\ Kept(teleData, posts, acked, Copies)
              => Kept(teleData', posts', acked, Copies')
    BY <1>1, <1>2, <1>9, <2>x, SendKeeps
  <2>4. x \in CopySet(DOMAIN log) /\ x.of = n
    BY <2>1, <2>2, <2>x DEF CopySet
  <2>5. /\ copies' \in Seq(CopySet(DOMAIN log))
        /\ \A c \in Copies : /\ c \in Copies' /\ copies'[c] = copies[c]
                             /\ copies[c] \in CopySet(DOMAIN log)
        /\ \A c \in Copies' : c \in Copies \/ copies'[c] = x
        /\ Len(copies) + 1 \in Copies' /\ copies'[Len(copies) + 1] = x
    <3>1. /\ DOMAIN copies = 1..Len(copies) /\ Len(copies) \in Nat
          /\ DOMAIN copies' = 1..(Len(copies) + 1)
          /\ \A c \in DOMAIN copies : copies'[c] = copies[c]
          /\ copies'[Len(copies) + 1] = x
      BY <1>1, <2>3
    <3> QED BY <3>1, <1>1, <2>3, <2>4 DEF Copies
  <2>6. \A c \in Copies : copies[c].of \in DOMAIN log
    BY <2>5 DEF CopySet
  <2>7. \A k : Waits(k) => k = t.call \/ Waits(k)'
    BY <1>3, <1>4, <1>5, <1>9
  <2>8. \A k : Waits(k)' => Waits(k)
    BY <1>3, <1>4, <1>5, <1>9
  <2>9. TypeOK'
    BY <1>1, <1>2, <1>3, <1>9, <2>2, <2>3, <2>5, TypeParts DEF Typed
  <2>10. NothingLost'
    BY <1>2, <2>3, KeptIsNothingLost DEF IInv
  <2>11. DeviceNamed'
    <3> SUFFICES ASSUME NEW c \in Copies', log'[copies'[c].of].env = "client"
                 PROVE  /\ log'[copies'[c].of].did # None
                        /\ log'[copies'[c].of].actor # None
      BY DEF DeviceNamed
    <3>1. CASE copies'[c].of = n
      BY <3>1, <2>2
    <3>2. CASE copies'[c].of # n
      <4>1. c \in Copies /\ copies'[c] = copies[c] /\ copies[c].of \in DOMAIN log
        BY <3>2, <2>4, <2>5, <2>6
      <4>2. log'[copies'[c].of] = log[copies[c].of]
        BY <4>1, <3>2, <2>2
      <4> QED BY <4>1, <4>2 DEF IInv, DeviceNamed
    <3> QED BY <3>1, <3>2
  <2>12. Known'
    BY <1>6, <1>7, <1>0, <2>2, <2>8 DEF IInv
  <2>13. LostOnlyIfOvertaken'
    <3> SUFFICES ASSUME NEW k \in DOMAIN log, ~log[k].dropped
                 PROVE  Waits(k)' \/ Overtaken(k)' \/ CopiesOf(k)' # {}
      BY <2>2 DEF LostOnlyIfOvertaken
    <3>1. Waits(k) \/ Overtaken(k) \/ CopiesOf(k) # {}
      BY DEF IInv, LostOnlyIfOvertaken
    <3>2. Overtaken(k) => Overtaken(k)'
      BY <2>2 DEF Overtaken
    <3>3. CopiesOf(k) \subseteq CopiesOf(k)'
      BY <2>5 DEF CopiesOf
    <3>4. CASE k = t.call /\ k = n
      BY <3>4, <2>4, <2>5 DEF CopiesOf
    <3>5. CASE k = t.call /\ k # n
      <4>1. Waits(k)
        BY <3>5, <1>3, <1>4
      <4>2. Overtaken(k)
        BY <3>5, <4>1, <1>6, <1>0, <2>2 DEF IInv, Overtaken
      <4> QED BY <4>2, <3>2
    <3>6. CASE k # t.call
      BY <3>6, <3>1, <3>2, <3>3, <2>7
    <3> QED BY <3>4, <3>5, <3>6
  <2> QED BY <2>9, <2>10, <2>11, <2>12, <2>13 DEF IInv
<1> QED BY <1>2, <1>8, <1>9

----------------------------------------------------------------------------
\* The steps that only move copies, or only change what later calls will use.

LEMMA MoveKeeps ==
    ASSUME IInv, UNCHANGED <<log, timers, copies, FP_T, startData, fingerPrintId>>,
           config' \in ConfigSet, current' \in CurrentSet,
           teleData' \in Seq(Copies), posts' \subseteq Seq(Copies),
           acked' \subseteq Copies, retried' \subseteq Copies,
           changes' \in 0..MaxChanges, failures' \in 0..MaxFailures,
           Kept(teleData', posts', acked', Copies)
    PROVE  IInv'
<1>1. Copies' = Copies
  BY DEF Copies
<1>2. TypeOK'
  BY <1>1, TypeParts DEF IInv, Typed
<1>3. NothingLost'
  BY <1>1, KeptIsNothingLost
<1>4. DeviceNamed' /\ Known'
  BY <1>1 DEF IInv, DeviceNamed, Known
<1>5. LostOnlyIfOvertaken'
  BY <1>1 DEF IInv, LostOnlyIfOvertaken, Waits, Overtaken, CopiesOf
<1> QED BY <1>2, <1>3, <1>4, <1>5 DEF IInv

LEMMA TypesNow ==
    ASSUME IInv
    PROVE  /\ Typed /\ Kept(teleData, posts, acked, Copies)
BY TypeParts, KeptIsNothingLost DEF IInv

LEMMA SyncKeeps ==
    ASSUME IInv, SyncEvents
    PROVE  IInv'
<1>1. Typed /\ Kept(teleData, posts, acked, Copies)
  BY TypesNow
<1>2. /\ config' = config /\ syncEvents(teleData)
      /\ UNCHANGED <<current, log, fingerPrintId, timers, startData, copies, FP_T, acked, retried, failures>>
      /\ changes < MaxChanges /\ changes' = changes + 1
  BY DEF SyncEvents, answers
<1>3. PICK n \in 0..Len(teleData) : /\ posts' = posts \cup {SubSeq(teleData, 1, n)}
                                    /\ teleData' = SubSeq(teleData, n + 1, Len(teleData))
  BY <1>1, <1>2, SyncCuts DEF Typed
<1>4. SubSeq(teleData, 1, n) \in Seq(Copies) /\ teleData' \in Seq(Copies)
  BY <1>1, <1>3, CutParts DEF Typed
<1>5. Kept(teleData', posts', acked', Copies)
  BY <1>1, <1>2, <1>3, KeptCut DEF Typed
<1>6. changes' \in 0..MaxChanges
  BY <1>1, <1>2, BoundAssumption DEF Typed
<1> QED BY <1>1, <1>2, <1>3, <1>4, <1>5, <1>6, MoveKeeps DEF Typed

LEMMA DoneKeeps ==
    ASSUME IInv, NEW p \in posts, PostDone(p)
    PROVE  IInv'
<1>1. Typed /\ Kept(teleData, posts, acked, Copies)
  BY TypesNow
<1>2. /\ posts' = posts \ {p} /\ acked' = acked \cup Range(p)
      /\ UNCHANGED <<config, current, log, fingerPrintId, timers, startData,
                     copies, teleData, FP_T, retried, failures, changes>>
  BY DEF PostDone, Range, library
<1>3. Range(p) \subseteq Copies
  BY <1>1 DEF Kept, InPosts
<1>4. Kept(teleData', posts', acked', Copies)
  BY <1>1, <1>2, KeptDone
<1> QED BY <1>1, <1>2, <1>3, <1>4, MoveKeeps DEF Typed

LEMMA FailKeeps ==
    ASSUME IInv, NEW p \in posts, PostFails(p)
    PROVE  IInv'
<1>1. Typed /\ Kept(teleData, posts, acked, Copies)
  BY TypesNow
<1>2. /\ posts' = posts \ {p} /\ teleData' = teleData \o p
      /\ retried' = retried \cup Range(p)
      /\ failures < MaxFailures /\ failures' = failures + 1
      /\ UNCHANGED <<config, current, log, fingerPrintId, timers, startData,
                     copies, FP_T, acked, changes>>
  BY DEF PostFails, updateEventStack, Range, library
<1>3. Range(p) \subseteq Copies
  BY <1>1 DEF Kept, InPosts
<1>4. teleData' \in Seq(Copies)
  BY <1>1, <1>2, ConcatParts DEF Typed
<1>5. Kept(teleData', posts', acked', Copies)
  BY <1>1, <1>2, KeptFails DEF Typed
<1>6. failures' \in 0..MaxFailures
  BY <1>1, <1>2, BoundAssumption DEF Typed
<1> QED BY <1>1, <1>2, <1>3, <1>4, <1>5, <1>6, MoveKeeps DEF Typed

LEMMA ConfigKeeps ==
    ASSUME IInv, config' \in ConfigSet, current' \in CurrentSet,
           changes' \in 0..MaxChanges,
           UNCHANGED <<log, fingerPrintId, timers, startData, sync, answers>>
    PROVE  IInv'
<1>1. Typed /\ Kept(teleData, posts, acked, Copies)
  BY TypesNow
<1> QED BY <1>1, MoveKeeps DEF sync, answers, Typed

----------------------------------------------------------------------------
\* The specification.

LEMMA LogsKeep ==
    ASSUME IInv, Logs
    PROVE  IInv'
<1>1. Typed /\ TypeOK
  BY TypesNow DEF IInv
<1>2. PICK options \in Options, valid \in BOOLEAN :
          \/ \E c \in Configs \cup {None} : start(c, valid, options)
          \/ end(valid, options)
          \/ event(valid, options)
  BY DEF Logs
<1>3. ASSUME NEW eid \in {"START", "END", "EVENT"}, NEW cfg \in ConfigSet,
             Write(eid, valid, options, cfg),
             \A e \in EventSet(DOMAIN log) :
                 log' = Append(log, e) => startData' \in Seq(DOMAIN log')
      PROVE  IInv'
  <2>1. PICK e : Writes(eid, e)
    BY <1>1, <1>3, WriteFacts
  <2>2. startData' \in Seq(DOMAIN log')
    BY <2>1, <1>3 DEF Writes
  <2> QED BY <2>1, <2>2, WriteKeeps
<1>4. /\ log \in Seq(EventSet(DOMAIN log)) /\ startData \in Seq(DOMAIN log)
      /\ config \in ConfigSet
  BY <1>1 DEF Typed
<1>5. ASSUME NEW e \in EventSet(DOMAIN log), log' = Append(log, e)
      PROVE  /\ startData \in Seq(DOMAIN log')
             /\ Len(log) + 1 \in DOMAIN log'
  <2>1. DOMAIN log \subseteq DOMAIN log' /\ Len(log) + 1 \in DOMAIN log'
    BY <1>4, <1>5
  <2> QED BY <2>1, <1>4, Widen
<1>6. CASE \E c \in Configs \cup {None} : start(c, valid, options)
  <2>1. PICK c \in Configs \cup {None} : start(c, valid, options)
    BY <1>6
  <2> DEFINE cfg == IF c = None THEN config ELSE init(c)
  <2>2. cfg \in ConfigSet
    BY <1>4, InitConfig
  <2>3. Write("START", valid, options, cfg) /\ startData' = Append(startData, Len(log) + 1)
    BY <2>1 DEF start
  <2> HIDE DEF cfg
  <2>4. ASSUME NEW e \in EventSet(DOMAIN log), log' = Append(log, e)
        PROVE  startData' \in Seq(DOMAIN log')
    <3>1. startData \in Seq(DOMAIN log') /\ Len(log) + 1 \in DOMAIN log'
      BY <2>4, <1>5
    <3> QED BY <3>1, <2>3
  <2> QED BY <2>2, <2>3, <2>4, <1>3
<1>7. CASE end(valid, options)
  <2>1. /\ Write("END", valid, options, config) /\ startData # <<>>
        /\ startData' = SubSeq(startData, 1, Len(startData) - 1)
    BY <1>7 DEF end
  <2>2. ASSUME NEW e \in EventSet(DOMAIN log), log' = Append(log, e)
        PROVE  startData' \in Seq(DOMAIN log')
    <3>1. startData \in Seq(DOMAIN log')
      BY <2>2, <1>5
    <3> QED BY <3>1, <2>1
  <2> QED BY <1>4, <2>1, <2>2, <1>3
<1>8. CASE event(valid, options)
  <2>1. Write("EVENT", valid, options, config) /\ startData' = startData
    BY <1>8 DEF event
  <2> QED BY <1>4, <1>5, <2>1, <1>3
<1> QED BY <1>2, <1>6, <1>7, <1>8

LEMMA ChangesKeep ==
    ASSUME IInv, Changes
    PROVE  IInv'
<1>1. Typed
  BY TypesNow
<1>2. config \in ConfigSet /\ current \in CurrentSet /\ changes \in 0..MaxChanges
  BY <1>1 DEF Typed
<1>3. ASSUME NEW c \in Configs, initialize(c) PROVE IInv'
  BY <1>2, <1>3, InitConfig, ConfigKeeps DEF initialize
<1>4. ASSUME NEW k \in Keys, NEW v \in Ids \cup {Empty}, resetValue(k, v) PROVE IInv'
  <2>1. current' \in CurrentSet
    BY <1>2, <1>4 DEF resetValue, CurrentSet
  <2>2. changes' \in 0..MaxChanges
    BY <1>2, <1>4, BoundAssumption DEF resetValue
  <2> QED BY <2>1, <2>2, <1>2, <1>4, ConfigKeeps DEF resetValue
<1>5. ASSUME NEW b \in PageBatches, SetBatchsize(b) PROVE IInv'
  <2>1. config' \in ConfigSet
    BY <1>2, <1>5, BatchAssumption DEF SetBatchsize, ConfigSet
  <2>2. changes' \in 0..MaxChanges
    BY <1>2, <1>5, BoundAssumption DEF SetBatchsize
  <2> QED BY <2>1, <2>2, <1>2, <1>5, ConfigKeeps DEF SetBatchsize
<1>6. \A o \in Options, k \in Keys : o[k] \in Ids
  BY IdsHold
<1> QED BY <1>3, <1>4, <1>5, <1>6, SyncKeeps DEF Changes

LEMMA NextIInv == IInv /\ [Next]_vars => IInv'
<1> SUFFICES ASSUME IInv, [Next]_vars PROVE IInv'
  OBVIOUS
<1>1. CASE Logs
  BY <1>1, LogsKeep
<1>2. CASE Changes
  BY <1>2, ChangesKeep
<1>3. CASE FingerprintResumes
  BY <1>3, FingerprintKeeps
<1>4. CASE Answers
  BY <1>4, DoneKeeps, FailKeeps DEF Answers
<1>5. CASE UNCHANGED vars
  <2>1. Typed
    BY TypesNow
  <2> QED BY <2>1, <1>5, ConfigKeeps DEF vars, library, Typed
<1> QED BY <1>1, <1>2, <1>3, <1>4, <1>5 DEF Next

LEMMA Always == Spec => []IInv
BY InitIInv, NextIInv, PTL DEF Spec

(* Every variable holds what the code's variable can hold, whatever sizes of *)
(* batches, options and configurations the page uses.                        *)
THEOREM TypeCorrect == Spec => []TypeOK
<1>1. IInv => TypeOK
  BY DEF IInv
<1> QED BY <1>1, Always, PTL

(* No copy of an event leaves the sync manager but with an answer, and none  *)
(* is in two places, for any sizes of batches and any number of failures.    *)
THEOREM KeepsCopies == Spec => []NothingLost
<1>1. IInv => NothingLost
  BY DEF IInv
<1> QED BY <1>1, Always, PTL

(* Whatever is dispatched for a client names a device and an actor.          *)
THEOREM NamesDevice == Spec => []DeviceNamed
<1>1. IInv => DeviceNamed
  BY DEF IInv
<1> QED BY <1>1, Always, PTL

(* An accepted event that is not dispatched, and will not be, was overtaken  *)
(* by another one before its fingerprint was known.                          *)
THEOREM LosesOvertaken == Spec => []LostOnlyIfOvertaken
<1>1. IInv => LostOnlyIfOvertaken
  BY DEF IInv
<1> QED BY <1>1, Always, PTL

----------------------------------------------------------------------------
\* The steps of the library, as far as the theorems that follow tell them apart.

Remembers(eid) ==
    \/ eid = "START" /\ startData' = Append(startData, Len(log) + 1)
    \/ /\ eid = "END" /\ startData # <<>>
       /\ startData' = SubSeq(startData, 1, Len(startData) - 1)
    \/ eid = "EVENT" /\ UNCHANGED startData

LEMMA Steps ==
    ASSUME IInv, [Next]_vars
    PROVE  \/ \E eid, e : Writes(eid, e) /\ Remembers(eid)
           \/ FingerprintResumes
           \/ SyncEvents
           \/ \E p \in posts : PostDone(p) \/ PostFails(p)
           \/ UNCHANGED <<log, timers, startData, sync, acked, retried>>
<1>1. TypeOK /\ config \in ConfigSet
  BY TypesNow DEF IInv, Typed
<1>2. ASSUME NEW valid \in BOOLEAN, NEW options \in Options,
             NEW c \in Configs \cup {None}, start(c, valid, options)
      PROVE  \E e : Writes("START", e) /\ Remembers("START")
  <2> DEFINE cfg == IF c = None THEN config ELSE init(c)
  <2>1. cfg \in ConfigSet
    BY <1>1, InitConfig
  <2>2. Write("START", valid, options, cfg) /\ Remembers("START")
    BY <1>2 DEF start, Remembers
  <2> HIDE DEF cfg
  <2> QED BY <1>1, <2>1, <2>2, WriteFacts
<1>3. ASSUME NEW valid \in BOOLEAN, NEW options \in Options, end(valid, options)
      PROVE  \E e : Writes("END", e) /\ Remembers("END")
  <2>1. Write("END", valid, options, config) /\ Remembers("END")
    BY <1>3 DEF end, Remembers
  <2> QED BY <1>1, <2>1, WriteFacts
<1>4. ASSUME NEW valid \in BOOLEAN, NEW options \in Options, event(valid, options)
      PROVE  \E e : Writes("EVENT", e) /\ Remembers("EVENT")
  <2>1. Write("EVENT", valid, options, config) /\ Remembers("EVENT")
    BY <1>4 DEF event, Remembers
  <2> QED BY <1>1, <2>1, WriteFacts
<1>5. CASE Logs
  BY <1>2, <1>3, <1>4, <1>5 DEF Logs
<1>6. CASE Changes
  <2>1. SyncEvents \/ UNCHANGED <<log, timers, startData, sync, answers>>
    BY <1>6 DEF Changes, initialize, resetValue, SetBatchsize
  <2> QED BY <2>1 DEF answers
<1>7. CASE Answers
  BY <1>7 DEF Answers
<1>8. CASE UNCHANGED vars
  BY <1>8 DEF vars, library, answers
<1> QED BY <1>5, <1>6, <1>7, <1>8 DEF Next

----------------------------------------------------------------------------
\* The order of the queue.  A queue q, the copies G that have left it and the
\* copies R that a failed post put back.

Ordered(q, G, R) ==
    /\ \A d \in Range(q), c \in G : d < c => d \in R
    /\ \A i, j \in DOMAIN q : i < j /\ q[j] < q[i] => q[j] \in R

IsOrdered == Ordered(teleData, InPosts(posts) \cup acked, retried)

LEMMA OrderedIs == Typed /\ NothingLost => (OutOfOrderOnlyRetried <=> IsOrdered)
<1> SUFFICES ASSUME Typed, NothingLost PROVE OutOfOrderOnlyRetried <=> IsOrdered
  OBVIOUS
<1> DEFINE G == InPosts(posts) \cup acked
<1>1. /\ Range(teleData) \cup G = Copies
      /\ Queued = Range(teleData) /\ InFlight \cup acked = G
  BY KeptIsNothingLost DEF Kept, Queued, InFlight, InPosts
<1>2. \A i \in DOMAIN teleData : teleData[i] \in Copies
  BY <1>1 DEF Range
<1> HIDE DEF G
<1>3. ASSUME OutOfOrderOnlyRetried PROVE Ordered(teleData, G, retried)
  <2>1. \A c, d \in Copies : d < c /\ LeftBefore(c, d) => d \in retried
    BY <1>3 DEF OutOfOrderOnlyRetried
  <2>2. \A d \in Range(teleData), c \in G : d < c => d \in retried
    BY <1>1, <2>1 DEF LeftBefore
  <2>3. \A i, j \in DOMAIN teleData :
            i < j /\ teleData[j] < teleData[i] => teleData[j] \in retried
    BY <1>2, <2>1 DEF LeftBefore
  <2> QED BY <2>2, <2>3 DEF Ordered
<1>4. ASSUME Ordered(teleData, G, retried) PROVE OutOfOrderOnlyRetried
  <2> SUFFICES ASSUME NEW c \in Copies, NEW d \in Copies, d < c, LeftBefore(c, d)
               PROVE  d \in retried
    BY DEF OutOfOrderOnlyRetried
  <2> QED BY <1>1, <1>4 DEF LeftBefore, Ordered
<1> QED BY <1>3, <1>4 DEF G, IsOrdered

(* The listener puts the copy of the greatest number behind the queue. *)
LEMMA OrderedAppend ==
    ASSUME NEW q \in Seq(Nat), NEW x \in Nat, NEW G \in SUBSET Nat, NEW R,
           \A c \in Range(q) \cup G : c < x, Ordered(q, G, R)
    PROVE  Ordered(Append(q, x), G, R)
<1> DEFINE b == Append(q, x)
<1>1. /\ DOMAIN b = 1..(Len(q) + 1) /\ DOMAIN q = 1..Len(q) /\ Len(q) \in Nat
      /\ b[Len(q) + 1] = x /\ \A i \in DOMAIN q : b[i] = q[i] /\ q[i] \in Nat
  OBVIOUS
<1>2. Range(b) = Range(q) \cup {x} /\ Range(q) \subseteq Nat
  <2>1. Range(b) = Range(q) \cup {x}
    BY RangeAppend
  <2> HIDE DEF b
  <2>2. Range(q) \subseteq Nat
    BY <1>1 DEF Range
  <2> QED BY <2>1, <2>2
<1> HIDE DEF b
<1>3. \A d \in Range(b), c \in G : d < c => d \in R
  BY <1>2 DEF Ordered
<1>4. ASSUME NEW i \in DOMAIN b, NEW j \in DOMAIN b, i < j, b[j] < b[i]
      PROVE  b[j] \in R
  <2>1. i \in DOMAIN q
    BY <1>1, <1>4
  <2>2. CASE j \in DOMAIN q
    BY <2>1, <2>2, <1>1, <1>4 DEF Ordered
  <2>3. CASE j = Len(q) + 1
    <3>1. q[i] \in Range(q) /\ b[i] = q[i] /\ b[j] = x
      BY <2>1, <2>3, <1>1 DEF Range
    <3> QED BY <3>1, <1>4, <1>1, <2>1
  <2> QED BY <2>2, <2>3, <1>1
<1> QED BY <1>3, <1>4 DEF Ordered, b

(* A post takes the beginning of the queue. *)
LEMMA OrderedCut ==
    ASSUME NEW q \in Seq(Nat), NEW n \in 0..Len(q), NEW G, NEW R, Ordered(q, G, R)
    PROVE  Ordered(SubSeq(q, n + 1, Len(q)), G \cup Range(SubSeq(q, 1, n)), R)
<1> DEFINE a == SubSeq(q, 1, n)
           b == SubSeq(q, n + 1, Len(q))
<1>1. /\ DOMAIN a = 1..n /\ \A i \in 1..n : a[i] = q[i]
      /\ DOMAIN b = 1..(Len(q) - n) /\ \A i \in 1..(Len(q) - n) : b[i] = q[n + i]
      /\ n \in Nat /\ Len(q) \in Nat /\ DOMAIN q = 1..Len(q)
  OBVIOUS
<1>2. Range(q) = Range(a) \cup Range(b)
  BY CutParts
<1> HIDE DEF a, b
<1>3. \A i \in DOMAIN a : i \in DOMAIN q /\ i <= n
  BY <1>1
<1>4. \A i \in DOMAIN b : n + i \in DOMAIN q /\ n < n + i
  BY <1>1
<1>5. ASSUME NEW d \in Range(b), NEW c \in G \cup Range(a), d < c PROVE d \in R
  <2>1. CASE c \in G
    BY <2>1, <1>2, <1>5 DEF Ordered
  <2>2. CASE c \in Range(a)
    <3>1. PICK i \in DOMAIN a : c = a[i]
      BY <2>2 DEF Range
    <3>2. PICK j \in DOMAIN b : d = b[j]
      BY DEF Range
    <3>3. /\ i \in DOMAIN q /\ n + j \in DOMAIN q /\ i < n + j
          /\ c = q[i] /\ d = q[n + j]
      BY <3>1, <3>2, <1>1
    <3> QED BY <3>3, <1>5 DEF Ordered
  <2> QED BY <2>1, <2>2
<1>6. ASSUME NEW i \in DOMAIN b, NEW j \in DOMAIN b, i < j, b[j] < b[i]
      PROVE  b[j] \in R
  <2>1. /\ n + i \in DOMAIN q /\ n + j \in DOMAIN q /\ n + i < n + j
        /\ b[i] = q[n + i] /\ b[j] = q[n + j]
    <3>1. i \in 1..(Len(q) - n) /\ j \in 1..(Len(q) - n)
      BY <1>1
    <3>2. b[i] = q[n + i] /\ b[j] = q[n + j]
      BY <3>1, <1>1
    <3> QED BY <3>1, <3>2, <1>1, <1>6
  <2> QED BY <2>1, <1>6 DEF Ordered
<1> QED BY <1>5, <1>6 DEF Ordered, a, b

(* A post fails, and what it held goes behind the queue. *)
LEMMA OrderedFails ==
    ASSUME NEW q \in Seq(Nat), NEW p \in Seq(Nat), NEW G, NEW H \in SUBSET G, NEW R,
           Ordered(q, G, R)
    PROVE  Ordered(q \o p, H, R \cup Range(p))
<1> DEFINE b == q \o p
<1>1. /\ Len(q) \in Nat /\ Len(p) \in Nat
      /\ DOMAIN q = 1..Len(q) /\ DOMAIN p = 1..Len(p)
      /\ DOMAIN b = 1..(Len(q) + Len(p))
      /\ \A i \in 1..Len(q) : b[i] = q[i]
      /\ \A i \in 1..Len(p) : b[Len(q) + i] = p[i]
  OBVIOUS
<1>2. Range(b) = Range(q) \cup Range(p)
  BY ConcatParts
<1> HIDE DEF b
<1>3. \A d \in Range(b), c \in H : d < c => d \in R \cup Range(p)
  BY <1>2 DEF Ordered
<1>4. ASSUME NEW i \in DOMAIN b, NEW j \in DOMAIN b, i < j, b[j] < b[i]
      PROVE  b[j] \in R \cup Range(p)
  <2>1. CASE j \in DOMAIN q
    <3>1. i \in DOMAIN q
      BY <2>1, <1>1, <1>4
    <3> QED BY <2>1, <3>1, <1>1, <1>4 DEF Ordered
  <2>2. CASE j \notin DOMAIN q
    <3>1. j - Len(q) \in DOMAIN p /\ Len(q) + (j - Len(q)) = j
      BY <2>2, <1>1
    <3>2. b[j] = p[j - Len(q)]
      BY <3>1, <1>1
    <3> QED BY <3>1, <3>2 DEF Range
  <2> QED BY <2>1, <2>2
<1> QED BY <1>3, <1>4 DEF Ordered, b

(* The listener, whoever calls it. *)
LEMMA SendOrders ==
    ASSUME Typed, NothingLost, OutOfOrderOnlyRetried, NEW n, NEW m,
           config' \in ConfigSet, sendTelemetry(n, m), UNCHANGED <<acked, retried>>
    PROVE  IsOrdered'
<1> DEFINE G == InPosts(posts) \cup acked
           x == Len(copies) + 1
           q == Append(teleData, x)
<1>1. /\ Copies = 1..Len(copies) /\ Len(copies) \in Nat
      /\ teleData \in Seq(Copies) /\ Range(teleData) \cup G = Copies
  <2>1. Range(teleData) \cup G = Copies
    BY KeptIsNothingLost DEF Kept
  <2> HIDE DEF G
  <2>2. /\ copies \in Seq(CopySet(DOMAIN log))
        /\ teleData \in Seq(Copies)
    BY DEF Typed
  <2>3. Copies = 1..Len(copies) /\ Len(copies) \in Nat
    BY <2>2 DEF Copies
  <2> QED BY <2>1, <2>2, <2>3
<1>2. Copies \subseteq Nat /\ x \in Nat /\ \A c \in Copies : c < x
  BY <1>1
<1>3. teleData \in Seq(Nat)
  BY <1>1, <1>2, Widen
<1>4. Ordered(teleData, G, retried)
  BY OrderedIs DEF IsOrdered
<1>5. syncEvents(q) \/ (teleData' = q /\ posts' = posts)
  BY DEF sendTelemetry
<1> HIDE DEF G, x
<1>6. Ordered(q, G, retried) /\ q \in Seq(Nat)
  <2>1. G \in SUBSET Nat /\ \A c \in Range(teleData) \cup G : c < x
    BY <1>1, <1>2
  <2> QED BY <2>1, <1>2, <1>3, <1>4, OrderedAppend
<1> HIDE DEF q
<1>7. CASE teleData' = q /\ posts' = posts
  BY <1>6, <1>7 DEF G, IsOrdered
<1>8. CASE syncEvents(q)
  <2>1. PICK k \in 0..Len(q) : /\ posts' = posts \cup {SubSeq(q, 1, k)}
                               /\ teleData' = SubSeq(q, k + 1, Len(q))
    BY <1>8, <1>6, SyncCuts
  <2>2. InPosts(posts') \cup acked' = G \cup Range(SubSeq(q, 1, k))
    BY <2>1 DEF InPosts, G
  <2>3. Ordered(teleData', G \cup Range(SubSeq(q, 1, k)), retried')
    BY <2>1, <1>6, OrderedCut
  <2> QED BY <2>2, <2>3 DEF IsOrdered
<1> QED BY <1>5, <1>7, <1>8

LEMMA NextOrdered == IInv /\ OutOfOrderOnlyRetried /\ [Next]_vars => OutOfOrderOnlyRetried'
<1> SUFFICES ASSUME IInv, OutOfOrderOnlyRetried, [Next]_vars
             PROVE  OutOfOrderOnlyRetried'
  OBVIOUS
<1>a. (Typed /\ NothingLost => (OutOfOrderOnlyRetried <=> IsOrdered))'
  BY OrderedIs, PTL
<1>b. Typed' /\ NothingLost'
  BY NextIInv, TypeParts DEF IInv
<1> SUFFICES IsOrdered'
  BY <1>a, <1>b
<1> DEFINE G == InPosts(posts) \cup acked
<1>1. Typed /\ NothingLost /\ Ordered(teleData, G, retried)
  BY TypesNow, OrderedIs DEF IInv, IsOrdered
<1>2. /\ teleData \in Seq(Copies) /\ posts \subseteq Seq(Copies) /\ config \in ConfigSet
      /\ Copies \subseteq Nat /\ teleData \in Seq(Nat) /\ posts \subseteq Seq(Nat)
  <2>1. /\ copies \in Seq(CopySet(DOMAIN log)) /\ config \in ConfigSet
        /\ teleData \in Seq(Copies) /\ posts \subseteq Seq(Copies)
    BY <1>1 DEF Typed
  <2>2. Copies \subseteq Nat
    BY <2>1 DEF Copies
  <2> QED BY <2>1, <2>2, Widen
<1>3. ASSUME NEW eid, NEW e, Writes(eid, e) PROVE IsOrdered'
  <2>1. UNCHANGED <<acked, retried>> /\ config' \in ConfigSet
    BY <1>3 DEF Writes
  <2>2. CASE UNCHANGED sync
    BY <2>1, <2>2, <1>1 DEF sync, IsOrdered
  <2>3. CASE sendTelemetry(Len(log) + 1, Len(log) + 1)
    BY <2>1, <2>3, <1>1, SendOrders
  <2> QED BY <2>2, <2>3, <1>3 DEF Writes
<1>4. CASE FingerprintResumes
  <2>1. /\ UNCHANGED <<acked, retried>> /\ config' \in ConfigSet
        /\ UNCHANGED sync \/ sendTelemetry(Len(log), Head(timers).call)
    BY <1>4, <1>2 DEF FingerprintResumes, answers
  <2>2. CASE UNCHANGED sync
    BY <2>1, <2>2, <1>1 DEF sync, IsOrdered
  <2> QED BY <2>1, <2>2, <1>1, SendOrders
<1>5. CASE SyncEvents
  <2>1. /\ UNCHANGED <<acked, retried>> /\ config' \in ConfigSet /\ syncEvents(teleData)
    BY <1>5, <1>2 DEF SyncEvents, answers
  <2>2. PICK k \in 0..Len(teleData) :
            /\ posts' = posts \cup {SubSeq(teleData, 1, k)}
            /\ teleData' = SubSeq(teleData, k + 1, Len(teleData))
    BY <2>1, <1>2, SyncCuts
  <2>3. InPosts(posts') \cup acked' = G \cup Range(SubSeq(teleData, 1, k))
    BY <2>1, <2>2 DEF InPosts
  <2> HIDE DEF G
  <2>4. Ordered(teleData', G \cup Range(SubSeq(teleData, 1, k)), retried')
    BY <2>1, <2>2, <1>1, <1>2, OrderedCut
  <2> QED BY <2>3, <2>4 DEF IsOrdered
<1>6. ASSUME NEW p \in posts, PostDone(p) PROVE IsOrdered'
  <2>1. /\ posts' = posts \ {p} /\ acked' = acked \cup Range(p)
        /\ UNCHANGED <<teleData, retried>>
    BY <1>6 DEF PostDone, Range
  <2>2. InPosts(posts') \cup acked' = G
    BY <2>1 DEF InPosts
  <2> QED BY <2>1, <2>2, <1>1 DEF IsOrdered
<1>7. ASSUME NEW p \in posts, PostFails(p) PROVE IsOrdered'
  <2>1. /\ posts' = posts \ {p} /\ teleData' = teleData \o p
        /\ acked' = acked /\ retried' = retried \cup Range(p)
    BY <1>7 DEF PostFails, updateEventStack, Range
  <2>2. InPosts(posts') \cup acked' \in SUBSET G
    BY <2>1 DEF InPosts
  <2> HIDE DEF G
  <2> QED BY <2>1, <2>2, <1>1, <1>2, OrderedFails DEF IsOrdered
<1>8. CASE UNCHANGED <<log, timers, startData, sync, acked, retried>>
  BY <1>8, <1>1 DEF sync, IsOrdered
<1> QED BY <1>3, <1>4, <1>5, <1>6, <1>7, <1>8, Steps

(* An event that a later one left behind in the queue was in a post that     *)
(* failed, whatever the sizes of the batches and however many posts fail.    *)
THEOREM LeavesInOrder == Spec => []OutOfOrderOnlyRetried
<1>1. Init => OutOfOrderOnlyRetried
  BY DEF Init, OutOfOrderOnlyRetried, Copies
<1> QED BY <1>1, NextOrdered, Always, PTL DEF Spec

----------------------------------------------------------------------------
\* Brackets.  The STARTs that startData holds are open: each of them has more
\* STARTs than ENDs from it to the last call, by one for the last of them, by
\* two for the one before it, and so on.

Deep ==
    \A i \in DOMAIN startData, n \in DOMAIN log :
        n = startData[i] =>
            Count("START", n, Len(log)) + i = Count("END", n, Len(log)) + Len(startData) + 1

LEMMA CountIs ==
    ASSUME NEW x, NEW i \in Nat, NEW j \in Nat
    PROVE  /\ IsFiniteSet({n \in i..j : log[n].eid = x})
           /\ Count(x, i, j) \in Nat
           /\ i > j => Count(x, i, j) = 0
<1>1. IsFiniteSet(i..j)
  BY FS_Interval
<1>2. {n \in i..j : log[n].eid = x} \subseteq i..j
  OBVIOUS
<1>3. IsFiniteSet({n \in i..j : log[n].eid = x})
  BY <1>1, <1>2, FS_Subset
<1>4. i > j => {n \in i..j : log[n].eid = x} = {}
  OBVIOUS
<1> QED BY <1>3, <1>4, FS_CardinalityType, FS_EmptySet DEF Count

(* A call adds one to the count of its kind, from any call up to it.         *)
LEMMA CountAppend ==
    ASSUME NEW e, log \in Seq(EventSet(DOMAIN log)), e \in EventSet(DOMAIN log),
           log' = Append(log, e), NEW k, k = Len(log), NEW x, NEW i \in 1..(k + 1)
    PROVE  Count(x, i, k + 1)'
             = IF e.eid = x THEN Count(x, i, k) + 1 ELSE Count(x, i, k)
<1>1. /\ k \in Nat /\ DOMAIN log = 1..k /\ Len(log') = k + 1
      /\ \A n \in 1..k : log'[n] = log[n]
      /\ log'[k + 1] = e
  BY AppendLog
<1>3. {n \in i..(k + 1) : log'[n].eid = x}
        = IF e.eid = x THEN {n \in i..k : log[n].eid = x} \cup {k + 1}
          ELSE {n \in i..k : log[n].eid = x}
  <2>1. i..(k + 1) = (i..k) \cup {k + 1}
    BY <1>1
  <2>2. \A n \in i..k : log'[n] = log[n]
    BY <1>1
  <2> QED BY <2>1, <2>2, <1>1
<1>4. IsFiniteSet({n \in i..k : log[n].eid = x}) /\ k + 1 \notin {n \in i..k : log[n].eid = x}
  <2>1. i \in Nat
    BY <1>1
  <2>2. IsFiniteSet({n \in i..k : log[n].eid = x})
    BY <1>1, <2>1, CountIs
  <2>3. k + 1 \notin i..k
    BY <1>1
  <2> QED BY <2>2, <2>3
<1>6. Count(x, i, k + 1)' = IF e.eid = x THEN Count(x, i, k) + 1 ELSE Count(x, i, k)
  <2> DEFINE A == {n \in i..k : log[n].eid = x}
             B == {n \in i..(k + 1) : log'[n].eid = x}
  <2>1. Count(x, i, k) = Cardinality(A) /\ Count(x, i, k + 1)' = Cardinality(B)
    BY DEF Count
  <2>2. B = (IF e.eid = x THEN A \cup {k + 1} ELSE A) /\ IsFiniteSet(A) /\ k + 1 \notin A
    BY <1>3, <1>4
  <2> HIDE DEF A, B
  <2>3. Cardinality(A \cup {k + 1}) = Cardinality(A) + 1
    BY <2>2, FS_AddElement
  <2> QED BY <2>1, <2>2, <2>3
<1> QED BY <1>6

\* Counts of the same kinds of calls are the same.
LEMMA CountKept ==
    ASSUME log \in Seq(EventSet(DOMAIN log)),
           DOMAIN log' = DOMAIN log,
           \A n \in DOMAIN log : log'[n].eid = log[n].eid,
           NEW x, NEW i \in DOMAIN log, NEW j \in i..Len(log)
    PROVE  Count(x, i, j)' = Count(x, i, j)
<1>1. \A n \in i..j : n \in DOMAIN log
  OBVIOUS
<1>2. {n \in i..j : log'[n].eid = x} = {n \in i..j : log[n].eid = x}
  BY <1>1
<1> QED BY <1>2 DEF Count

\* The open STARTs.
IsOpen(n) ==
    /\ log[n].eid = "START"
    /\ \A m \in n..Len(log) : Count("END", n, m) < Count("START", n, m)

Increasing(s) == \A i, j \in DOMAIN s : i < j => s[i] < s[j]

LEMMA NestedIs ==
    /\ NestedEnds <=> /\ Range(startData) = {n \in DOMAIN log : IsOpen(n)}
                      /\ Increasing(startData)
    /\ NestedEnds' <=> /\ Range(startData') = {n \in DOMAIN log' : IsOpen(n)'}
                       /\ Increasing(startData')
BY DEF NestedEnds, IsOpen, Increasing

(* What a call makes of a START that is, or is not, open. *)
LEMMA OpenAppend ==
    ASSUME NEW e, log \in Seq(EventSet(DOMAIN log)), e \in EventSet(DOMAIN log),
           log' = Append(log, e), NEW n \in 1..(Len(log) + 1)
    PROVE  /\ n \in DOMAIN log =>
                 (IsOpen(n)' <=> /\ IsOpen(n)
                                 /\ \/ e.eid # "END"
                                    \/ Count("END", n, Len(log)) + 1 < Count("START", n, Len(log)))
           /\ n = Len(log) + 1 => (IsOpen(n)' <=> e.eid = "START")
<1> PICK k : k = Len(log)
  OBVIOUS
<1>1. /\ k \in Nat /\ DOMAIN log = 1..k /\ Len(log') = k + 1
      /\ \A i \in 1..k : log'[i] = log[i]
      /\ log'[k + 1] = e
  BY AppendLog
<1>2. \A x : \A j \in n..k : Count(x, n, j)' = Count(x, n, j)
  <2> TAKE x
  <2> TAKE j \in n..k
  <2>1. {i \in n..j : log'[i].eid = x} = {i \in n..j : log[i].eid = x}
    BY <1>1
  <2> QED BY <2>1 DEF Count
<1>3. \A x : Count(x, n, k + 1)' = IF e.eid = x THEN Count(x, n, k) + 1 ELSE Count(x, n, k)
  BY <1>1, CountAppend
<1>4. \A x : Count(x, n, k) \in Nat /\ (n > k => Count(x, n, k) = 0)
  <2>1. n \in Nat /\ k \in Nat
    BY <1>1
  <2> QED BY <2>1, CountIs
<1>5. "START" # "END"
  OBVIOUS
<1>6. IsOpen(n)' <=> /\ log'[n].eid = "START"
                     /\ \A m \in n..(k + 1) : Count("END", n, m)' < Count("START", n, m)'
  BY <1>1 DEF IsOpen
<1>7. n..(k + 1) = (n..k) \cup {k + 1}
  BY <1>1
<1>8. CASE n \in DOMAIN log
  <2>1. IsOpen(n)' <=> /\ IsOpen(n)
                       /\ Count("END", n, k + 1)' < Count("START", n, k + 1)'
    BY <1>1, <1>2, <1>6, <1>7, <1>8 DEF IsOpen
  <2>2. IsOpen(n) => Count("END", n, k) < Count("START", n, k)
    BY <1>1, <1>8 DEF IsOpen
  <2> QED BY <2>1, <2>2, <1>1, <1>3, <1>4, <1>5, <1>8
<1>9. CASE n = k + 1
  <2>1. IsOpen(n)' <=> /\ e.eid = "START"
                       /\ Count("END", n, k + 1)' < Count("START", n, k + 1)'
    BY <1>1, <1>6, <1>9
  <2>2. Count("END", n, k) = 0 /\ Count("START", n, k) = 0
    BY <1>1, <1>4, <1>9
  <2> QED BY <2>1, <2>2, <1>1, <1>3, <1>5, <1>9
<1> QED BY <1>1, <1>8, <1>9

LEMMA WriteNests ==
    ASSUME Typed, NestedEnds, Deep, NEW eid, NEW e, Writes(eid, e), Remembers(eid)
    PROVE  NestedEnds' /\ Deep'
<1> PICK k, l : k = Len(log) /\ l = Len(startData)
  OBVIOUS
<1>1. /\ log \in Seq(EventSet(DOMAIN log)) /\ e \in EventSet(DOMAIN log)
      /\ log' = Append(log, e) /\ e.eid = eid
      /\ startData \in Seq(DOMAIN log)
  BY DEF Typed, Writes
<1>2. /\ k \in Nat /\ DOMAIN log = 1..k /\ Len(log') = k + 1 /\ DOMAIN log' = 1..(k + 1)
  BY <1>1, AppendLog
<1>3. /\ l \in Nat /\ DOMAIN startData = 1..l
      /\ \A i \in 1..l : startData[i] \in 1..k
  BY <1>1, <1>2
<1>4. /\ Range(startData) = {n \in 1..k : IsOpen(n)}
      /\ Increasing(startData)
  BY <1>2, NestedIs
<1>5. \A n \in 1..k : Count("START", n, k) \in Nat /\ Count("END", n, k) \in Nat
  <2>1. \A n \in 1..k : n \in Nat
    BY <1>2
  <2> QED BY <2>1, <1>2, CountIs
<1>6. \A i \in 1..l, n \in 1..k :
          n = startData[i] => Count("START", n, k) + i = Count("END", n, k) + l + 1
  BY <1>2, <1>3 DEF Deep
<1>7. \A n \in 1..k : IsOpen(n)' <=> /\ IsOpen(n)
                                     /\ \/ eid # "END"
                                        \/ Count("END", n, k) + 1 < Count("START", n, k)
  BY <1>1, <1>2, OpenAppend
<1>8. IsOpen(k + 1)' <=> eid = "START"
  BY <1>1, <1>2, OpenAppend
<1>9. \A x : \A n \in 1..(k + 1) :
          Count(x, n, k + 1)' = IF eid = x THEN Count(x, n, k) + 1 ELSE Count(x, n, k)
  <2> TAKE x
  <2> TAKE n \in 1..(k + 1)
  <2>1. k = Len(log)
    OBVIOUS
  <2>2. Count(x, n, k + 1)' = IF e.eid = x THEN Count(x, n, k) + 1 ELSE Count(x, n, k)
    BY <2>1, <1>1, CountAppend
  <2> QED BY <2>2, <1>1
<1>10. \A n \in 1..(k + 1) : n \in 1..k \/ n = k + 1
  BY <1>2
<1>11. Deep' <=> \A i \in DOMAIN startData', n \in 1..(k + 1) :
                     n = startData'[i] =>
                        Count("START", n, k + 1)' + i
                           = Count("END", n, k + 1)' + Len(startData') + 1
  <2>1. Deep' <=> \A i \in DOMAIN startData', n \in DOMAIN log' :
                     n = startData'[i] =>
                        Count("START", n, Len(log))' + i
                           = Count("END", n, Len(log))' + Len(startData') + 1
    BY DEF Deep
  <2>2. \A x, n : Count(x, n, Len(log))' = Count(x, n, k + 1)'
    BY <1>2 DEF Count
  <2> QED BY <2>1, <2>2, <1>2
<1>12. "START" # "END" /\ "EVENT" # "START" /\ "EVENT" # "END"
  OBVIOUS
<1>13. CASE eid = "START"
  <2>1. startData' = Append(startData, k + 1)
    BY <1>12, <1>13 DEF Remembers
  <2>2. /\ DOMAIN startData' = 1..(l + 1) /\ Len(startData') = l + 1
        /\ \A i \in 1..l : startData'[i] = startData[i]
        /\ startData'[l + 1] = k + 1
    BY <2>1, <1>1, <1>3
  <2>3. Range(startData') = Range(startData) \cup {k + 1}
    <3>1. \A i \in 1..(l + 1) : i \in 1..l \/ i = l + 1
      BY <1>3
    <3> QED BY <3>1, <2>2, <1>3 DEF Range
  <2>4. \A n \in 1..(k + 1) : IsOpen(n)' <=> n \in Range(startData')
    BY <2>3, <1>2, <1>4, <1>7, <1>8, <1>10, <1>12, <1>13
  <2>5. Range(startData') \subseteq 1..(k + 1)
    BY <2>3, <1>2, <1>4
  <2>6. Increasing(startData')
    BY <2>2, <1>2, <1>3, <1>4 DEF Increasing
  <2>7. Count("START", k + 1, k) = 0 /\ Count("END", k + 1, k) = 0
    <3>1. k + 1 \in Nat /\ k + 1 > k
      BY <1>2
    <3> QED BY <3>1, <1>2, CountIs
  <2>8. ASSUME NEW i \in 1..(l + 1), NEW n \in 1..(k + 1), n = startData'[i]
        PROVE  Count("START", n, k + 1)' + i = Count("END", n, k + 1)' + (l + 1) + 1
    <3>1. CASE i \in 1..l
      <4>1. n \in 1..k /\ n = startData[i]
        BY <3>1, <2>2, <2>8, <1>3
      <4>2. Count("START", n, k + 1)' = Count("START", n, k) + 1
        BY <1>9, <1>13
      <4>3. Count("END", n, k + 1)' = Count("END", n, k)
        BY <1>9, <1>12, <1>13
      <4>4. Count("START", n, k) + i = Count("END", n, k) + l + 1
        BY <4>1, <3>1, <1>6
      <4>5. Count("START", n, k) \in Nat /\ Count("END", n, k) \in Nat
        BY <4>1, <1>5
      <4>6. i \in Nat /\ l \in Nat
        BY <1>3
      <4>7. ASSUME NEW s \in Nat, NEW t \in Nat, s + i = t + l + 1
            PROVE  (s + 1) + i = t + (l + 1) + 1
        BY <4>6, <4>7
      <4>8. (Count("START", n, k) + 1) + i = Count("END", n, k) + (l + 1) + 1
        BY <4>4, <4>5, <4>7
      <4> QED BY <4>2, <4>3, <4>8
    <3>2. CASE i = l + 1
      <4>1. Count("START", n, k) = 0 /\ Count("END", n, k) = 0
        BY <3>2, <2>2, <2>7, <2>8
      <4>2. Count("START", n, k + 1)' = Count("START", n, k) + 1
        BY <1>9, <1>13
      <4>3. Count("END", n, k + 1)' = Count("END", n, k)
        BY <1>9, <1>12, <1>13
      <4>4. Count("START", n, k + 1)' = 1 /\ Count("END", n, k + 1)' = 0
        BY <4>1, <4>2, <4>3
      <4>5. 1 + i = 0 + (l + 1) + 1
        BY <3>2, <1>3
      <4> QED BY <4>4, <4>5
    <3> QED BY <3>1, <3>2, <1>3
  <2>9. Deep'
    BY <2>2, <2>8, <1>11
  <2> QED BY <2>4, <2>5, <2>6, <2>9, <1>2, NestedIs
<1>14. CASE eid = "EVENT"
  <2>1. startData' = startData
    BY <1>12, <1>14 DEF Remembers
  <2>2. \A n \in 1..(k + 1) : IsOpen(n)' <=> n \in Range(startData)
    BY <1>2, <1>4, <1>7, <1>8, <1>10, <1>12, <1>14
  <2>3. ASSUME NEW i \in 1..l, NEW n \in 1..(k + 1), n = startData[i]
        PROVE  Count("START", n, k + 1)' + i = Count("END", n, k + 1)' + l + 1
    <3>1. n \in 1..k
      BY <2>3, <1>3
    <3>2. Count("START", n, k + 1)' = Count("START", n, k)
      BY <1>9, <1>12, <1>14
    <3>3. Count("END", n, k + 1)' = Count("END", n, k)
      BY <1>9, <1>12, <1>14
    <3> QED BY <2>3, <3>1, <3>2, <3>3, <1>6
  <2>4. Deep'
    BY <2>1, <2>3, <1>3, <1>11
  <2>5. Range(startData) \subseteq 1..(k + 1)
    BY <1>2, <1>4
  <2> QED BY <2>1, <2>2, <2>4, <2>5, <1>2, <1>4, NestedIs
<1>15. CASE eid = "END"
  <2>1. startData # <<>> /\ startData' = SubSeq(startData, 1, l - 1)
    BY <1>12, <1>15 DEF Remembers
  <2>2. /\ l \in Nat \ {0} /\ l - 1 \in Nat
        /\ DOMAIN startData' = 1..(l - 1) /\ Len(startData') = l - 1
        /\ \A i \in 1..(l - 1) : i \in 1..l /\ startData'[i] = startData[i]
    BY <2>1, <1>1, <1>3
  <2>3. ASSUME NEW i \in 1..l, NEW n \in 1..k, n = startData[i]
        PROVE  Count("END", n, k) + 1 < Count("START", n, k) <=> i # l
    <3>1. Count("START", n, k) + i = Count("END", n, k) + l + 1
      BY <2>3, <1>6
    <3>2. Count("START", n, k) \in Nat /\ Count("END", n, k) \in Nat
      BY <1>5
    <3> QED BY <3>1, <3>2, <1>3
  <2>4. \A n \in 1..(k + 1) : IsOpen(n)' <=> n \in Range(startData')
    <3> TAKE n \in 1..(k + 1)
    <3>1. ASSUME n \in Range(startData') PROVE IsOpen(n)'
      <4>1. PICK i \in 1..(l - 1) : n = startData[i]
        BY <3>1, <2>2 DEF Range
      <4>2. i \in 1..l /\ i # l /\ n \in 1..k /\ n \in Range(startData)
        BY <4>1, <2>2, <1>3 DEF Range
      <4>3. Count("END", n, k) + 1 < Count("START", n, k)
        BY <4>1, <4>2, <2>3
      <4> QED BY <4>2, <4>3, <1>4, <1>7
    <3>2. ASSUME IsOpen(n)' PROVE n \in Range(startData')
      <4>1. n \in 1..k /\ IsOpen(n) /\ Count("END", n, k) + 1 < Count("START", n, k)
        BY <3>2, <1>7, <1>8, <1>10, <1>12, <1>15
      <4>2. PICK i \in 1..l : n = startData[i]
        BY <4>1, <1>3, <1>4 DEF Range
      <4>3. i # l
        BY <4>1, <4>2, <2>3
      <4>4. i \in 1..(l - 1)
        BY <4>3, <2>2
      <4> QED BY <4>2, <4>4, <2>2 DEF Range
    <3> QED BY <3>1, <3>2
  <2>5. Range(startData') \subseteq 1..(k + 1)
    <3>1. \A i \in 1..(l - 1) : startData'[i] \in 1..(k + 1)
      BY <2>2, <1>2, <1>3
    <3> QED BY <3>1, <2>2 DEF Range
  <2>6. Increasing(startData')
    BY <2>2, <1>3, <1>4 DEF Increasing
  <2>7. ASSUME NEW i \in 1..(l - 1), NEW n \in 1..(k + 1), n = startData'[i]
        PROVE  Count("START", n, k + 1)' + i = Count("END", n, k + 1)' + (l - 1) + 1
    <3>1. i \in 1..l /\ n = startData[i] /\ n \in 1..k
      BY <2>2, <2>7, <1>3
    <3>2. Count("START", n, k + 1)' = Count("START", n, k)
      BY <1>9, <1>12, <1>15
    <3>3. Count("END", n, k + 1)' = Count("END", n, k) + 1
      BY <1>9, <1>15
    <3>4. Count("START", n, k) + i = Count("END", n, k) + l + 1
      BY <3>1, <1>6
    <3>5. Count("START", n, k) \in Nat /\ Count("END", n, k) \in Nat
      BY <3>1, <1>5
    <3>6. i \in Nat /\ l \in Nat /\ (l - 1) + 1 = l
      BY <3>1, <1>3
    <3> QED BY <3>2, <3>3, <3>4, <3>5, <3>6
  <2>8. Deep'
    BY <2>2, <2>7, <1>11
  <2> QED BY <2>4, <2>5, <2>6, <2>8, <1>2, NestedIs
<1> QED BY <1>13, <1>14, <1>15 DEF Remembers

LEMMA NextNests == IInv /\ NestedEnds /\ Deep /\ [Next]_vars => NestedEnds' /\ Deep'
<1> SUFFICES ASSUME IInv, NestedEnds, Deep, [Next]_vars
             PROVE  NestedEnds' /\ Deep'
  OBVIOUS
<1>1. Typed /\ log \in Seq(EventSet(DOMAIN log)) /\ timers \in Seq(TimerSet(DOMAIN log))
  BY TypesNow DEF Typed
<1>2. ASSUME UNCHANGED <<log, startData>> PROVE NestedEnds' /\ Deep'
  <2>1. NestedEnds'
    BY <1>2 DEF NestedEnds, Count
  <2>2. Deep'
    BY <1>2 DEF Deep, Count
  <2> QED BY <2>1, <2>2
<1>3. ASSUME NEW eid, NEW e, Writes(eid, e), Remembers(eid)
      PROVE  NestedEnds' /\ Deep'
  BY <1>1, <1>3, WriteNests
<1>4. CASE FingerprintResumes
  <2>1. PICK k : k = Len(log)
    OBVIOUS
  <2>2. /\ UNCHANGED startData
        /\ UNCHANGED log \/ (/\ timers # <<>>
                            /\ log' = [log EXCEPT ![k].did = FingerPrint,
                                                  ![k].actor = getActorId(@, FingerPrint)])
    BY <1>4, <2>1 DEF FingerprintResumes
  <2>3. CASE /\ timers # <<>>
             /\ log' = [log EXCEPT ![k].did = FingerPrint,
                                   ![k].actor = getActorId(@, FingerPrint)]
    <3>1. Head(timers) \in TimerSet(DOMAIN log)
      BY <1>1, <2>3
    <3>2. log # <<>>
      BY <3>1, <1>1 DEF TimerSet
    <3>3. /\ Len(log') = k /\ DOMAIN log' = DOMAIN log
          /\ \A n \in DOMAIN log : log'[n].eid = log[n].eid
      BY <1>1, <2>1, <2>3, <3>2, NameLog
    <3>4. DOMAIN log = 1..k /\ k \in Nat
      BY <1>1, <2>1
    <3>5. \A x : \A i \in DOMAIN log, j \in 1..k : Count(x, i, j)' = Count(x, i, j)
      <4> TAKE x
      <4> TAKE i \in DOMAIN log, j \in 1..k
      <4>1. \A n \in i..j : n \in DOMAIN log
        BY <3>4
      <4>2. {n \in i..j : log'[n].eid = x} = {n \in i..j : log[n].eid = x}
        BY <4>1, <3>3
      <4> QED BY <4>2 DEF Count
    <3>6. \A n \in DOMAIN log : IsOpen(n)' <=> IsOpen(n)
      <4> TAKE n \in DOMAIN log
      <4>1. IsOpen(n)' <=> /\ log'[n].eid = "START"
                          /\ \A m \in n..k : Count("END", n, m)' < Count("START", n, m)'
        BY <3>3 DEF IsOpen
      <4>2. \A m \in n..k : m \in 1..k
        BY <3>4
      <4> QED BY <4>1, <4>2, <3>3, <3>5, <2>1 DEF IsOpen
    <3>7. NestedEnds'
      BY <2>2, <3>3, <3>6, NestedIs
    <3>8. Deep'
      <4>1. Deep' <=> \A i \in DOMAIN startData, n \in DOMAIN log :
                         n = startData[i] =>
                            Count("START", n, Len(log))' + i
                               = Count("END", n, Len(log))' + Len(startData) + 1
        BY <2>2, <3>3 DEF Deep
      <4>2. \A x, n : Count(x, n, Len(log))' = Count(x, n, k)'
        BY <3>3 DEF Count
      <4>3. ASSUME NEW i \in DOMAIN startData, NEW n \in DOMAIN log, n = startData[i]
            PROVE  Count("START", n, k)' + i = Count("END", n, k)' + Len(startData) + 1
        <5>1. k \in 1..k
          BY <3>4
        <5>2. Count("START", n, k)' = Count("START", n, k) /\ Count("END", n, k)' = Count("END", n, k)
          BY <5>1, <3>5
        <5> QED BY <5>2, <4>3, <2>1 DEF Deep
      <4> QED BY <4>1, <4>2, <4>3
    <3> QED BY <3>7, <3>8
  <2> QED BY <2>2, <2>3, <1>2
<1>5. CASE SyncEvents
  BY <1>2, <1>5 DEF SyncEvents
<1>6. CASE \E p \in posts : PostDone(p) \/ PostFails(p)
  BY <1>2, <1>6 DEF PostDone, PostFails, library
<1>7. CASE UNCHANGED <<log, timers, startData, sync, acked, retried>>
  BY <1>2, <1>7
<1> QED BY <1>3, <1>4, <1>5, <1>6, <1>7, Steps

(* startData holds, in order, the STARTs that no later END closes as brackets *)
(* do, however many calls there are and whichever of them are dropped.        *)
THEOREM EndsNest == Spec => []NestedEnds
<1>1. Init => NestedEnds /\ Deep
  <2> SUFFICES ASSUME Init PROVE NestedEnds /\ Deep
    OBVIOUS
  <2>1. log = <<>> /\ startData = <<>> /\ DOMAIN log = {} /\ DOMAIN startData = {}
    BY DEF Init
  <2> QED BY <2>1 DEF NestedEnds, Deep, Range
<1> QED BY <1>1, NextNests, Always, PTL DEF Spec

----------------------------------------------------------------------------
\* Who dispatches.  A call dispatches one copy at most: one that waits for a
\* fingerprint has dispatched none, and no other fingerprint waits for it.  It
\* was accepted by validation.  A copy of an event is dispatched by the call
\* that wrote it, or by one that waited when it was written.

Once ==
    /\ \A i, j \in DOMAIN timers : timers[i].call = timers[j].call => i = j
    /\ \A i \in DOMAIN timers : /\ ~log[timers[i].call].dropped
                                /\ \A c \in Copies : copies[c].by # timers[i].call
    /\ \A c, d \in Copies : copies[c].by = copies[d].by => c = d

Dispatcher(e, n, m) == m \in e.amid \/ (m = n /\ ~e.dropped)

ByDispatcher ==
    \A c \in Copies : Dispatcher(log[copies[c].of], copies[c].of, copies[c].by)

LEMMA DomainFinite ==
    ASSUME Typed
    PROVE  \A n \in DOMAIN log : IsFiniteSet(log[n].amid)
<1>1. log \in Seq(EventSet(DOMAIN log))
  BY DEF Typed
<1>2. DOMAIN log = 1..Len(log) /\ Len(log) \in Nat
  BY <1>1
<1>3. IsFiniteSet(DOMAIN log)
  BY <1>2, FS_Interval
<1>4. \A n \in DOMAIN log : log[n] \in EventSet(DOMAIN log)
  BY <1>1
<1>5. \A n \in DOMAIN log : log[n].amid \in SUBSET DOMAIN log
  BY <1>4 DEF EventSet
<1> QED BY <1>3, <1>5, FS_Subset

(* One copy for each call that can dispatch the event. *)
LEMMA OnceBounds ==
    ASSUME Typed, Once, ByDispatcher
    PROVE  RepeatedOnlyAmid
<1> SUFFICES ASSUME NEW n \in DOMAIN log
             PROVE  Cardinality(CopiesOf(n))
                      <= Cardinality(log[n].amid) + (IF log[n].dropped THEN 0 ELSE 1)
  BY DEF RepeatedOnlyAmid
<1> DEFINE A == log[n].amid
           D == {m \in A \cup {n} : Dispatcher(log[n], n, m)}
           f == [c \in CopiesOf(n) |-> copies[c].by]
<1>1. IsFiniteSet(A) /\ Cardinality(A) \in Nat
  BY DomainFinite, FS_CardinalityType
<1>2. f \in Injection(CopiesOf(n), D)
  <2>1. \A c \in CopiesOf(n) : copies[c].by \in D
    BY DEF CopiesOf, ByDispatcher, Dispatcher
  <2>2. \A c, d \in CopiesOf(n) : f[c] = f[d] => c = d
    BY DEF CopiesOf, Once
  <2> HIDE DEF D
  <2>3. f \in [CopiesOf(n) -> D] /\ DOMAIN f = CopiesOf(n)
    BY <2>1
  <2> HIDE DEF f
  <2> QED BY <2>2, <2>3 DEF Injection, IsInjective
<1>3. /\ IsFiniteSet(D)
      /\ Cardinality(D) <= Cardinality(A) + (IF log[n].dropped THEN 0 ELSE 1)
  <2>1. CASE log[n].dropped
    <3>1. D \in SUBSET A
      BY <2>1 DEF Dispatcher
    <3>2. IsFiniteSet(D) /\ Cardinality(D) <= Cardinality(A)
      BY <3>1, <1>1, FS_Subset
    <3> HIDE DEF A, D
    <3> QED BY <3>2, <2>1, <1>1
  <2>2. CASE ~log[n].dropped
    <3> DEFINE E == A \cup {n}
    <3>1. IsFiniteSet(E) /\ Cardinality(E) <= Cardinality(A) + 1 /\ Cardinality(E) \in Nat
      <4> HIDE DEF A
      <4> QED BY <1>1, FS_AddElement, FS_CardinalityType
    <3>2. D \in SUBSET E
      OBVIOUS
    <3> HIDE DEF E, D
    <3>3. IsFiniteSet(D) /\ Cardinality(D) <= Cardinality(E)
      BY <3>1, <3>2, FS_Subset
    <3>4. Cardinality(D) \in Nat
      BY <3>3, FS_CardinalityType
    <3> HIDE DEF A
    <3>5. Cardinality(D) <= Cardinality(A) + 1
      BY <3>1, <3>3, <3>4, <1>1
    <3> QED BY <3>3, <3>5, <2>2
  <2> QED BY <2>1, <2>2
<1> HIDE DEF f, D, A
<1>4. IsFiniteSet(CopiesOf(n)) /\ Cardinality(CopiesOf(n)) <= Cardinality(D)
  BY <1>2, <1>3, FS_Injection
<1>5. Cardinality(CopiesOf(n)) \in Nat /\ Cardinality(D) \in Nat
  BY <1>3, <1>4, FS_CardinalityType
<1>6. (IF log[n].dropped THEN 0 ELSE 1) \in Nat
  OBVIOUS
<1> QED BY <1>1, <1>3, <1>4, <1>5, <1>6 DEF A

(* A copy more. *)
LEMMA CopiesMore ==
    ASSUME copies \in Seq(CopySet(DOMAIN log)), NEW x, copies' = Append(copies, x)
    PROVE  /\ \A c \in Copies : c \in Copies' /\ copies'[c] = copies[c]
           /\ \A c \in Copies' : c \in Copies \/ (c = Len(copies) + 1 /\ copies'[c] = x)
<1>1. /\ DOMAIN copies = 1..Len(copies) /\ Len(copies) \in Nat
      /\ DOMAIN copies' = 1..(Len(copies) + 1)
      /\ \A c \in DOMAIN copies : copies'[c] = copies[c]
      /\ copies'[Len(copies) + 1] = x
  OBVIOUS
<1>2. \A c \in 1..(Len(copies) + 1) : c \in 1..Len(copies) \/ c = Len(copies) + 1
  BY <1>1
<1> QED BY <1>1, <1>2 DEF Copies

LEMMA WriteOnce ==
    ASSUME Typed, Once, ByDispatcher, NEW eid, NEW e, Writes(eid, e)
    PROVE  Once' /\ ByDispatcher'
<1> PICK n : n = Len(log) + 1
  OBVIOUS
<1> DEFINE x == [of |-> n, by |-> n]
           t == [call |-> n, at |-> 29]
<1>1. /\ log \in Seq(EventSet(DOMAIN log)) /\ timers \in Seq(TimerSet(DOMAIN log))
      /\ copies \in Seq(CopySet(DOMAIN log))
      /\ e \in EventSet(DOMAIN log) /\ log' = Append(log, e)
  BY DEF Typed, Writes
<1>2. /\ DOMAIN log = 1..Len(log) /\ n \notin DOMAIN log
      /\ \A i \in DOMAIN log : log'[i] = log[i]
      /\ log'[n] = e
  BY <1>1, AppendLog
<1>3. \A c \in Copies : copies[c].of \in DOMAIN log /\ copies[c].by \in DOMAIN log
  <2>1. \A c \in Copies : copies[c] \in CopySet(DOMAIN log)
    BY <1>1 DEF Copies
  <2> QED BY <2>1 DEF CopySet
<1>4. \A i \in DOMAIN timers : timers[i].call \in DOMAIN log
  <2>1. \A i \in DOMAIN timers : timers[i] \in TimerSet(DOMAIN log)
    BY <1>1
  <2> QED BY <2>1 DEF TimerSet
<1>5. x.of = n /\ x.by = n /\ t.call = n
  OBVIOUS
<1>6. \/ timers' = timers /\ UNCHANGED copies
      \/ timers' = Append(timers, t) /\ UNCHANGED copies /\ ~e.dropped
      \/ timers' = timers /\ copies' = Append(copies, x) /\ ~e.dropped
  BY DEF Writes, sync, sendTelemetry
<1> HIDE DEF x, t
<1>7. CASE timers' = timers /\ UNCHANGED copies
  <2>1. Copies' = Copies
    BY <1>7 DEF Copies
  <2>2. Once'
    BY <2>1, <1>7, <1>2, <1>4 DEF Once
  <2>3. ByDispatcher'
    BY <2>1, <1>7, <1>2, <1>3 DEF ByDispatcher, Dispatcher
  <2> QED BY <2>2, <2>3
<1>8. CASE timers' = Append(timers, t) /\ UNCHANGED copies /\ ~e.dropped
  <2>1. Copies' = Copies
    BY <1>8 DEF Copies
  <2>2. ByDispatcher'
    BY <2>1, <1>8, <1>2, <1>3 DEF ByDispatcher, Dispatcher
  <2>3. /\ DOMAIN timers = 1..Len(timers) /\ Len(timers) \in Nat
        /\ DOMAIN timers' = 1..(Len(timers) + 1)
        /\ \A i \in DOMAIN timers : timers'[i] = timers[i]
        /\ timers'[Len(timers) + 1] = t
    BY <1>1, <1>8
  <2>4. \A i \in DOMAIN timers' : \/ i \in DOMAIN timers /\ timers'[i] = timers[i]
                                  \/ i = Len(timers) + 1 /\ timers'[i] = t
    BY <2>3
  <2>5. \A i, j \in DOMAIN timers' : timers'[i].call = timers'[j].call => i = j
    BY <2>4, <1>2, <1>4, <1>5 DEF Once
  <2>6. \A i \in DOMAIN timers' : /\ ~log'[timers'[i].call].dropped
                                  /\ \A c \in Copies : copies[c].by # timers'[i].call
    BY <2>4, <1>2, <1>3, <1>4, <1>5, <1>8 DEF Once
  <2>7. Once'
    BY <2>1, <2>5, <2>6, <1>8 DEF Once
  <2> QED BY <2>2, <2>7
<1>9. CASE timers' = timers /\ copies' = Append(copies, x) /\ ~e.dropped
  <2>1. /\ \A c \in Copies : c \in Copies' /\ copies'[c] = copies[c]
        /\ \A c \in Copies' : c \in Copies \/ (c = Len(copies) + 1 /\ copies'[c] = x)
    BY <1>1, <1>9, CopiesMore
  <2>2. \A c, d \in Copies' : copies'[c].by = copies'[d].by => c = d
    BY <2>1, <1>2, <1>3, <1>5 DEF Once
  <2>3. \A i \in DOMAIN timers : /\ ~log'[timers[i].call].dropped
                                 /\ \A c \in Copies' : copies'[c].by # timers[i].call
    BY <2>1, <1>2, <1>3, <1>4, <1>5 DEF Once
  <2>4. Once'
    BY <2>2, <2>3, <1>9 DEF Once
  <2>5. ASSUME NEW c \in Copies'
        PROVE  Dispatcher(log'[copies'[c].of], copies'[c].of, copies'[c].by)
    <3>1. CASE c \in Copies
      <4>1. copies'[c] = copies[c] /\ log'[copies[c].of] = log[copies[c].of]
        BY <3>1, <2>1, <1>2, <1>3
      <4> QED BY <3>1, <4>1 DEF ByDispatcher
    <3>2. CASE copies'[c] = x
      BY <3>2, <1>2, <1>5, <1>9 DEF Dispatcher
    <3> QED BY <3>1, <3>2, <2>1
  <2>6. ByDispatcher'
    BY <2>5 DEF ByDispatcher
  <2> QED BY <2>4, <2>6
<1> QED BY <1>6, <1>7, <1>8, <1>9

LEMMA FingerprintOnce ==
    ASSUME Typed, Known, Once, ByDispatcher, FingerprintResumes
    PROVE  Once' /\ ByDispatcher'
<1> PICK n, m, l : n = Len(log) /\ m = Head(timers).call /\ l = Len(timers)
  OBVIOUS
<1>1. /\ log \in Seq(EventSet(DOMAIN log)) /\ timers \in Seq(TimerSet(DOMAIN log))
      /\ copies \in Seq(CopySet(DOMAIN log)) /\ timers # <<>>
  BY DEF Typed, FingerprintResumes
<1>2. /\ l \in Nat \ {0} /\ DOMAIN timers = 1..l /\ timers[1].call = m
      /\ DOMAIN Tail(timers) = 1..(l - 1) /\ Len(Tail(timers)) = l - 1
      /\ \A i \in 1..(l - 1) : Tail(timers)[i] = timers[i + 1]
      /\ Tail(timers) \in Seq(TimerSet(DOMAIN log))
  BY <1>1
<1>3. m \in DOMAIN log /\ 1 \in DOMAIN timers
  <2>1. 1 \in DOMAIN timers /\ timers[1] \in TimerSet(DOMAIN log)
    BY <1>1, <1>2
  <2> QED BY <2>1, <1>2 DEF TimerSet
<1>4. \A c \in Copies : copies[c].of \in DOMAIN log /\ copies[c].by \in DOMAIN log
  <2>1. \A c \in Copies : copies[c] \in CopySet(DOMAIN log)
    BY <1>1 DEF Copies
  <2> QED BY <2>1 DEF CopySet
<1>5. \A i \in DOMAIN timers : timers[i].call \in DOMAIN log
  <2>1. \A i \in DOMAIN timers : timers[i] \in TimerSet(DOMAIN log)
    BY <1>1
  <2> QED BY <2>1 DEF TimerSet
<1>6. \A i \in 1..(l - 1) : i + 1 \in 1..l /\ i + 1 # 1
  BY <1>2
<1>7. ASSUME NEW u, u.call = m, timers' = Append(Tail(timers), u),
             UNCHANGED <<log, copies>>
      PROVE  Once' /\ ByDispatcher'
  <2>1. Copies' = Copies
    BY <1>7 DEF Copies
  <2>2. ByDispatcher'
    BY <2>1, <1>7 DEF ByDispatcher, Dispatcher
  <2>3. /\ DOMAIN timers' = 1..l /\ timers'[l] = u
        /\ \A i \in 1..(l - 1) : timers'[i] = timers[i + 1]
    <3> DEFINE b == Tail(timers)
    <3> HIDE DEF b
    <3>1. b \in Seq(TimerSet(DOMAIN log)) /\ Len(b) = l - 1
      BY <1>2 DEF b
    <3>2. timers' = Append(b, u)
      BY <1>7 DEF b
    <3>3. DOMAIN timers' = 1..l /\ timers'[l] = u /\ \A i \in 1..(l - 1) : timers'[i] = b[i]
      BY <3>1, <3>2, <1>2
    <3> QED BY <3>3, <1>2 DEF b
  <2>4. \A i \in 1..l : \/ i = l /\ timers'[i].call = timers[1].call
                        \/ /\ i # l /\ i + 1 \in DOMAIN timers /\ i + 1 # 1
                           /\ timers'[i].call = timers[i + 1].call
    <3>1. \A i \in 1..l : i = l \/ i \in 1..(l - 1)
      BY <1>2
    <3>2. \A i \in 1..(l - 1) : i # l
      BY <1>2
    <3> QED BY <3>1, <3>2, <2>3, <1>2, <1>6, <1>7
  <2>5. ASSUME NEW i \in 1..l, NEW j \in 1..l, timers'[i].call = timers'[j].call
        PROVE  i = j
    <3>1. CASE i = l /\ j = l
      BY <3>1
    <3>2. CASE i = l /\ j # l
      BY <3>2, <2>4, <2>5, <1>3 DEF Once
    <3>3. CASE i # l /\ j = l
      BY <3>3, <2>4, <2>5, <1>3 DEF Once
    <3>4. CASE i # l /\ j # l
      <4>1. i + 1 = j + 1
        BY <3>4, <2>4, <2>5 DEF Once
      <4> QED BY <4>1, <1>2
    <3> QED BY <3>1, <3>2, <3>3, <3>4
  <2>6. \A i \in 1..l : \E j \in DOMAIN timers : timers'[i].call = timers[j].call
    BY <2>4, <1>3
  <2>7. \A i \in 1..l : /\ ~log[timers'[i].call].dropped
                        /\ \A c \in Copies : copies[c].by # timers'[i].call
    BY <2>6 DEF Once
  <2>8. \A c, d \in Copies : copies[c].by = copies[d].by => c = d
    BY DEF Once
  <2>9. Once'
    BY <2>1, <2>3, <2>5, <2>7, <2>8, <1>7 DEF Once
  <2> QED BY <2>2, <2>9
<1>8. ASSUME timers' = Tail(timers), sendTelemetry(n, m),
             log' = [log EXCEPT ![n].did = FingerPrint,
                                ![n].actor = getActorId(@, FingerPrint)]
      PROVE  Once' /\ ByDispatcher'
  <2>1. log # <<>>
    BY <1>1, <1>3
  <2>2. /\ n \in DOMAIN log
        /\ DOMAIN log' = DOMAIN log
        /\ \A i \in DOMAIN log : /\ log'[i].dropped = log[i].dropped
                                 /\ log'[i].amid = log[i].amid
    BY <1>1, <1>8, <2>1, NameLog
  <2>3. PICK x : x = [of |-> n, by |-> m]
    OBVIOUS
  <2>4. x.of = n /\ x.by = m /\ copies' = Append(copies, x)
    BY <2>3, <1>8 DEF sendTelemetry
  <2>5. /\ \A c \in Copies : c \in Copies' /\ copies'[c] = copies[c]
        /\ \A c \in Copies' : c \in Copies \/ (c = Len(copies) + 1 /\ copies'[c] = x)
    BY <2>4, <1>1, CopiesMore
  <2>6. \A i, j \in DOMAIN timers' : timers'[i].call = timers'[j].call => i = j
    <3> SUFFICES ASSUME NEW i \in 1..(l - 1), NEW j \in 1..(l - 1),
                        timers'[i].call = timers'[j].call
                 PROVE  i = j
      BY <1>2, <1>8
    <3>1. i + 1 = j + 1
      BY <1>2, <1>6, <1>8 DEF Once
    <3> QED BY <3>1, <1>2
  <2>7. \A i \in DOMAIN timers' : /\ ~log[timers'[i].call].dropped
                                  /\ timers'[i].call \in DOMAIN log
                                  /\ timers'[i].call # m
                                  /\ \A c \in Copies : copies[c].by # timers'[i].call
    <3> SUFFICES ASSUME NEW i \in 1..(l - 1)
                 PROVE  /\ ~log[timers'[i].call].dropped
                        /\ timers'[i].call \in DOMAIN log
                        /\ timers'[i].call # m
                        /\ \A c \in Copies : copies[c].by # timers'[i].call
      BY <1>2, <1>8
    <3>1. timers'[i] = timers[i + 1] /\ i + 1 \in DOMAIN timers /\ i + 1 # 1
      BY <1>2, <1>6, <1>8
    <3> QED BY <3>1, <1>2, <1>3, <1>5 DEF Once
  <2>8. \A c \in Copies : copies[c].by # m
    BY <1>2, <1>3 DEF Once
  <2>9. ASSUME NEW c \in Copies', NEW d \in Copies', copies'[c].by = copies'[d].by
        PROVE  c = d
    <3>1. CASE c \in Copies /\ d \in Copies
      BY <3>1, <2>5, <2>9 DEF Once
    <3>2. CASE c \in Copies /\ d = Len(copies) + 1 /\ copies'[d] = x
      BY <3>2, <2>4, <2>5, <2>8, <2>9
    <3>3. CASE d \in Copies /\ c = Len(copies) + 1 /\ copies'[c] = x
      BY <3>3, <2>4, <2>5, <2>8, <2>9
    <3> QED BY <3>1, <3>2, <3>3, <2>5
  <2>10. \A i \in DOMAIN timers' : /\ ~log'[timers'[i].call].dropped
                                   /\ \A c \in Copies' : copies'[c].by # timers'[i].call
    BY <2>2, <2>4, <2>5, <2>7
  <2>11. Once'
    BY <2>6, <2>9, <2>10 DEF Once
  <2>12. Dispatcher(log[n], n, m)
    BY <1>2, <1>3 DEF Known, Once, Dispatcher
  <2>13. \A i \in DOMAIN log : \A j : Dispatcher(log[i], i, j) => Dispatcher(log'[i], i, j)
    BY <2>2 DEF Dispatcher
  <2>14. ASSUME NEW c \in Copies'
         PROVE  Dispatcher(log'[copies'[c].of], copies'[c].of, copies'[c].by)
    <3>1. CASE c \in Copies
      <4>1. copies'[c] = copies[c] /\ copies[c].of \in DOMAIN log
        BY <3>1, <2>5, <1>4
      <4> QED BY <3>1, <4>1, <2>13 DEF ByDispatcher
    <3>2. CASE copies'[c] = x
      BY <3>2, <2>2, <2>4, <2>12, <2>13
    <3> QED BY <3>1, <3>2, <2>5
  <2>15. ByDispatcher'
    BY <2>14 DEF ByDispatcher
  <2> QED BY <2>11, <2>15
<1>9. \/ /\ timers' = Append(Tail(timers), [Head(timers) EXCEPT !.at = chainComponents(Head(timers).at)])
         /\ UNCHANGED <<log, copies>>
      \/ /\ timers' = Tail(timers)
         /\ log' = [log EXCEPT ![n].did = FingerPrint,
                               ![n].actor = getActorId(@, FingerPrint)]
         /\ sendTelemetry(n, m)
  BY DEF FingerprintResumes, sync
<1>10. [Head(timers) EXCEPT !.at = chainComponents(Head(timers).at)].call = m
  <2>1. Head(timers) \in TimerSet(DOMAIN log)
    BY <1>1
  <2> QED BY <2>1 DEF TimerSet
<1> QED BY <1>7, <1>8, <1>9, <1>10

LEMMA NextOnce == IInv /\ Once /\ ByDispatcher /\ [Next]_vars => Once' /\ ByDispatcher'
<1> SUFFICES ASSUME IInv, Once, ByDispatcher, [Next]_vars
             PROVE  Once' /\ ByDispatcher'
  OBVIOUS
<1>1. Typed /\ Known
  BY TypesNow DEF IInv
<1>2. ASSUME UNCHANGED <<log, timers, copies>> PROVE Once' /\ ByDispatcher'
  BY <1>2 DEF Once, ByDispatcher, Dispatcher, Copies
<1>3. ASSUME NEW eid, NEW e, Writes(eid, e) PROVE Once' /\ ByDispatcher'
  BY <1>1, <1>3, WriteOnce
<1>4. CASE FingerprintResumes
  BY <1>1, <1>4, FingerprintOnce
<1>5. CASE SyncEvents
  BY <1>2, <1>5 DEF SyncEvents
<1>6. CASE \E p \in posts : PostDone(p) \/ PostFails(p)
  BY <1>2, <1>6 DEF PostDone, PostFails, library
<1>7. CASE UNCHANGED <<log, timers, startData, sync, acked, retried>>
  BY <1>2, <1>7 DEF sync
<1> QED BY <1>3, <1>4, <1>5, <1>6, <1>7, Steps

(* An event is dispatched once, and once more at most for each fingerprint    *)
(* that was awaited when it was written; one that validation drops only in    *)
(* the place of such an event.                                                *)
THEOREM RepeatsAmid == Spec => []RepeatedOnlyAmid
<1>1. Init => Once /\ ByDispatcher
  BY DEF Init, Once, ByDispatcher, Copies
<1>2. IInv /\ Once /\ ByDispatcher => RepeatedOnlyAmid
  BY TypesNow, OnceBounds
<1> QED BY <1>1, <1>2, NextOnce, Always, PTL DEF Spec

=============================================================================
