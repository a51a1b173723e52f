------------------------------ MODULE Consumer ------------------------------
(***************************************************************************)
(* What the topic exporter promises to Kafka: the abstract consumer that   *)
(* TopicExporter implements.  Messages of a partition are taken in order,  *)
(* they may be served in any order, and the only offsets ever committed    *)
(* are those of messages that this process has taken and served.  It does  *)
(* NOT promise that everything below a committed offset has been served,   *)
(* nor that commits never go back: the code keeps neither.                 *)
(***************************************************************************)
EXTENDS Naturals

CONSTANTS Topics,      \* the partitions of all the clusters
          LogEnd       \* bound: messages a partition may hold

VARIABLES end,         \* messages the producers have appended
          position,    \* next offset the process takes
          committed,   \* next offset a restarted process takes
          served       \* <<topic, offset>> served by this process

vars == <<end, position, committed, served>>

Init == /\ end = [t \in Topics |-> 0]
        /\ position = [t \in Topics |-> 0]
        /\ committed = [t \in Topics |-> 0]
        /\ served = {}

Produce(t) == /\ end[t] < LogEnd
              /\ end' = [end EXCEPT ![t] = @ + 1]
              /\ UNCHANGED <<position, committed, served>>

Take(t) == /\ position[t] < end[t]
           /\ position' = [position EXCEPT ![t] = @ + 1]
           /\ UNCHANGED <<end, committed, served>>

Serve(t, o) == /\ o < position[t]
               /\ served' = served \union {<<t, o>>}
               /\ UNCHANGED <<end, position, committed>>

(* The message at offset 0 is never a commit point of its own. *)
Commit(t, o) == /\ <<t, o>> \in served
                /\ o > 0 /\ o < position[t]
                /\ committed' = [committed EXCEPT ![t] = o + 1]
                /\ UNCHANGED <<end, position, served>>

Restart == /\ position' = committed
           /\ served' = {}
           /\ UNCHANGED <<end, committed>>

Next == \/ \E t \in Topics : Produce(t) \/ Take(t)
        \/ \E t \in Topics, o \in 0 .. LogEnd - 1 : Serve(t, o) \/ Commit(t, o)
        \/ Restart

Spec == Init /\ [][Next]_vars
=============================================================================
