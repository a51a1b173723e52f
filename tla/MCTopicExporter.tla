--------------------------- MODULE MCTopicExporter ---------------------------
(* Small instances of TopicExporter for TLC. *)
EXTENDS TopicExporter, TLC

OneEach == [m \in Messages |-> 1]

(* The message at offset 1 is not valid JSON, the next has two samples. *)
PoisonInside ==
  [m \in Messages |-> CASE m.offset = 0 -> 1 [] m.offset = 1 -> 0 [] OTHER -> 2]

Symmetry == Permutations(Requests)
=============================================================================
