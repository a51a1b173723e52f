--------------------------- MODULE MCKongConsumers ---------------------------
(* Releases of the consumers' input for TLC. *)
EXTENDS KongConsumers, TLC

CONSTANTS a1, jwt, rate, c1, c2, g1, g2, v1, v2, v3

(* The second release drops a consumer and moves the other to a new group, *)
(* the third has no consumer left.                                         *)
Releases == v1 :> (c1 :> {g1} @@ c2 :> {g1}) @@ v2 :> (c1 :> {g2}) @@ v3 :> <<>>

LimitsPresent ==
  v1 :> (c1 :> (a1 :> "present") @@ c2 :> <<>>) @@ v2 :> (c1 :> (a1 :> "present"))
    @@ v3 :> <<>>

(* The second release takes the rate limit of the consumer away. *)
LimitTakenAway ==
  v1 :> (c1 :> (a1 :> "present") @@ c2 :> <<>>) @@ v2 :> (c1 :> (a1 :> "absent"))
    @@ v3 :> <<>>

OneApi == {Api(a1), Plugin(a1, jwt, Nobody), Plugin(a1, rate, Nobody)}
=============================================================================
