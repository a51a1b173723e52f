-------------------------- MODULE MCKongOnboarding --------------------------
(* Two releases of both inputs for TLC: an API comes and goes, the other   *)
(* stays, and the consumer has a rate limit on both.                       *)
EXTENDS KongOnboarding, TLC

CONSTANTS a1, a2, jwt, rate, c1, v1, v2

ApiReleases == v1 :> (a1 :> {jwt}) @@ v2 :> (a1 :> {rate} @@ a2 :> {jwt})

NoGroups == v1 :> (c1 :> {}) @@ v2 :> (c1 :> {})

ConsumerLimits ==
  v1 :> (c1 :> (a1 :> "present"))
    @@ v2 :> (c1 :> (a1 :> "present" @@ a2 :> "present"))
=============================================================================
