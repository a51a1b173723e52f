----------------------------- MODULE MCKongApis -----------------------------
(* Three releases of kong_apis.json for TLC: the second drops an API, adds *)
(* another, and changes the plugins of the one that stays; the third       *)
(* shares no API with the first.                                           *)
EXTENDS KongApis, TLC

CONSTANTS a1, a2, a3, a4, jwt, acl, v1, v2, v3

ThreeReleases ==
  v1 :> (a1 :> {jwt} @@ a2 :> {jwt})
    @@ v2 :> (a1 :> {acl} @@ a3 :> {jwt, acl})
    @@ v3 :> (a3 :> {jwt} @@ a4 :> {jwt})
=============================================================================
