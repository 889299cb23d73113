-------------------------------- MODULE MCGate --------------------------------
(***************************************************************************)
(* Gate on small instances.  The identity of a request is a tenant and a   *)
(* user.  The same tenant is a number in one context and a string in       *)
(* another; one context has no identity at all, and one meets half of each *)
(* of two activations, and neither as a whole.  One directive names a      *)
(* field that may not be registered before the field that is targeted.     *)
(***************************************************************************)
EXTENDS Gate, TLC

CONSTANTS g1, tagged, plain, acme, acme2, half, none, tenant, user, region,
          tenantKey, userKey, regionKey, byTenant, byShadow, byUser, byRegion,
          num7, str7, bob, eve, t7, tBob, tEve, log, span, h1

MCGoroutine == {g1}
MCMethod == {tagged, plain}
MCNames == tagged :> <<region, tenant>> @@ plain :> <<user>>
MCContext == {acme, acme2, half, none}
MCField == {tenant, user, region}

MCCarries ==
    byTenant :> (acme :> num7 @@ acme2 :> str7 @@ half :> num7 @@ none :> Nil) @@
    byShadow :> (acme :> eve @@ acme2 :> str7 @@ half :> num7 @@ none :> Nil) @@
    byUser   :> (acme :> bob @@ acme2 :> eve @@ half :> eve @@ none :> Nil) @@
    byRegion :> (acme :> Nil @@ acme2 :> bob @@ half :> Nil @@ none :> Nil)

MCText == num7 :> t7 @@ str7 :> t7 @@ bob :> tBob @@ eve :> tEve

MCEntry ==
    { [name |-> tenant, key |-> tenantKey, extract |-> byTenant],
      [name |-> user,   key |-> userKey,   extract |-> byUser],
      [name |-> region, key |-> regionKey, extract |-> byRegion] }

\* A second extractor for the tenant, under the same key.
MCEntryShadow ==
    { [name |-> tenant, key |-> tenantKey, extract |-> byTenant],
      [name |-> tenant, key |-> tenantKey, extract |-> byShadow],
      [name |-> user,   key |-> userKey,   extract |-> byUser] }

\* A user of a tenant, a user in a region, and the firehose; the first two are
\* refused until their fields are registered.
MCConfig ==
    { [ttl |-> 1, match |-> tenant :> t7 @@ user :> tBob, matchAll |-> FALSE],
      [ttl |-> 1, match |-> user :> tEve @@ region :> tBob, matchAll |-> FALSE],
      [ttl |-> 1, match |-> ZeroConfig.match, matchAll |-> TRUE] }

MCEmitters == {<<>>, <<Nil, log>>, <<log, Nil, span>>}

===============================================================================
