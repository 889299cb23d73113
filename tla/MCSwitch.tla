------------------------------- MODULE MCSwitch -------------------------------
(***************************************************************************)
(* Switch on small instances.  Configs: a matched activation of each of    *)
(* two lengths, a firehose, and one Config for each reason Enable refuses. *)
(***************************************************************************)
EXTENDS Switch, TLC

CONSTANTS c1, c2, a1, a2, tenant, user, v1

MCCaller == {c1, c2}
MCTwo == {a1, a2}

MCRegistered == {tenant}

MCConfig ==
    { [ttl |-> 1, match |-> tenant :> v1, matchAll |-> FALSE],
      [ttl |-> 2, match |-> ZeroConfig.match, matchAll |-> TRUE],
      [ttl |-> 0, match |-> tenant :> v1, matchAll |-> FALSE],
      [ttl |-> 1, match |-> tenant :> v1, matchAll |-> TRUE],
      [ttl |-> 1, match |-> ZeroConfig.match, matchAll |-> FALSE],
      [ttl |-> 1, match |-> user :> v1, matchAll |-> FALSE] }

===============================================================================
