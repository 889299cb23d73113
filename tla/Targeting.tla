------------------------------ MODULE Targeting ------------------------------
(***************************************************************************)
(* Who an activation of the switch is for (config.go).                     *)
(*                                                                         *)
(* A Config is a record [ttl, match, matchAll]: ttl is a duration in       *)
(* clock ticks, match a partial map from field names to wanted values,     *)
(* matchAll the firehose flag.  Configs are data; the behaviours that use  *)
(* them are in Switch, Gate and Control.                                   *)
(***************************************************************************)
EXTENDS Integers

\* The zero value of Config: what an activation slot holds before Enable.
ZeroConfig == [ttl |-> 0, match |-> [f \in {} |-> f], matchAll |-> FALSE]

\* All partial maps from S to V: the type of Config.Match and Event.Fields.
PartialMap(S, V) == UNION {[D -> V] : D \in SUBSET S}

(***************************************************************************)
(* What Enable accepts: a positive TTL, exactly one of Match and MatchAll, *)
(* and only fields that are registered when it looks them up.              *)
(***************************************************************************)
Bounded(cfg) == cfg.ttl > 0

OneTarget(cfg) == cfg.matchAll <=> DOMAIN cfg.match = {}

Known(cfg, registered) == DOMAIN cfg.match \subseteq registered

Accepts(cfg, registered) ==
    /\ Bounded(cfg)
    /\ OneTarget(cfg)
    /\ Known(cfg, registered)

\* State.Targeting: the label an enable response and a status report carry.
Label(matchAll) == IF matchAll THEN "all" ELSE "matched"

=============================================================================
