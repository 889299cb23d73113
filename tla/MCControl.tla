------------------------------ MODULE MCControl ------------------------------
(***************************************************************************)
(* Control on a small instance: two requests in progress on two pods.      *)
(***************************************************************************)
EXTENDS Control, FiniteSets, TLC

CONSTANTS p1, p2, r1, r2, tenant, user, v1

MCRegistered == {tenant}

NoMatch == ZeroConfig.match

WellFormed ==
    [readable : {TRUE}, json : {TRUE}, unknown : {FALSE}, typed : {TRUE},
     methods : {FALSE}, version : {0}, ttl : {Nil, 0, 1, 2, 3, 4},
     match : {NoMatch, tenant :> v1, user :> v1}, matchAll : BOOLEAN]

Flaws == {"readable", "json", "unknown", "typed", "methods", "version"}

IllFormed ==
    [readable : BOOLEAN, json : BOOLEAN, unknown : BOOLEAN, typed : BOOLEAN,
     methods : BOOLEAN, version : {Nil, 0, 1}, ttl : {Nil, 1}, match : {tenant :> v1},
     matchAll : {FALSE}]

\* Every TTL and targeting in a body of the right form, and up to two flaws
\* of form.
MCBodies ==
    WellFormed \cup
    {b \in IllFormed :
        \E good \in WellFormed :
            Cardinality({f \in Flaws : b[f] # good[f]}) <= 2}

MCSymmetry == Permutations({p1, p2}) \cup Permutations({r1, r2})

==============================================================================
