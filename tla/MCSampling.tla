------------------------------ MODULE MCSampling ------------------------------
(***************************************************************************)
(* Sampling on a small instance: two services with a switch each.          *)
(***************************************************************************)
EXTENDS Sampling, TLC

CONSTANTS a, b, w1, w2, n1, n2, acme

\* One customer; and the firehose, which takes in who is not yet known.
MCTargetings == {{acme}, {acme, Anon}}

Symmetry ==
    Permutations({a, b}) \cup Permutations({w1, w2}) \cup Permutations({n1, n2})

===============================================================================
