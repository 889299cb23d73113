------------------------------ MODULE MCRegistry ------------------------------
(***************************************************************************)
(* Registry on a small instance: two goroutines, the extractors of one of  *)
(* which call back, two fields, one of them with two entries.              *)
(***************************************************************************)
EXTENDS Registry, TLC

CONSTANTS c1, c2, inner, tenant, user, tenantKey, userKey, otherKey

MCInner == c1 :> inner @@ c2 :> Nil @@ inner :> Nil

MCEntry ==
    { [name |-> tenant, key |-> tenantKey], [name |-> tenant, key |-> otherKey],
      [name |-> user, key |-> userKey] }

MCOp ==
    [kind : {"register"}, entry : MCEntry] \cup
    [kind : {"enable"}, names : {{tenant, user}}] \cup
    [kind : {"gate"}, names : {{tenant}}]

===============================================================================
