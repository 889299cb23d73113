------------------------------ MODULE MCToolexec ------------------------------
(***************************************************************************)
(* Toolexec on small instances: packages of each kind that the driver      *)
(* tells apart.                                                            *)
(***************************************************************************)
EXTENDS Toolexec

CONSTANTS app, lib, bad, limelight, a1, a2, l1, b1, b2, r1, s1, s2

\* app has two sources to gate; lib would need an import of the runtime; bad
\* has a malformed directive after a tagged method; the runtime has a tag.
MCSources ==
    app :> <<a1, a2>> @@ lib :> <<l1>> @@ bad :> <<b1, b2>> @@ limelight :> <<r1>>

MCContent ==
    a1 :> "tagged" @@ a2 :> "tagged" @@ l1 :> "tagged" @@
    b1 :> "tagged" @@ b2 :> "invalid" @@ r1 :> "tagged"

\* With a package without tags in place of the one with a malformed one.
MCContentPlain ==
    a1 :> "tagged" @@ a2 :> "plain" @@ l1 :> "plain" @@
    b1 :> "plain" @@ b2 :> "plain" @@ r1 :> "plain"

MCBase == [f \in {a1, a2, l1, b1, b2, r1} |-> f]

===============================================================================
