------------------------------- MODULE MCRewrite -------------------------------
(***************************************************************************)
(* Rewrite on every file of up to two declarations of the kinds that the   *)
(* rewriter tells apart, with every way to import what it needs.           *)
(***************************************************************************)
EXTENDS Rewrite, TLC

Good == <<"tenant", "user">>
Twice == <<"tenant", "tenant">>
Missing == <<>>

MCDocs == {<<>>, <<Good>>, <<Missing>>, <<Good, Good>>, <<Good, Twice>>}

Param(p, n) == [pkg |-> p, name |-> n]

\* No parameter of such a type; contexts under either name, discarded or not,
\* and the Context of another package.
MCParams ==
    {<<>>, <<Param("context", "_"), Param("context", "ctx")>>, <<Param("std", "_")>>,
     <<Param("gin", "c"), Param("std", "ctx")>>}

MCDecls ==
    [func : {TRUE}, doc : MCDocs, body : BOOLEAN, params : MCParams]
    \cup [func : {FALSE}, doc : MCDocs, body : {FALSE}, params : {<<>>}]

\* A file of these declarations, with the offsets of its tokens.
DeclText(ds, i) ==
    <<Token("head", i)>> \o
    (IF ds[i].body THEN <<Token("lbrace", i), Token("rbrace", i)>> ELSE <<>>)

Text(ds) ==
    <<Token("package", 0)>> \o FlattenSeq([i \in 1..Len(ds) |-> DeclText(ds, i)])

Lbrace(ds, i) ==
    IF ds[i].body THEN SelectInSeq(Text(ds), LAMBDA t : t = Token("lbrace", i)) - 1 ELSE 0

Parsed(ds) ==
    [i \in 1..Len(ds) |->
        [func |-> ds[i].func, doc |-> ds[i].doc, body |-> ds[i].body,
         params |-> ds[i].params, lbrace |-> Lbrace(ds, i)]]

MCFiles ==
    {[text |-> Text(ds), name |-> 1, contexts |-> c, runtimes |-> r,
      decls |-> Parsed(ds), loose |-> l] :
        ds \in BoundedSeq(MCDecls, 2),
        c \in {<<>>, <<"", "std">>, <<"_", "std">>},
        r \in {<<>>, <<"_">>, <<"">>, <<"_", "ll">>},
        l \in {<<>>, <<<<Good>>>>}}

===============================================================================
