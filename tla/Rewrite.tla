-------------------------------- MODULE Rewrite --------------------------------
(***************************************************************************)
(* The rewriter: how one source file gets its gates (internal/rewrite and  *)
(* internal/directive).                                                    *)
(*                                                                         *)
(* The text of a file is its sequence of tokens, as far as splices can     *)
(* fall between them; its syntax tree is what go/parser makes of it.  A    *)
(* file is a record                                                        *)
(*   text                 its tokens                                       *)
(*   name                 the offset past the name in its package clause   *)
(*   contexts, runtimes   the local names under which it imports "context" *)
(*                        and the limelight runtime, in order: "" when the *)
(*                        import has none, "_" and "." as in Go            *)
(*   decls                its declarations, in order                       *)
(*   loose                its comment groups that document no declaration  *)
(* a declaration is a record                                               *)
(*   func                 is it a function declaration?                    *)
(*   doc                  the directives of its doc comment, in order      *)
(*   body, lbrace         has it a body, and the offset of its brace       *)
(*   params               its parameters of a type pkg.Context, in order:  *)
(*                        pkg, and the name of the parameter               *)
(* and a directive is the list of names in its fields argument: empty when *)
(* there is no such list.  Comment lines that are no directives are left   *)
(* out.                                                                    *)
(***************************************************************************)
EXTENDS Integers, Sequences, SequencesExt, FiniteSets

CONSTANTS Files  \* the files that are rewritten

\* No name, and the blank identifier.
NoName == ""
Blank == "_"

\* A token of a file: of its package clause, or of a declaration.
Token(kind, i) == [kind |-> kind, decl |-> i]
Tokens == [kind : {"package", "head", "lbrace", "rbrace"}, decl : Nat]

Names == Seq(STRING)
Params == [pkg : STRING, name : STRING]
Decls ==
    [func : BOOLEAN, doc : Seq(Names), body : BOOLEAN, lbrace : Nat, params : Seq(Params)]

\* go/parser gives the offsets: the first declaration is behind the package
\* clause, and each brace belongs to one declaration.
ASSUME FilesAssumption ==
    \A f \in Files :
        /\ f \in [text : Seq(Tokens), name : Nat, contexts : Names, runtimes : Names,
                  decls : Seq(Decls), loose : Seq(Seq(Names))]
        /\ f.name \in 1..Len(f.text)
        /\ f.text[f.name] = Token("package", 0)
        /\ \A i \in DOMAIN f.decls : f.decls[i].body =>
            /\ f.decls[i].lbrace \in f.name..(Len(f.text) - 1)
            /\ f.text[f.decls[i].lbrace + 1] = Token("lbrace", i)

VARIABLES file,      \* the file
          phase,     \* "decls", "comments", "splice", "done" or "error"
          next,      \* the index of the declaration or group to look at
          splices,   \* the splices: records [offset, token], no two at one offset
          todo,      \* the splices that apply has yet to make
          tagged,    \* groups whose directive belongs to a declaration
          warnings,  \* directives warned about: <<group, index>>
          source     \* Result.Source as far as it is made: <<>> stands for nil

vars == <<file, phase, next, splices, todo, tagged, warnings, source>>

\* The comment groups of a file: the docs of declarations, and the others.
Doc(i) == <<"doc", i>>
Loose(i) == <<"loose", i>>
Groups(f) ==
    [i \in 1..(Len(f.decls) + Len(f.loose)) |->
        IF i <= Len(f.decls) THEN Doc(i) ELSE Loose(i - Len(f.decls))]
Directives(f, g) == IF g[1] = "doc" THEN f.decls[g[2]].doc ELSE f.loose[g[2]]

\* fset.Position(fn.Body.Lbrace).Offset + 1
After_startBug(d) == d.lbrace
After(d) == d.lbrace + 1

-------------------------------------------------------------------------------
\* directive.Parse: at least one name, none empty, none twice.
Valid(names) == names # <<>> /\ NoName \notin ToSet(names) /\ IsInjective(names)

\* importLocalName: NoName if no import binds a name to call through.
LocalName_blankBug(names, pkg) ==
    IF names = <<>> THEN NoName ELSE IF names[1] = NoName THEN pkg ELSE names[1]
LocalName(names, pkg) ==
    LET usable == {i \in DOMAIN names : names[i] \notin {Blank, "."}}
        first  == names[Min(usable)]
    IN  IF usable = {} THEN NoName ELSE IF first = NoName THEN pkg ELSE first

\* contextParam: the first parameter with a name whose type is Context of the
\* package that goes by the local name of "context"; NoName if there is none.
ContextParam(f, d) ==
    LET local == LocalName(f.contexts, "context")
        named == {i \in DOMAIN d.params :
                    d.params[i].pkg = local /\ d.params[i].name # Blank}
    IN  IF local = NoName \/ named = {} THEN NoName ELSE d.params[Min(named)].name

\* A directive that cannot be honoured.
Unfit_silentBug(i) == warnings
Unfit(i) == warnings \cup {<<Doc(i), 1>>}

\* gateCall, where the name of the runtime is still open, and the import it
\* may need.
Gate(i, ctx, fields) ==
    [kind |-> "gate", decl |-> i, ctx |-> ctx, fields |-> fields, local |-> NoName]
Import == [kind |-> "import", decl |-> 0]

GenLocal == "limelight__gen"
Local(f) == LocalName(f.runtimes, "limelight")

\* strings.ReplaceAll(text, "\x00", local)
Named(s, local) == [offset |-> s.offset, token |-> [s.token EXCEPT !.local = local]]

\* apply makes the splices from the last offset to the first.
Before_ascendingBug(s, t) == s.offset < t.offset
Before(s, t) == s.offset > t.offset

-------------------------------------------------------------------------------
Init ==
    /\ file \in Files
    /\ phase = "decls"
    /\ next = 1
    /\ splices = {}
    /\ todo = {}
    /\ tagged = {}
    /\ warnings = {}
    /\ source = <<>>

\* The loop over the declarations has looked at one more.
Advance ==
    /\ next' = next + 1
    /\ UNCHANGED <<file, phase, todo, source>>

\* A declaration that is no function, or that carries no directive.
Untagged(d) ==
    /\ ~d.func \/ d.doc = <<>>
    /\ Advance
    /\ UNCHANGED <<splices, tagged, warnings>>

\* parseDoc takes the first directive, and it is malformed: the file fails.
Malformed(d) ==
    /\ d.func /\ d.doc # <<>>
    /\ ~Valid(d.doc[1])
    /\ phase' = "error"
    /\ tagged' = tagged \cup {Doc(next)}
    /\ UNCHANGED <<file, next, splices, todo, warnings, source>>

\* There is no body to gate, or nothing to extract from.
Unfitting(d) ==
    /\ d.func /\ d.doc # <<>>
    /\ Valid(d.doc[1])
    /\ ~d.body \/ ContextParam(file, d) = NoName
    /\ tagged' = tagged \cup {Doc(next)}
    /\ warnings' = Unfit(next)
    /\ Advance
    /\ UNCHANGED splices

Gated(d) ==
    /\ d.func /\ d.doc # <<>>
    /\ Valid(d.doc[1])
    /\ d.body /\ ContextParam(file, d) # NoName
    /\ tagged' = tagged \cup {Doc(next)}
    /\ splices' = splices \cup
                    {[offset |-> After(d),
                      token  |-> Gate(next, ContextParam(file, d), d.doc[1])]}
    /\ Advance
    /\ UNCHANGED warnings

Declaration ==
    /\ phase = "decls"
    /\ next <= Len(file.decls)
    /\ LET d == file.decls[next] IN
       Untagged(d) \/ Malformed(d) \/ Unfitting(d) \/ Gated(d)

\* The loop over the comments begins.
Comments ==
    /\ phase = "decls"
    /\ next > Len(file.decls)
    /\ phase' = "comments"
    /\ next' = 1
    /\ UNCHANGED <<file, splices, todo, tagged, warnings, source>>

\* One comment group: if no declaration took its directive, all are inert.
CommentGroup ==
    /\ phase = "comments"
    /\ next <= Len(Groups(file))
    /\ LET g == Groups(file)[next] IN
       warnings' = IF g \in tagged THEN warnings
                   ELSE warnings \cup {<<g, k>> : k \in DOMAIN Directives(file, g)}
    /\ next' = next + 1
    /\ UNCHANGED <<file, phase, splices, todo, tagged, source>>

\* Count is 0: Source stays nil.
Nothing ==
    /\ phase = "comments"
    /\ next > Len(Groups(file))
    /\ splices = {}
    /\ phase' = "done"
    /\ UNCHANGED <<file, next, splices, todo, tagged, warnings, source>>

\* The gates get the name that the file has for the runtime, or an import
\* that gives it one.
Resolve ==
    LET local == IF Local(file) = NoName THEN GenLocal ELSE Local(file)
    IN  /\ phase = "comments"
        /\ next > Len(Groups(file))
        /\ splices # {}
        /\ phase' = "splice"
        /\ splices' = {Named(s, local) : s \in splices} \cup
                IF Local(file) = NoName THEN {[offset |-> file.name, token |-> Import]} ELSE {}
        /\ todo' = splices'
        /\ source' = file.text
        /\ UNCHANGED <<file, next, tagged, warnings>>

\* apply: one splice, the first in the order of those that are left.
Splice ==
    /\ phase = "splice"
    /\ \E s \in todo :
        /\ \A t \in todo \ {s} : Before(s, t)
        /\ source' = InsertAt(source, s.offset + 1, s.token)
        /\ todo' = todo \ {s}
    /\ phase' = IF todo' = {} THEN "done" ELSE "splice"
    /\ UNCHANGED <<file, next, splices, tagged, warnings>>

Next == Declaration \/ Comments \/ CommentGroup \/ Nothing \/ Resolve \/ Splice

Spec == Init /\ [][Next]_vars

-------------------------------------------------------------------------------
Directive(f) == UNION {{<<g, k>> : k \in DOMAIN Directives(f, g)} : g \in ToSet(Groups(f))}

Gates == {s \in ToSet(source) : s.kind = "gate"}

TypeOK ==
    /\ phase \in {"decls", "comments", "splice", "done", "error"}
    /\ next \in 1..(Len(Groups(file)) + 1)
    /\ tagged \subseteq {Doc(i) : i \in DOMAIN file.decls}
    /\ warnings \subseteq Directive(file)
    /\ \A s \in splices :
        /\ s.offset \in 1..Len(file.text)
        /\ file.text[s.offset].kind \in {"package", "lbrace"}
    /\ todo \subseteq splices
    /\ todo # {} => phase = "splice"
    /\ source # <<>> => phase \in {"splice", "done"}

\* Where token k of the text is among the splices.
Moved(k) == k + Cardinality({s \in splices : s.offset < k})

\* The user's code is as it was, in its order and with nothing else in it,
\* with each gate the first statement of its own method, once, and the import
\* on the line of the package clause: whatever the number of splices and the
\* order they were found in.
Spliced ==
    phase = "done" /\ source # <<>> =>
        /\ Len(source) = Len(file.text) + Cardinality(splices)
        /\ \A k \in DOMAIN file.text : source[Moved(k)] = file.text[k]
        /\ \A s \in splices : source[Moved(s.offset) + 1] = s.token
        /\ \A k \in DOMAIN source :
            /\ source[k].kind = "gate" => source[k - 1] = Token("lbrace", source[k].decl)
            /\ source[k].kind = "import" => source[k - 1] = Token("package", 0)

\* Imports under these names bind local to the package pkg.
Binds(names, pkg, local) ==
    /\ local \notin {NoName, Blank, "."}
    /\ local \in ToSet(names) \/ (local = pkg /\ NoName \in ToSet(names))

\* The imports bind the name that a gate calls through to the runtime, and the
\* gate passes a parameter of its function that has a name, of the type that
\* the imports call context.Context.  (Whether a parameter or a local variable
\* of the function hides the runtime's name is not modelled.)
Resolves ==
    phase = "done" =>
        \A g \in Gates :
            /\ \/ g.local = GenLocal /\ Import \in ToSet(source)
               \/ Binds(file.runtimes, "limelight", g.local)
            /\ \E p \in ToSet(file.decls[g.decl].params) :
                p.name = g.ctx /\ g.ctx # Blank /\ Binds(file.contexts, "context", p.pkg)

Honoured(g, k) == k = 1 /\ \E t \in Gates : g = Doc(t.decl) /\ t.fields = Directives(file, g)[1]

\* No first directive is overlooked: unless the file fails, that of each
\* comment group has its gate or a warning, and no gate comes from anything
\* but a well-formed directive of its own declaration.
FirstAnswered ==
    phase = "done" =>
        /\ \A g \in ToSet(Groups(file)) : Directives(file, g) # <<>> =>
              (Honoured(g, 1) <=> <<g, 1>> \notin warnings)
        /\ \A t \in Gates : Valid(t.fields) /\ Honoured(Doc(t.decl), 1)

\* Result.Warnings: "directives that could not be honoured ... a silently
\* ignored tag is the failure mode limelight exists to avoid".  Unless the file
\* fails, every directive in it has its gate or a warning.
NoneIgnored ==
    phase = "done" =>
        \A x \in Directive(file) : Honoured(x[1], x[2]) \/ x \in warnings

===============================================================================
