----------------------------- MODULE RewriteProofs -----------------------------
(***************************************************************************)
(* What holds of Rewrite for any files, with proofs checked by TLAPS.      *)
(*                                                                         *)
(* IInv says what the loops have done so far: the directives they took     *)
(* (Taken) and warned about (Warned), the splices they made (Made), and,   *)
(* once apply is under way, where the splices it has done left every token *)
(* of the text (Placed).                                                   *)
(***************************************************************************)
EXTENDS Rewrite, SequenceTheorems, FiniteSetTheorems, WellFoundedInduction, TLAPS

Applying == {"splice", "done"}

\* The declarations, and the comment groups, that have been looked at.
Seen == IF phase \in {"decls", "error"} THEN 1..(next - 1) ELSE DOMAIN file.decls
SeenGroups ==
    IF phase = "comments" THEN 1..(next - 1)
    ELSE IF phase \in Applying THEN DOMAIN Groups(file) ELSE {}

HasTag(i) == file.decls[i].func /\ file.decls[i].doc # <<>>

Gatable(i) ==
    /\ HasTag(i)
    /\ Valid(file.decls[i].doc[1])
    /\ file.decls[i].body
    /\ ContextParam(file, file.decls[i]) # NoName

Fits == {i \in Seen : Gatable(i)}

\* A group is tagged just when it documents a function and has a directive.
Taken ==
    phase # "error" =>
        /\ \A i \in DOMAIN file.decls : Doc(i) \in tagged <=> i \in Seen /\ HasTag(i)
        /\ \A i \in Seen : HasTag(i) => Valid(file.decls[i].doc[1])

\* A directive that was taken is warned about just when it gets no gate, and
\* one in a group that no declaration took always is.
Warned ==
    /\ \A i \in DOMAIN file.decls :
         phase \in {"decls", "error"} /\ <<Doc(i), 1>> \in warnings => i \in Seen
    /\ \A i \in Seen : HasTag(i) => (<<Doc(i), 1>> \in warnings <=> ~Gatable(i))
    /\ \A n \in SeenGroups :
         Groups(file)[n] \notin tagged /\ Directives(file, Groups(file)[n]) # <<>>
            => <<Groups(file)[n], 1>> \in warnings

\* The name the gates call through: open until the declarations are scanned.
Runtime == IF Local(file) = NoName THEN GenLocal ELSE Local(file)
Chosen == IF phase \in Applying THEN Runtime ELSE NoName

GateAt(i, local) ==
    [offset |-> After(file.decls[i]),
     token  |-> [kind |-> "gate", decl |-> i, ctx |-> ContextParam(file, file.decls[i]),
                 fields |-> file.decls[i].doc[1], local |-> local]]
ImportAt == [offset |-> file.name, token |-> Import]

\* The splices are a gate for each declaration that fits, and the import.
Made ==
    /\ IsFiniteSet(splices)
    /\ \A i \in Fits : GateAt(i, Chosen) \in splices
    /\ \A s \in splices :
        \/ \E i \in Fits : s = GateAt(i, Chosen)
        \/ s = ImportAt /\ phase \in Applying /\ Local(file) = NoName
    /\ phase \in Applying /\ splices # {} /\ Local(file) = NoName => ImportAt \in splices

\* How many of the splices in S are before token k.
Past(S, k) == Cardinality({s \in S : s.offset < k})

\* The splices that apply has done.
Applied == splices \ todo

Things == Tokens \cup {s.token : s \in splices}

\* The gate or the import t is behind the token it belongs to.
Follows(t, u) ==
    /\ t.kind = "gate" => u = Token("lbrace", t.decl)
    /\ t.kind = "import" => u = Token("package", 0)

\* What src is of a text, once the splices in S are made.
Laid(text, S, src) ==
    /\ Len(src) = Len(text) + Cardinality(S)
    /\ \A k \in DOMAIN text : src[k + Past(S, k)] = text[k]
    /\ \A s \in S : src[s.offset + Past(S, s.offset) + 1] = s.token
    /\ \A k \in DOMAIN src : src[k].kind \in {"gate", "import"} =>
        /\ k > 1
        /\ Follows(src[k], src[k - 1])
        /\ \E s \in S : src[k] = s.token

Placed ==
    source # <<>> =>
        /\ source \in Seq(Things)
        /\ \A s \in Applied, t \in todo : Before(s, t)
        /\ Laid(file.text, Applied, source)

\* The text is there just while, and after, the splices are made.
Stage ==
    /\ file \in Files
    /\ phase \in {"decls", "error"} => next <= Len(file.decls) + 1
    /\ phase = "splice" => todo # {}
    /\ phase # "splice" => todo = {}
    /\ source # <<>> <=> phase \in Applying /\ splices # {}

IInv ==
    /\ TypeOK
    /\ Stage
    /\ Taken
    /\ Warned
    /\ Made
    /\ Placed

-------------------------------------------------------------------------------
(* Numbers, sequences and sets of splices. *)

\* The naturals are well founded under a relation that < is part of.
LEMMA LessIsWellFounded ==
    \E R : IsWellFoundedOn(R, Nat) /\ \A x, y \in Nat : x < y => <<x, y>> \in R
<1>1. IsWellFoundedOn(OpToRel(<, Nat), Nat)
  BY NatLessThanWellFounded
<1>2. \A x, y \in Nat : x < y => <<x, y>> \in OpToRel(<, Nat)
  BY DEF OpToRel
<1>3. QED
  BY <1>1, <1>2, Zenon

\* Min names a member of the set.
LEMMA MinIs ==
    ASSUME NEW S \in SUBSET Nat, S # {}
    PROVE  Min(S) \in S
<1>1. PICK R : IsWellFoundedOn(R, Nat) /\ \A x, y \in Nat : x < y => <<x, y>> \in R
  BY LessIsWellFounded, Zenon
<1>2. IsWellFoundedOn(R, Nat)
  BY <1>1, Zenon
<1>3. \A x, y \in Nat : x < y => <<x, y>> \in R
  BY <1>1, Zenon
<1>4. S \subseteq Nat
  OBVIOUS
<1>5. \E x \in S : \A y \in S : ~(<<y, x>> \in R)
  BY <1>2, <1>4, WFMin, Zenon
<1>6. PICK i \in S : \A j \in S : ~(<<j, i>> \in R)
  BY <1>5, Zenon
<1>7. ASSUME NEW j \in S PROVE i =< j
  <2>1. i \in Nat /\ j \in Nat /\ ~(<<j, i>> \in R)
    BY <1>4, <1>6, Zenon
  <2>2. ~(j < i)
    BY <2>1, <1>3, Zenon
  <2>3. QED
    BY <2>1, <2>2, SMT
<1>8. \E x \in S : \A y \in S : x =< y
  BY <1>7, Zenon
<1>9. QED
  BY <1>8, Zenon DEF Min

\* InsertAt moves the elements from position i on by one.
LEMMA InsertAtIs ==
    ASSUME NEW S, NEW s \in Seq(S), NEW e \in S, NEW i \in 1..(Len(s) + 1)
    PROVE  /\ InsertAt(s, i, e) \in Seq(S)
           /\ Len(InsertAt(s, i, e)) = Len(s) + 1
           /\ \A k \in 1..(Len(s) + 1) :
                InsertAt(s, i, e)[k] = IF k < i THEN s[k] ELSE IF k = i THEN e ELSE s[k - 1]
<1> DEFINE a == SubSeq(s, 1, i - 1)
           b == SubSeq(s, i, Len(s))
<1>1. a \in Seq(S) /\ Len(a) = i - 1 /\ \A k \in 1..(i - 1) : a[k] = s[k]
  <2>1. \A k \in 1..(i - 1) : s[k] \in S
    OBVIOUS
  <2>2. QED
    BY <2>1, SubSeqProperties
<1>2. b \in Seq(S) /\ Len(b) = Len(s) - i + 1
      /\ \A k \in 1..(Len(s) - i + 1) : b[k] = s[i + k - 1]
  <2>1. \A k \in i..Len(s) : s[k] \in S
    OBVIOUS
  <2>2. Len(s) \in Int /\ i \in Int
    OBVIOUS
  <2>3. QED
    BY <2>1, <2>2, SubSeqProperties
<1>3. <<e>> \in Seq(S) /\ Len(<<e>>) = 1 /\ <<e>>[1] = e
  OBVIOUS
<1> HIDE DEF a, b
<1>4. a \o <<e>> \in Seq(S) /\ Len(a \o <<e>>) = i
      /\ \A k \in 1..i : (a \o <<e>>)[k] = IF k < i THEN s[k] ELSE e
  BY <1>1, <1>3, ConcatProperties
<1>5. (a \o <<e>>) \o b \in Seq(S) /\ Len((a \o <<e>>) \o b) = Len(s) + 1
      /\ \A k \in 1..(Len(s) + 1) : ((a \o <<e>>) \o b)[k] =
            IF k < i THEN s[k] ELSE IF k = i THEN e ELSE s[k - 1]
  <2> DEFINE c == a \o <<e>>
  <2>1. c \in Seq(S) /\ Len(c) = i /\ \A k \in 1..i : c[k] = IF k < i THEN s[k] ELSE e
    BY <1>4
  <2> HIDE DEF c
  <2>2. c \o b \in Seq(S) /\ Len(c \o b) = Len(c) + Len(b)
        /\ \A k \in 1..(Len(c) + Len(b)) : (c \o b)[k] =
              IF k <= Len(c) THEN c[k] ELSE b[k - Len(c)]
    BY <1>2, <2>1, ConcatProperties
  <2>3. \A k \in 1..(Len(s) + 1) : k > i => b[k - i] = s[k - 1]
    <3>1. TAKE k \in 1..(Len(s) + 1)
    <3>2. HAVE k > i
    <3>3. k - i \in 1..(Len(s) - i + 1) /\ i + (k - i) - 1 = k - 1
      BY <3>2
    <3>4. QED
      BY <3>3, <1>2
  <2>4. QED
    BY <1>2, <2>1, <2>2, <2>3 DEF c
<1>6. InsertAt(s, i, e) = (a \o <<e>>) \o b
  BY DEF InsertAt, a, b
<1>7. QED
  BY <1>5, <1>6

\* A token is past no more splices than there are.
LEMMA PastIs ==
    ASSUME NEW S, IsFiniteSet(S), NEW k
    PROVE  Past(S, k) \in 0..Cardinality(S) /\ Cardinality(S) \in Nat
<1>1. {s \in S : s.offset < k} \in SUBSET S
  OBVIOUS
<1>2. IsFiniteSet({s \in S : s.offset < k})
      /\ Cardinality({s \in S : s.offset < k}) <= Cardinality(S)
  BY <1>1, FS_Subset
<1>3. QED
  BY <1>2, FS_CardinalityType DEF Past

\* A splice before all others comes to be past the tokens behind its offset,
\* and nothing was past those before them.
LEMMA PastAdd ==
    ASSUME NEW S, IsFiniteSet(S), NEW s, s \notin S, s.offset \in Nat,
           \A t \in S : t.offset \in Nat /\ s.offset < t.offset,
           NEW k \in Nat
    PROVE  /\ k <= s.offset + 1 => Past(S, k) = 0
           /\ Past(S \cup {s}, k) = IF k <= s.offset THEN 0 ELSE Past(S, k) + 1
<1> DEFINE In(T) == {t \in T : t.offset < k}
<1>1. ASSUME k <= s.offset + 1
      PROVE  Past(S, k) = 0
  <2>1. In(S) = {}
    BY <1>1
  <2>2. QED
    BY <2>1, FS_EmptySet DEF Past
<1>2. ASSUME k <= s.offset
      PROVE  Past(S \cup {s}, k) = 0
  <2>1. In(S \cup {s}) = {}
    BY <1>2
  <2>2. QED
    BY <2>1, FS_EmptySet DEF Past
<1>3. ASSUME ~(k <= s.offset)
      PROVE  Past(S \cup {s}, k) = Past(S, k) + 1
  <2>1. In(S \cup {s}) = In(S) \cup {s}
    BY <1>3
  <2>2. IsFiniteSet(In(S)) /\ s \notin In(S)
    BY FS_Subset
  <2> HIDE DEF In
  <2>3. Cardinality(In(S) \cup {s}) = Cardinality(In(S)) + 1
    BY <2>2, FS_AddElement
  <2>4. QED
    BY <2>1, <2>3 DEF In, Past
<1>4. QED
  BY <1>1, <1>2, <1>3

-------------------------------------------------------------------------------
(* The names that are looked up. *)

\* importLocalName gives nothing, or a name bound to the package that a call
\* can go through.
LEMMA LocalNameIs ==
    ASSUME NEW names \in Names, NEW pkg, pkg \notin {NoName, Blank, "."}
    PROVE  \/ LocalName(names, pkg) = NoName
           \/ /\ LocalName(names, pkg) \notin {NoName, Blank, "."}
              /\ \/ LocalName(names, pkg) \in ToSet(names)
                 \/ LocalName(names, pkg) = pkg /\ NoName \in ToSet(names)
<1> DEFINE usable == {i \in DOMAIN names : names[i] \notin {Blank, "."}}
<1>1. CASE usable = {}
  BY <1>1, Zenon DEF LocalName
<1>2. CASE usable # {}
  <2>1. usable \in SUBSET Nat
    <3>1. Len(names) \in Nat /\ DOMAIN names = 1..Len(names)
      BY LenProperties DEF Names
    <3>2. \A i \in DOMAIN names : i \in Nat
      BY <3>1
    <3>3. QED
      BY <3>2, Zenon
  <2>2. Min(usable) \in usable
    BY <1>2, <2>1, MinIs
  <2>3. names[Min(usable)] \notin {Blank, "."} /\ Min(usable) \in DOMAIN names
    BY <2>2
  <2>4. names[Min(usable)] \in ToSet(names)
    BY <2>3 DEF ToSet
  <2>5. LocalName(names, pkg) =
          IF names[Min(usable)] = NoName THEN pkg ELSE names[Min(usable)]
    BY <1>2 DEF LocalName
  <2> HIDE DEF usable
  <2>6. QED
    BY <2>3, <2>4, <2>5
<1>3. QED
  BY <1>1, <1>2

\* contextParam gives nothing, or a parameter that has a name, of the type
\* that the local name of "context" qualifies.
LEMMA ContextParamIs ==
    ASSUME NEW f, NEW d \in Decls, ContextParam(f, d) # NoName
    PROVE  /\ LocalName(f.contexts, "context") # NoName
           /\ ContextParam(f, d) # Blank
           /\ \E p \in ToSet(d.params) :
                p.name = ContextParam(f, d) /\ p.pkg = LocalName(f.contexts, "context")
<1> DEFINE local == LocalName(f.contexts, "context")
           named == {i \in DOMAIN d.params :
                        d.params[i].pkg = local /\ d.params[i].name # Blank}
<1>1. local # NoName /\ named # {} /\ ContextParam(f, d) = d.params[Min(named)].name
  BY Zenon DEF ContextParam
<1>2. named \in SUBSET Nat
  <2>1. d.params \in Seq(Params)
    BY DEF Decls
  <2>2. DOMAIN d.params \subseteq Nat
    <3>1. Len(d.params) \in Nat /\ DOMAIN d.params = 1..Len(d.params)
      BY <2>1, LenProperties
    <3>2. \A i \in DOMAIN d.params : i \in Nat
      BY <3>1
    <3>3. QED
      BY <3>2, Zenon
  <2>3. QED
    BY <2>2, Zenon
<1>3. Min(named) \in named
  BY <1>1, <1>2, MinIs
<1> DEFINE p == d.params[Min(named)]
<1>4. p.name # Blank /\ p.pkg = local /\ Min(named) \in DOMAIN d.params
  BY <1>3
<1>5. p \in ToSet(d.params)
  BY <1>4, Zenon DEF ToSet
<1> HIDE DEF named, local, p
<1>6. p.name = ContextParam(f, d)
  BY <1>1, Zenon DEF p
<1>7. QED
  BY <1>1, <1>4, <1>5, <1>6, Zenon DEF local

-------------------------------------------------------------------------------
(* The invariant. *)

\* What go/parser gives of a file.
LEMMA FileIs ==
    ASSUME file \in Files
    PROVE  /\ file.text \in Seq(Tokens)
           /\ file.name \in 1..Len(file.text)
           /\ file.text[file.name] = Token("package", 0)
           /\ file.contexts \in Names
           /\ file.runtimes \in Names
           /\ file.decls \in Seq(Decls)
           /\ file.loose \in Seq(Seq(Names))
           /\ DOMAIN file.text = 1..Len(file.text)
           /\ DOMAIN file.decls = 1..Len(file.decls)
           /\ Len(file.text) \in Nat
           /\ Len(file.decls) \in Nat
           /\ Len(file.loose) \in Nat
<1>1. /\ file \in [text : Seq(Tokens), name : Nat, contexts : Names, runtimes : Names,
                    decls : Seq(Decls), loose : Seq(Seq(Names))]
      /\ file.name \in 1..Len(file.text)
      /\ file.text[file.name] = Token("package", 0)
  BY FilesAssumption, Zenon
<1>2. /\ file.text \in Seq(Tokens)
      /\ file.contexts \in Names
      /\ file.runtimes \in Names
      /\ file.decls \in Seq(Decls)
      /\ file.loose \in Seq(Seq(Names))
  BY <1>1
<1>3. QED
  BY <1>1, <1>2

\* A gate's offset is that of the opening brace of its method.
LEMMA BraceIs ==
    ASSUME file \in Files, NEW i \in DOMAIN file.decls, file.decls[i].body
    PROVE  /\ After(file.decls[i]) \in 1..Len(file.text)
           /\ file.text[After(file.decls[i])] = Token("lbrace", i)
<1>1. /\ file.decls[i].lbrace \in file.name..(Len(file.text) - 1)
      /\ file.text[file.decls[i].lbrace + 1] = Token("lbrace", i)
  BY FilesAssumption, Zenon
<1>2. QED
  BY <1>1, FileIs DEF After

\* The sum of two naturals is one, no less than the first.
LEMMA NatSum ==
    ASSUME NEW a \in Nat, NEW b \in Nat
    PROVE  a + b \in Nat /\ a <= a + b
  OBVIOUS

\* The comment groups are the docs of the declarations and then the others.
LEMMA GroupsIs ==
    ASSUME file \in Files
    PROVE  /\ Len(Groups(file)) \in Nat
           /\ DOMAIN Groups(file) = 1..Len(Groups(file))
           /\ Len(file.decls) <= Len(Groups(file))
           /\ \A n \in DOMAIN Groups(file) :
                Groups(file)[n] =
                  IF n <= Len(file.decls) THEN Doc(n) ELSE Loose(n - Len(file.decls))
<1> DEFINE n == Len(file.decls) + Len(file.loose)
           g == Groups(file)
           G == {g[i] : i \in 1..n}
<1>1. n \in Nat /\ Len(file.decls) <= n
  <2>1. Len(file.decls) \in Nat /\ Len(file.loose) \in Nat
    BY FileIs, Zenon
  <2>2. QED
    BY <2>1, NatSum, Zenon
<1>2. /\ DOMAIN g = 1..n
      /\ \A i \in 1..n :
           g[i] = IF i <= Len(file.decls) THEN Doc(i) ELSE Loose(i - Len(file.decls))
      /\ g = [i \in 1..n |-> g[i]]
  BY Zenon DEF Groups
<1> HIDE DEF n, g
<1>3. g \in [1..n -> G]
  BY <1>2, Zenon
<1>4. g \in Seq(G)
  BY <1>1, <1>3, SeqDef
<1>5. Len(g) \in Nat /\ DOMAIN g = 1..Len(g)
  BY <1>4, LenProperties
<1>6. Len(g) = n
  BY <1>1, <1>2, <1>5
<1>7. QED
  BY <1>1, <1>2, <1>5, <1>6, Zenon DEF g

\* A comment group that is past the declarations is one of the others.
LEMMA LooseIs ==
    ASSUME file \in Files, NEW n \in DOMAIN Groups(file), ~(n <= Len(file.decls))
    PROVE  n - Len(file.decls) \in DOMAIN file.loose
<1>1. /\ Len(file.decls) \in Nat /\ Len(file.loose) \in Nat
      /\ DOMAIN file.loose = 1..Len(file.loose)
  BY FileIs
<1>2. n \in 1..(Len(file.decls) + Len(file.loose))
  BY Zenon DEF Groups
<1> DEFINE a == Len(file.decls)
           b == Len(file.loose)
<1>3. a \in Nat /\ b \in Nat /\ n \in 1..(a + b) /\ ~(n <= a)
  BY <1>1, <1>2
<1> HIDE DEF a, b
<1>4. n - a \in 1..b
  BY <1>3
<1>5. QED
  BY <1>1, <1>4 DEF a, b

\* What depends on the file alone stays.
LEMMA SameFile ==
    ASSUME file' = file
    PROVE  /\ \A i : HasTag(i)' <=> HasTag(i)
           /\ \A i : Gatable(i)' <=> Gatable(i)
           /\ \A i, l : GateAt(i, l)' = GateAt(i, l)
           /\ ImportAt' = ImportAt
           /\ Runtime' = Runtime
  BY DEF HasTag, Gatable, GateAt, ImportAt, Runtime

\* Nothing is placed before apply.
LEMMA Early ==
    ASSUME IInv, phase \notin Applying, todo' = todo, source' = source,
           phase' \notin Applying \/ splices' = {}, phase' # "splice", file' = file,
           phase' \in {"decls", "error"} => next' <= Len(file.decls) + 1
    PROVE  Stage' /\ Placed' /\ source' = <<>> /\ todo' = {}
<1>1. source = <<>> /\ todo = {}
  BY DEF IInv, Stage, Applying
<1>2. QED
  BY <1>1 DEF IInv, Stage, Placed, Applying

\* File starts with nothing scanned and nothing spliced.
THEOREM InitIInv == Init => IInv
<1> SUFFICES ASSUME Init PROVE IInv
  OBVIOUS
<1> USE DEF Init
<1>1. file \in Files /\ Seen = {} /\ SeenGroups = {} /\ Fits = {}
  BY DEF Seen, SeenGroups, Fits, Applying
<1>2. TypeOK
  BY <1>1, FileIs, GroupsIs DEF TypeOK
<1>3. Stage
  BY <1>1, FileIs DEF Stage, Applying
<1>4. Taken
  BY <1>1 DEF Taken
<1>5. Warned
  BY <1>1 DEF Warned
<1>6. Made
  BY <1>1, FS_EmptySet DEF Made
<1>7. Placed
  BY DEF Placed
<1>8. QED
  BY <1>2, <1>3, <1>4, <1>5, <1>6, <1>7 DEF IInv

\* What Declaration starts from.
LEMMA AtDeclaration ==
    ASSUME IInv, phase = "decls", next <= Len(file.decls)
    PROVE  /\ file \in Files
           /\ next \in DOMAIN file.decls /\ next \in Nat
           /\ Seen = 1..(next - 1) /\ next \notin Seen
           /\ SeenGroups = {} /\ Chosen = NoName
<1>1. file \in Files /\ next \in 1..(Len(Groups(file)) + 1)
  BY DEF IInv, Stage, TypeOK
<1>2. QED
  BY <1>1, FileIs, GroupsIs DEF Seen, SeenGroups, Chosen, Applying

\* One more declaration has been seen.
LEMMA Advanced ==
    ASSUME IInv, phase = "decls", next <= Len(file.decls), Advance
    PROVE  /\ Seen' = Seen \cup {next}
           /\ SeenGroups' = {} /\ Chosen' = NoName
           /\ Stage' /\ Placed'
           /\ next' \in 1..(Len(Groups(file)) + 1)
           /\ phase' = "decls" /\ file' = file /\ todo' = {} /\ source' = <<>>
           /\ Fits' = Fits \cup {i \in {next} : Gatable(i)}
<1>1. next \in Nat /\ next \in DOMAIN file.decls /\ Seen = 1..(next - 1) /\ file \in Files
  BY AtDeclaration
<1>2. phase' = "decls" /\ file' = file /\ next' = next + 1 /\ todo' = todo /\ source' = source
  BY DEF Advance
<1>3. Seen' = Seen \cup {next}
  BY <1>1, <1>2 DEF Seen
<1>4. SeenGroups' = {} /\ Chosen' = NoName
  BY <1>2 DEF SeenGroups, Chosen, Applying
<1>5. next' <= Len(file.decls) + 1
      /\ next' \in 1..(Len(Groups(file)) + 1)
  BY <1>1, <1>2, FileIs, GroupsIs
<1>6. Stage' /\ Placed' /\ todo' = {} /\ source' = <<>>
  BY <1>2, <1>5, Early DEF Applying
<1>7. \A i : Gatable(i)' <=> Gatable(i)
  BY <1>2, SameFile
<1>8. Fits' = Fits \cup {i \in {next} : Gatable(i)}
  BY <1>3, <1>7 DEF Fits
<1>9. QED
  BY <1>2, <1>3, <1>4, <1>5, <1>6, <1>8

\* What is in a comment group is a directive of the file.
LEMMA DirectiveIs ==
    ASSUME file \in Files, NEW n \in DOMAIN Groups(file),
           NEW k \in DOMAIN Directives(file, Groups(file)[n])
    PROVE  <<Groups(file)[n], k>> \in Directive(file)
<1> DEFINE g == Groups(file)[n]
<1>1. g \in ToSet(Groups(file))
  BY Zenon DEF ToSet
<1> HIDE DEF g
<1>2. <<g, k>> \in {<<g, j>> : j \in DOMAIN Directives(file, g)}
  BY Zenon DEF g
<1>3. <<g, k>> \in Directive(file)
  BY <1>1, <1>2, Zenon DEF Directive
<1>4. QED
  BY <1>3 DEF g

\* The doc of a declaration is a comment group, and its directives are the
\* declaration's own.
LEMMA DocIs ==
    ASSUME file \in Files, NEW i \in DOMAIN file.decls
    PROVE  /\ i \in DOMAIN Groups(file) /\ Groups(file)[i] = Doc(i)
           /\ Directives(file, Doc(i)) = file.decls[i].doc
           /\ HasTag(i) => <<Doc(i), 1>> \in Directive(file)
           /\ file.decls[i] \in Decls
<1>1. i \in DOMAIN Groups(file) /\ Groups(file)[i] = Doc(i)
  BY FileIs, GroupsIs
<1>2. Directives(file, Doc(i)) = file.decls[i].doc
  BY DEF Directives, Doc
<1>3. file.decls[i] \in Decls
  BY FileIs
<1>4. ASSUME HasTag(i)
      PROVE  <<Doc(i), 1>> \in Directive(file)
  <2>1. file.decls[i].doc \in Seq(Names) /\ file.decls[i].doc # <<>>
    BY <1>3, <1>4 DEF Decls, HasTag
  <2>2. 1 \in DOMAIN file.decls[i].doc
    BY <2>1
  <2>3. QED
    BY <1>1, <1>2, <2>2, DirectiveIs, Zenon
<1>5. QED
  BY <1>1, <1>2, <1>3, <1>4

\* Declaration, on one that is passed over.
LEMMA UntaggedKeeps ==
    ASSUME IInv, phase = "decls", next <= Len(file.decls), Untagged(file.decls[next])
    PROVE  IInv'
<1>1. /\ next \in DOMAIN file.decls
      /\ next \notin Seen
      /\ Chosen = NoName
  BY AtDeclaration
<1>2. /\ ~HasTag(next)
      /\ Advance
      /\ splices' = splices /\ tagged' = tagged /\ warnings' = warnings
  BY DEF Untagged, HasTag
<1>3. /\ Seen' = Seen \cup {next}
      /\ SeenGroups' = {} /\ Chosen' = NoName
      /\ Stage' /\ Placed'
      /\ next' \in 1..(Len(Groups(file)) + 1)
      /\ phase' = "decls" /\ file' = file /\ todo' = {} /\ source' = <<>>
      /\ Fits' = Fits \cup {i \in {next} : Gatable(i)}
  BY <1>2, Advanced
<1>4. Fits' = Fits
  BY <1>2, <1>3 DEF Gatable
<1>5. TypeOK'
  BY <1>2, <1>3 DEF IInv, TypeOK
<1>6. /\ \A i : HasTag(i)' <=> HasTag(i)
      /\ \A i : Gatable(i)' <=> Gatable(i)
      /\ \A i, l : GateAt(i, l)' = GateAt(i, l)
  BY <1>3, SameFile
<1>7. Taken'
  BY <1>1, <1>2, <1>3, <1>6 DEF IInv, Taken
<1>8. Warned'
  BY <1>1, <1>2, <1>3, <1>6 DEF IInv, Warned
<1>9. Made'
  BY <1>1, <1>2, <1>3, <1>4, <1>6 DEF IInv, Made, Applying
<1>10. QED
  BY <1>3, <1>5, <1>7, <1>8, <1>9 DEF IInv

\* The file fails.
LEMMA MalformedKeeps ==
    ASSUME IInv, phase = "decls", next <= Len(file.decls), Malformed(file.decls[next])
    PROVE  IInv'
<1>1. /\ file \in Files
      /\ next \in DOMAIN file.decls
      /\ Seen = 1..(next - 1) /\ next \in Nat
      /\ SeenGroups = {} /\ Chosen = NoName
  BY AtDeclaration
<1>2. /\ phase' = "error" /\ tagged' = tagged \cup {Doc(next)}
      /\ file' = file /\ next' = next /\ splices' = splices /\ todo' = todo
      /\ warnings' = warnings /\ source' = source
  BY DEF Malformed
<1>3. Seen' = Seen /\ SeenGroups' = {} /\ Chosen' = NoName
  BY <1>1, <1>2 DEF Seen, SeenGroups, Chosen, Applying
<1>4. /\ \A i : HasTag(i)' <=> HasTag(i)
      /\ \A i : Gatable(i)' <=> Gatable(i)
      /\ \A i, l : GateAt(i, l)' = GateAt(i, l)
  BY <1>2, SameFile
<1>5. Fits' = Fits
  BY <1>3, <1>4 DEF Fits
<1>6. next <= Len(file.decls) + 1
  BY <1>1, FileIs
<1>7. Stage' /\ Placed' /\ source' = <<>> /\ todo' = {}
  BY <1>2, <1>6, Early DEF Applying
<1>8. TypeOK'
  BY <1>1, <1>2, <1>7 DEF IInv, TypeOK
<1>9. Taken'
  BY <1>2 DEF Taken
<1>10. Warned'
  BY <1>2, <1>3, <1>4 DEF IInv, Warned
<1>11. Made'
  BY <1>1, <1>2, <1>3, <1>4, <1>5 DEF IInv, Made, Applying
<1>12. QED
  BY <1>7, <1>8, <1>9, <1>10, <1>11 DEF IInv

\* A directive that cannot be honoured.
LEMMA UnfittingKeeps ==
    ASSUME IInv, phase = "decls", next <= Len(file.decls), Unfitting(file.decls[next])
    PROVE  IInv'
<1>1. /\ file \in Files
      /\ next \in DOMAIN file.decls
      /\ next \notin Seen
      /\ Chosen = NoName
  BY AtDeclaration
<1>2. /\ HasTag(next) /\ ~Gatable(next) /\ Valid(file.decls[next].doc[1])
      /\ Advance
      /\ splices' = splices
      /\ tagged' = tagged \cup {Doc(next)}
      /\ warnings' = warnings \cup {<<Doc(next), 1>>}
  BY DEF Unfitting, Unfit, HasTag, Gatable
<1>3. /\ Seen' = Seen \cup {next}
      /\ SeenGroups' = {} /\ Chosen' = NoName
      /\ Stage' /\ Placed'
      /\ next' \in 1..(Len(Groups(file)) + 1)
      /\ phase' = "decls" /\ file' = file /\ todo' = {} /\ source' = <<>>
      /\ Fits' = Fits \cup {i \in {next} : Gatable(i)}
  BY <1>2, Advanced
<1>4. Fits' = Fits
  BY <1>2, <1>3
<1>5. TypeOK'
  <2>1. <<Doc(next), 1>> \in Directive(file)
    BY <1>1, <1>2, DocIs
  <2>2. QED
    BY <1>1, <1>2, <1>3, <2>1 DEF IInv, TypeOK
<1>6. /\ \A i : HasTag(i)' <=> HasTag(i)
      /\ \A i : Gatable(i)' <=> Gatable(i)
      /\ \A i, l : GateAt(i, l)' = GateAt(i, l)
  BY <1>3, SameFile
<1>7. \A i : Doc(i) = Doc(next) => i = next
  BY DEF Doc
<1>8. Taken'
  BY <1>1, <1>2, <1>3, <1>6, <1>7 DEF IInv, Taken
<1>9. Warned'
  BY <1>1, <1>2, <1>3, <1>6, <1>7 DEF IInv, Warned
<1>10. Made'
  BY <1>1, <1>2, <1>3, <1>4, <1>6 DEF IInv, Made, Applying
<1>11. QED
  BY <1>3, <1>5, <1>8, <1>9, <1>10 DEF IInv

\* A declaration gets its gate.
LEMMA GatedKeeps ==
    ASSUME IInv, phase = "decls", next <= Len(file.decls), Gated(file.decls[next])
    PROVE  IInv'
<1>1. /\ file \in Files
      /\ next \in DOMAIN file.decls
      /\ next \notin Seen
      /\ Chosen = NoName
  BY AtDeclaration
<1>2. /\ HasTag(next) /\ Gatable(next)
      /\ Valid(file.decls[next].doc[1]) /\ file.decls[next].body
      /\ Advance
      /\ splices' = splices \cup {GateAt(next, NoName)}
      /\ tagged' = tagged \cup {Doc(next)}
      /\ warnings' = warnings
  BY DEF Gated, Gate, GateAt, HasTag, Gatable
<1>3. /\ Seen' = Seen \cup {next}
      /\ SeenGroups' = {} /\ Chosen' = NoName
      /\ Stage' /\ Placed'
      /\ next' \in 1..(Len(Groups(file)) + 1)
      /\ phase' = "decls" /\ file' = file /\ todo' = {} /\ source' = <<>>
      /\ Fits' = Fits \cup {i \in {next} : Gatable(i)}
  BY <1>2, Advanced
<1>4. Fits' = Fits \cup {next}
  BY <1>2, <1>3
<1>5. TypeOK'
  <2>1. GateAt(next, NoName).offset = After(file.decls[next])
    BY DEF GateAt
  <2>2. /\ After(file.decls[next]) \in 1..Len(file.text)
        /\ file.text[After(file.decls[next])].kind = "lbrace"
    <3>1. Token("lbrace", next).kind = "lbrace"
      BY DEF Token
    <3>2. /\ After(file.decls[next]) \in 1..Len(file.text)
          /\ file.text[After(file.decls[next])] = Token("lbrace", next)
      BY <1>1, <1>2, BraceIs, Zenon
    <3>3. QED
      BY <3>1, <3>2, Zenon
  <2>3. ASSUME NEW t \in splices'
        PROVE  /\ t.offset \in 1..Len(file.text)
               /\ file.text[t.offset].kind \in {"package", "lbrace"}
    BY <1>2, <2>1, <2>2 DEF IInv, TypeOK
  <2>4. tagged' \subseteq {Doc(i) : i \in DOMAIN file.decls} /\ warnings \subseteq Directive(file)
    BY <1>1, <1>2 DEF IInv, TypeOK
  <2>5. QED
    BY <1>2, <1>3, <2>3, <2>4 DEF TypeOK
<1>6. /\ \A i : HasTag(i)' <=> HasTag(i)
      /\ \A i : Gatable(i)' <=> Gatable(i)
      /\ \A i, l : GateAt(i, l)' = GateAt(i, l)
  BY <1>3, SameFile
<1>7. \A i : Doc(i) = Doc(next) => i = next
  BY DEF Doc
<1>8. Taken'
  BY <1>1, <1>2, <1>3, <1>6, <1>7 DEF IInv, Taken
<1>9. Warned'
  BY <1>1, <1>2, <1>3, <1>6 DEF IInv, Warned
<1>10. Made'
  <2>1. IsFiniteSet(splices')
    BY <1>2, FS_AddElement DEF IInv, Made
  <2>2. QED
    BY <1>1, <1>2, <1>3, <1>4, <1>6, <2>1 DEF IInv, Made, Applying
<1>11. QED
  BY <1>3, <1>5, <1>8, <1>9, <1>10 DEF IInv

\* The declarations have all been seen.
LEMMA CommentsKeeps ==
    ASSUME IInv, Comments
    PROVE  IInv'
<1>1. /\ phase = "decls" /\ next > Len(file.decls) /\ phase' = "comments" /\ next' = 1
      /\ file' = file /\ splices' = splices /\ todo' = todo /\ tagged' = tagged
      /\ warnings' = warnings /\ source' = source
  BY DEF Comments
<1>2. /\ file \in Files
      /\ next \in Nat /\ next <= Len(file.decls) + 1
      /\ Len(file.decls) \in Nat /\ DOMAIN file.decls = 1..Len(file.decls)
      /\ Len(Groups(file)) \in Nat
  <2>1. file \in Files /\ next \in 1..(Len(Groups(file)) + 1) /\ next <= Len(file.decls) + 1
    BY <1>1 DEF IInv, Stage, TypeOK
  <2>2. QED
    BY <2>1, FileIs, GroupsIs
<1>3. Seen' = Seen /\ SeenGroups' = {} /\ Chosen' = Chosen
  <2>1. next = Len(file.decls) + 1
    BY <1>1, <1>2
  <2>2. QED
    BY <1>1, <1>2, <2>1 DEF Seen, SeenGroups, Chosen, Applying
<1>4. /\ \A i : HasTag(i)' <=> HasTag(i)
      /\ \A i : Gatable(i)' <=> Gatable(i)
      /\ \A i, l : GateAt(i, l)' = GateAt(i, l)
  BY <1>1, SameFile
<1>5. Fits' = Fits
  BY <1>3, <1>4 DEF Fits
<1>6. Stage' /\ Placed' /\ source' = <<>> /\ todo' = {}
  BY <1>1, Early DEF Applying
<1>7. TypeOK'
  <2>1. next' \in 1..(Len(Groups(file)) + 1)
    BY <1>1, <1>2
  <2>2. QED
    BY <1>1, <1>6, <2>1 DEF IInv, TypeOK
<1>8. Taken'
  BY <1>1, <1>3, <1>4 DEF IInv, Taken
<1>9. Warned'
  BY <1>1, <1>3, <1>4 DEF IInv, Warned
<1>10. Made'
  BY <1>1, <1>3, <1>4, <1>5 DEF IInv, Made, Applying
<1>11. QED
  BY <1>6, <1>7, <1>8, <1>9, <1>10 DEF IInv

\* A group that no declaration took gets a warning for each directive.
LEMMA CommentGroupKeeps ==
    ASSUME IInv, CommentGroup
    PROVE  IInv'
<1> DEFINE g == Groups(file)[next]
           new == IF g \in tagged THEN {} ELSE {<<g, k>> : k \in DOMAIN Directives(file, g)}
<1>1. /\ phase = "comments" /\ next <= Len(Groups(file))
      /\ next' = next + 1 /\ phase' = phase
      /\ file' = file /\ splices' = splices /\ todo' = todo /\ tagged' = tagged
      /\ warnings' = warnings \cup new /\ source' = source
  BY DEF CommentGroup
<1>2. /\ file \in Files
      /\ next \in Nat /\ next \in DOMAIN Groups(file)
      /\ Len(Groups(file)) \in Nat
  <2>1. file \in Files /\ next \in 1..(Len(Groups(file)) + 1)
    BY DEF IInv, Stage, TypeOK
  <2>2. QED
    BY <1>1, <2>1, GroupsIs
<1>3. /\ Seen' = Seen /\ Seen = DOMAIN file.decls
      /\ SeenGroups' = SeenGroups \cup {next} /\ Chosen' = Chosen
  BY <1>1, <1>2 DEF Seen, SeenGroups, Chosen, Applying
<1>4. /\ \A i : HasTag(i)' <=> HasTag(i)
      /\ \A i : Gatable(i)' <=> Gatable(i)
      /\ \A i, l : GateAt(i, l)' = GateAt(i, l)
  BY <1>1, SameFile
<1>5. Fits' = Fits
  BY <1>3, <1>4 DEF Fits
<1>6. Stage' /\ Placed' /\ source' = <<>> /\ todo' = {}
  BY <1>1, Early DEF Applying
<1>7. new \subseteq Directive(file)
  BY <1>2, DirectiveIs
<1>8. \A x \in new : x[1] = g /\ g \notin tagged
  OBVIOUS
<1>9. g \notin tagged /\ Directives(file, g) # <<>> => <<g, 1>> \in new
  <2>1. Directives(file, g) \in Seq(Names)
    <3>1. CASE next <= Len(file.decls)
      <4>1. next \in DOMAIN file.decls
        BY <1>2, <3>1, FileIs
      <4>2. g = Doc(next) /\ Directives(file, Doc(next)) = file.decls[next].doc
            /\ file.decls[next] \in Decls
        BY <1>2, <4>1, DocIs
      <4>3. QED
        BY <4>2 DEF Decls
    <3>2. CASE ~(next <= Len(file.decls))
      <4>1. g = Loose(next - Len(file.decls))
        BY <1>2, <3>2, GroupsIs
      <4>2. Directives(file, g) = file.loose[next - Len(file.decls)]
        BY <4>1 DEF Directives, Loose
      <4>3. next - Len(file.decls) \in DOMAIN file.loose
        BY <1>2, <3>2, LooseIs
      <4>4. QED
        BY <1>2, <4>2, <4>3, FileIs
    <3>3. QED
      BY <3>1, <3>2
  <2>2. Directives(file, g) # <<>> => 1 \in DOMAIN Directives(file, g)
    BY <2>1
  <2> HIDE DEF g
  <2>3. QED
    BY <2>2
<1> HIDE DEF new, g
<1>10. TypeOK'
  <2>1. next' \in 1..(Len(Groups(file)) + 1)
    BY <1>1, <1>2
  <2>2. QED
    BY <1>1, <1>6, <1>7, <2>1 DEF IInv, TypeOK
<1>11. Taken'
  BY <1>1, <1>3, <1>4 DEF IInv, Taken
<1>12. Warned'
  <2>1. \A i \in Seen : HasTag(i) => (<<Doc(i), 1>> \in warnings' <=> ~Gatable(i))
    <3>1. TAKE i \in Seen
    <3>2. HAVE HasTag(i)
    <3>3. Doc(i) \in tagged
      BY <1>1, <1>3, <3>2 DEF IInv, Taken
    <3>4. <<Doc(i), 1>> \notin new
      <4>1. <<Doc(i), 1>>[1] = Doc(i)
        OBVIOUS
      <4>2. QED
        BY <1>8, <3>3, <4>1
    <3>5. QED
      BY <1>1, <3>2, <3>4 DEF IInv, Warned
  <2>2. \A n \in SeenGroups \cup {next} :
          Groups(file)[n] \notin tagged /\ Directives(file, Groups(file)[n]) # <<>>
            => <<Groups(file)[n], 1>> \in warnings'
    BY <1>1, <1>9 DEF IInv, Warned, g
  <2>3. QED
    BY <1>1, <1>3, <1>4, <2>1, <2>2 DEF Warned
<1>13. Made'
  BY <1>1, <1>3, <1>4, <1>5 DEF IInv, Made, Applying
<1>14. QED
  BY <1>6, <1>10, <1>11, <1>12, <1>13 DEF IInv

\* A file without a splice ends with no source.
LEMMA NothingKeeps ==
    ASSUME IInv, Nothing
    PROVE  IInv'
<1>1. /\ phase = "comments" /\ next > Len(Groups(file)) /\ splices = {}
      /\ phase' = "done" /\ next' = next
      /\ file' = file /\ splices' = splices /\ todo' = todo /\ tagged' = tagged
      /\ warnings' = warnings /\ source' = source
  BY DEF Nothing
<1>2. /\ file \in Files
      /\ next \in Nat /\ DOMAIN Groups(file) = 1..Len(Groups(file))
      /\ Len(Groups(file)) \in Nat
  <2>1. file \in Files /\ next \in 1..(Len(Groups(file)) + 1)
    BY DEF IInv, Stage, TypeOK
  <2>2. QED
    BY <2>1, GroupsIs
<1>3. Seen' = Seen /\ SeenGroups' \subseteq SeenGroups
  BY <1>1, <1>2 DEF Seen, SeenGroups, Applying
<1>4. /\ \A i : HasTag(i)' <=> HasTag(i)
      /\ \A i : Gatable(i)' <=> Gatable(i)
  BY <1>1, SameFile
<1>5. Fits' = Fits
  BY <1>3, <1>4 DEF Fits
<1>6. Stage' /\ Placed' /\ source' = <<>> /\ todo' = {}
  BY <1>1, Early DEF Applying
<1>7. TypeOK'
  BY <1>1, <1>6 DEF IInv, TypeOK
<1>8. Taken'
  BY <1>1, <1>3, <1>4 DEF IInv, Taken
<1>9. Warned'
  BY <1>1, <1>3, <1>4 DEF IInv, Warned
<1>10. Made'
  BY <1>1, <1>5 DEF IInv, Made
<1>11. QED
  BY <1>6, <1>7, <1>8, <1>9, <1>10 DEF IInv

\* What the splices are, by the text they go behind.
LEMMA SpliceIs ==
    ASSUME IInv, NEW s \in splices
    PROVE  /\ s.offset \in 1..Len(file.text) /\ s.offset \in Nat
           /\ \/ s.token.kind = "gate" /\ file.text[s.offset] = Token("lbrace", s.token.decl)
              \/ s.token.kind = "import" /\ file.text[s.offset] = Token("package", 0)
<1>1. file \in Files /\ Seen \subseteq DOMAIN file.decls
  <2>1. file \in Files
    BY DEF IInv, Stage
  <2>2. next \in Nat /\ (phase \in {"decls", "error"} => next <= Len(file.decls) + 1)
    <3>1. next \in 1..(Len(Groups(file)) + 1)
      BY DEF IInv, TypeOK
    <3>2. next \in Nat
      BY <2>1, <3>1, GroupsIs
    <3>3. QED
      BY <3>2 DEF IInv, Stage
  <2>3. DOMAIN file.decls = 1..Len(file.decls) /\ Len(file.decls) \in Nat
    BY <2>1, FileIs
  <2>4. CASE phase \in {"decls", "error"}
    <3>1. Seen = 1..(next - 1)
      BY <2>4, Zenon DEF Seen
    <3>2. \A i \in 1..(next - 1) : i \in 1..Len(file.decls)
      BY <2>2, <2>3, <2>4
    <3>3. QED
      BY <2>1, <2>3, <3>1, <3>2, Zenon
  <2>5. CASE phase \notin {"decls", "error"}
    BY <2>1, <2>5, Zenon DEF Seen
  <2>6. QED
    BY <2>4, <2>5, Zenon
<1>2. CASE \E i \in Fits : s = GateAt(i, Chosen)
  <2>1. PICK i \in Fits : s = GateAt(i, Chosen)
    BY <1>2
  <2>2. i \in DOMAIN file.decls /\ file.decls[i].body
    BY <1>1 DEF Fits, Gatable
  <2>3. s.offset = After(file.decls[i]) /\ s.token.kind = "gate" /\ s.token.decl = i
    BY <2>1 DEF GateAt
  <2>4. /\ After(file.decls[i]) \in 1..Len(file.text)
        /\ file.text[After(file.decls[i])] = Token("lbrace", i)
    BY <1>1, <2>2, BraceIs, Zenon
  <2>5. QED
    BY <1>1, <2>3, <2>4, FileIs
<1>3. CASE s = ImportAt
  <2>1. s.offset = file.name /\ s.token.kind = "import"
    BY <1>3 DEF ImportAt, Import
  <2>2. QED
    BY <1>1, <2>1, FileIs
<1>4. QED
  BY <1>2, <1>3 DEF IInv, Made

\* The gates and the import are set, and apply begins.
LEMMA ResolveKeeps ==
    ASSUME IInv, Resolve
    PROVE  IInv'
<1> DEFINE named == {Named(s, Runtime) : s \in splices}
           import == IF Local(file) = NoName THEN {ImportAt} ELSE {}
<1>1. /\ phase = "comments" /\ next > Len(Groups(file)) /\ splices # {}
      /\ phase' = "splice" /\ next' = next /\ file' = file
      /\ splices' = named \cup import
      /\ todo' = splices' /\ source' = file.text
      /\ tagged' = tagged /\ warnings' = warnings
  BY Zenon DEF Resolve, Runtime, ImportAt
<1>2. /\ file \in Files
      /\ next \in Nat /\ DOMAIN Groups(file) = 1..Len(Groups(file))
      /\ Len(Groups(file)) \in Nat
  <2>1. file \in Files /\ next \in 1..(Len(Groups(file)) + 1)
    BY DEF IInv, Stage, TypeOK
  <2>2. QED
    BY <2>1, GroupsIs
<1>3. /\ Seen' = Seen /\ SeenGroups' \subseteq SeenGroups
      /\ Chosen = NoName /\ Chosen' = Runtime
      /\ phase' \in Applying /\ phase \notin Applying
  BY <1>1, <1>2, SameFile DEF Seen, SeenGroups, Chosen, Applying
<1>4. /\ \A i : HasTag(i)' <=> HasTag(i)
      /\ \A i : Gatable(i)' <=> Gatable(i)
      /\ \A i, l : GateAt(i, l)' = GateAt(i, l)
      /\ ImportAt' = ImportAt
  BY <1>1, SameFile
<1>5. Fits' = Fits
  BY <1>3, <1>4 DEF Fits
<1>6. /\ \A i \in Fits : Named(GateAt(i, NoName), Runtime) = GateAt(i, Runtime)
      /\ \A s \in splices : \E i \in Fits : s = GateAt(i, NoName)
      /\ \A i \in Fits : GateAt(i, NoName) \in splices
  <2>1. ASSUME NEW i \in Fits
        PROVE  Named(GateAt(i, NoName), Runtime) = GateAt(i, Runtime)
    BY DEF Named, GateAt
  <2>2. QED
    BY <1>3, <2>1 DEF IInv, Made
<1>7. Made'
  <2>1. IsFiniteSet(splices')
    <3> DEFINE f == [s \in splices |-> Named(s, Runtime)]
    <3>1. f \in Surjection(splices, named)
      BY Zenon DEF Surjection
    <3>2. IsFiniteSet(splices)
      BY DEF IInv, Made
    <3> HIDE DEF f, named
    <3>3. IsFiniteSet(named)
      BY <3>1, <3>2, FS_Surjection
    <3>4. CASE Local(file) = NoName
      <4>1. splices' = named \cup {ImportAt}
        BY <1>1, <3>4
      <4>2. QED
        BY <3>3, <4>1, FS_AddElement
    <3>5. CASE Local(file) # NoName
      BY <1>1, <3>3, <3>5
    <3>6. QED
      BY <3>4, <3>5
  <2>2. \A i \in Fits : GateAt(i, Runtime) \in named
    BY <1>6
  <2>3. \A s \in named : \E i \in Fits : s = GateAt(i, Runtime)
    BY <1>6
  <2>4. Local(file)' = Local(file)
    BY <1>1
  <2> HIDE DEF named
  <2>5. QED
    BY <1>1, <1>3, <1>4, <1>5, <2>1, <2>2, <2>3, <2>4 DEF Made
<1>8. splices' # {} /\ source' # <<>>
  <2>1. splices' # {}
    BY <1>1
  <2>2. file.text # <<>>
    BY <1>2, FileIs
  <2>3. QED
    BY <1>1, <2>1, <2>2
<1> HIDE DEF named, import
<1>9. Stage'
  BY <1>1, <1>2, <1>3, <1>8 DEF Stage
<1>10. Taken'
  BY <1>1, <1>3, <1>4 DEF IInv, Taken
<1>11. Warned'
  BY <1>1, <1>3, <1>4 DEF IInv, Warned
<1>12. TypeOK'
  <2>1. ASSUME NEW s \in splices'
        PROVE  /\ s.offset \in 1..Len(file.text)
               /\ file.text[s.offset].kind \in {"package", "lbrace"}
    <3>1. CASE \E i \in Fits : s = GateAt(i, Runtime)
      <4>1. PICK i \in Fits : s = GateAt(i, Runtime)
        BY <3>1
      <4>2. GateAt(i, NoName) \in splices
        BY <1>6
      <4>3. s.offset = GateAt(i, NoName).offset
        BY <4>1 DEF GateAt
      <4>4. QED
        BY <4>2, <4>3 DEF IInv, TypeOK
    <3>2. CASE s = ImportAt
      <4>1. s.offset = file.name
        BY <3>2 DEF ImportAt
      <4>2. Token("package", 0).kind = "package"
        BY DEF Token
      <4>3. file.name \in 1..Len(file.text) /\ file.text[file.name] = Token("package", 0)
        BY <1>2, FileIs, Zenon
      <4>4. QED
        BY <4>1, <4>2, <4>3
    <3>3. QED
      BY <1>3, <1>4, <1>5, <1>7, <3>1, <3>2 DEF Made
  <2>2. QED
    BY <1>1, <2>1 DEF IInv, TypeOK
<1>13. Placed'
  <2>1. Applied' = {}
    BY <1>1 DEF Applied
  <2>2. \A k : Past({}, k) = 0
    BY FS_EmptySet DEF Past
  <2>3. \A k : Past(Applied', k) = 0
    BY <2>1, <2>2
  <2>4. file.text \in Seq(Things') /\ DOMAIN file.text \subseteq Nat
    BY <1>2, FileIs DEF Things
  <2>5. \A k \in DOMAIN file.text : file.text[k].kind \notin {"gate", "import"}
    <3>1. ASSUME NEW k \in DOMAIN file.text
          PROVE  file.text[k].kind \notin {"gate", "import"}
      <4>1. file.text[k] \in Tokens
        BY <1>2, FileIs, ElementOfSeq
      <4>2. QED
        BY <4>1 DEF Tokens
    <3>2. QED
      BY <3>1
  <2>6. Cardinality(Applied') = 0 /\ Len(file.text) \in Nat
    BY <1>2, <2>1, FS_EmptySet, FileIs
  <2>7. \A k \in DOMAIN file.text : k + 0 = k
    BY <2>4
  <2>8. \A k \in DOMAIN file.text : file.text[k + Past(Applied', k)] = file.text[k]
    BY <2>3, <2>7
  <2>9. Len(file.text) = Len(file.text) + Cardinality(Applied')
    BY <2>6
  <2>10. Laid(file.text, Applied', file.text)
    BY <2>1, <2>5, <2>8, <2>9 DEF Laid
  <2>11. QED
    BY <1>1, <2>1, <2>4, <2>10 DEF Placed
<1>14. QED
  BY <1>7, <1>9, <1>10, <1>11, <1>12, <1>13 DEF IInv

\* One splice is made: it is before those that were, so that none of the text
\* before it has moved, and all behind it moves by one.
LEMMA OneSplice ==
    ASSUME NEW T, NEW text, Len(text) \in Nat, DOMAIN text = 1..Len(text),
           \A k \in DOMAIN text : text[k].kind \notin {"gate", "import"},
           NEW S, IsFiniteSet(S), NEW s, s \notin S, s.token \in T,
           s.offset \in 1..Len(text), Follows(s.token, text[s.offset]),
           \A t \in S : t.offset \in 1..Len(text) /\ s.offset < t.offset,
           NEW src \in Seq(T), Laid(text, S, src)
    PROVE  /\ InsertAt(src, s.offset + 1, s.token) \in Seq(T)
           /\ InsertAt(src, s.offset + 1, s.token) # <<>>
           /\ Laid(text, S \cup {s}, InsertAt(src, s.offset + 1, s.token))
<1>a. PICK n \in Nat : n = Len(text)
  OBVIOUS
<1>b. PICK c \in Nat : c = Cardinality(S)
  BY FS_CardinalityType
<1>c. PICK o \in 1..n : o = s.offset
  BY <1>a
<1>d. PICK dst : dst = InsertAt(src, s.offset + 1, s.token)
  OBVIOUS
<1>e. PICK S1 : S1 = S \cup {s}
  OBVIOUS
<1>f. Len(src) = n + c /\ DOMAIN src = 1..(n + c)
  BY <1>a, <1>b, LenProperties DEF Laid
<1>g. /\ dst \in Seq(T)
      /\ Len(dst) = n + c + 1
      /\ \A k \in 1..(n + c + 1) :
           dst[k] = IF k < o + 1 THEN src[k] ELSE IF k = o + 1 THEN s.token ELSE src[k - 1]
  <2>1. o + 1 \in 1..(Len(src) + 1)
    BY <1>f
  <2>2. PICK i \in 1..(Len(src) + 1) : i = o + 1
    BY <2>1, Zenon
  <2>3. PICK e \in T : e = s.token
    BY Zenon
  <2>4. /\ InsertAt(src, i, e) \in Seq(T)
        /\ Len(InsertAt(src, i, e)) = Len(src) + 1
        /\ \A k \in 1..(Len(src) + 1) :
             InsertAt(src, i, e)[k] =
               IF k < i THEN src[k] ELSE IF k = i THEN e ELSE src[k - 1]
    BY InsertAtIs
  <2>5. InsertAt(src, i, e) = dst
    BY <1>c, <1>d, <2>2, <2>3, Zenon
  <2>6. QED
    BY <1>f, <2>2, <2>3, <2>4, <2>5, Zenon
<1>h. DOMAIN dst = 1..(n + c + 1) /\ dst # <<>>
  BY <1>g, LenProperties
<1>i. /\ DOMAIN text = 1..n
      /\ Follows(s.token, text[o])
      /\ \A t \in S : t.offset \in 1..n /\ o < t.offset
  BY <1>a, <1>c, Zenon
<1>j. /\ \A k \in DOMAIN text : src[k + Past(S, k)] = text[k]
      /\ \A t \in S : src[t.offset + Past(S, t.offset) + 1] = t.token
      /\ \A k \in DOMAIN src : src[k].kind \in {"gate", "import"} =>
           /\ k > 1
           /\ Follows(src[k], src[k - 1])
           /\ \E t \in S : src[k] = t.token
  BY Zenon DEF Laid
<1>1. \A k \in Nat : k <= o + 1 => Past(S, k) = 0
  <2>1. TAKE k \in Nat
  <2>2. HAVE k <= o + 1
  <2>3. s.offset \in Nat /\ \A t \in S : t.offset \in Nat /\ s.offset < t.offset
    OBVIOUS
  <2>4. QED
    BY <1>c, <2>2, <2>3, PastAdd, Zenon
<1>2. \A k \in Nat : Past(S1, k) = IF k <= o THEN 0 ELSE Past(S, k) + 1
  <2>1. TAKE k \in Nat
  <2>2. s.offset \in Nat /\ \A t \in S : t.offset \in Nat /\ s.offset < t.offset
    OBVIOUS
  <2>3. Past(S \cup {s}, k) = IF k <= s.offset THEN 0 ELSE Past(S, k) + 1
    BY <2>2, PastAdd, Zenon
  <2>4. QED
    BY <1>c, <1>e, <2>3, Zenon
<1>3. \A k \in Nat : Past(S, k) \in 0..c
  BY <1>b, PastIs
<1>4. ASSUME NEW k \in DOMAIN text
      PROVE  dst[k + Past(S1, k)] = text[k]
  <2>1. k \in 1..n /\ k \in Nat
    BY <1>i
  <2>2. PICK p \in 0..c : p = Past(S, k)
    BY <1>3, <2>1, Zenon
  <2>3. src[k + p] = text[k]
    BY <1>j, <2>2, Zenon
  <2>4. CASE k <= o
    <3>1. k <= o + 1 /\ k + 0 = k /\ k \in 1..(n + c + 1) /\ k < o + 1
      BY <2>1, <2>4
    <3>2. Past(S1, k) = 0 /\ p = 0
      BY <1>1, <1>2, <2>1, <2>2, <2>4, <3>1, Zenon
    <3>3. dst[k] = src[k]
      BY <1>g, <3>1, Zenon
    <3>4. QED
      BY <2>3, <3>1, <3>2, <3>3, Zenon
  <2>5. CASE ~(k <= o)
    <3>1. Past(S1, k) = p + 1
      BY <1>2, <2>1, <2>2, <2>5, Zenon
    <3>2. k + (p + 1) \in 1..(n + c + 1) /\ ~(k + (p + 1) < o + 1) /\ k + (p + 1) # o + 1
          /\ k + (p + 1) - 1 = k + p
      BY <2>1, <2>5
    <3>3. dst[k + (p + 1)] = src[k + p]
      <4>1. PICK i \in 1..(n + c + 1) : i = k + (p + 1)
        BY <3>2, Zenon
      <4>2. dst[i] = src[i - 1]
        BY <1>g, <3>2, <4>1, Zenon
      <4>3. PICK j \in Int : j = k + p /\ i - 1 = j
        BY <2>1, <4>1
      <4>4. QED
        BY <4>1, <4>2, <4>3, Zenon
    <3>4. QED
      BY <2>3, <3>1, <3>3, Zenon
  <2>6. QED
    BY <2>4, <2>5
<1>5. ASSUME NEW t \in S1
      PROVE  dst[t.offset + Past(S1, t.offset) + 1] = t.token
  <2>1. CASE t = s
    <3>1. o \in Nat /\ o <= o /\ o + 0 + 1 = o + 1
          /\ o + 1 \in 1..(n + c + 1) /\ ~(o + 1 < o + 1)
      OBVIOUS
    <3>2. Past(S1, o) = 0
      BY <1>2, <3>1, Zenon
    <3>3. dst[o + 1] = s.token
      BY <1>g, <3>1, Zenon
    <3>4. QED
      BY <1>c, <2>1, <3>1, <3>2, <3>3, Zenon
  <2>2. CASE t \in S
    <3>1. PICK q \in 1..n : q = t.offset /\ o < q
      BY <1>i, <2>2, Zenon
    <3>2. q \in Nat /\ ~(q <= o)
      BY <3>1
    <3>3. PICK p \in 0..c : p = Past(S, q)
      BY <1>3, <3>2, Zenon
    <3>4. Past(S1, q) = p + 1
      BY <1>2, <3>2, <3>3, Zenon
    <3>5. src[q + p + 1] = t.token
      BY <1>j, <2>2, <3>1, <3>3, Zenon
    <3>6. p < c
      <4>1. {u \in S : u.offset < q} \in SUBSET S
        OBVIOUS
      <4>2. ~(q < q)
        BY <3>2
      <4>3. t \notin {u \in S : u.offset < q}
        BY <3>1, <4>2, Zenon
      <4>4. Cardinality({u \in S : u.offset < q}) # Cardinality(S)
        BY <2>2, <4>1, <4>3, FS_Subset, Zenon
      <4>5. p # c
        BY <1>b, <3>3, <4>4, Zenon DEF Past
      <4>6. QED
        BY <4>5
    <3>7. /\ q + (p + 1) + 1 \in 1..(n + c + 1)
          /\ ~(q + (p + 1) + 1 < o + 1) /\ q + (p + 1) + 1 # o + 1
          /\ q + (p + 1) + 1 - 1 = q + p + 1
      BY <3>1, <3>6
    <3>8. dst[q + (p + 1) + 1] = src[q + p + 1]
      <4>1. PICK i \in 1..(n + c + 1) : i = q + (p + 1) + 1
        BY <3>7, Zenon
      <4>2. dst[i] = src[i - 1]
        BY <1>g, <3>7, <4>1, Zenon
      <4>3. PICK j \in Int : j = q + p + 1 /\ i - 1 = j
        BY <4>1
      <4>4. QED
        BY <4>1, <4>2, <4>3, Zenon
    <3>9. QED
      BY <3>1, <3>4, <3>5, <3>8, Zenon
  <2>3. QED
    BY <1>e, <2>1, <2>2, Zenon
<1>6. ASSUME NEW k \in DOMAIN dst, dst[k].kind \in {"gate", "import"}
      PROVE  k > 1 /\ Follows(dst[k], dst[k - 1]) /\ \E t \in S1 : dst[k] = t.token
  <2>1. k \in 1..(n + c + 1)
    BY <1>h, Zenon
  <2>2. CASE k < o + 1
    <3>1. k \in 1..(n + c)
      BY <2>1, <2>2
    <3>2. dst[k] = src[k]
      BY <1>g, <2>1, <2>2, Zenon
    <3>3. k > 1 /\ Follows(src[k], src[k - 1]) /\ \E t \in S : src[k] = t.token
      BY <1>6, <1>f, <1>j, <3>1, <3>2, Zenon
    <3>4. k - 1 \in 1..(n + c + 1) /\ k - 1 < o + 1
      BY <2>1, <2>2, <3>3
    <3>5. dst[k - 1] = src[k - 1]
      BY <1>g, <3>4, Zenon
    <3>6. QED
      BY <1>e, <3>2, <3>3, <3>5, Zenon
  <2>3. CASE k = o + 1
    <3>1. o \in Nat /\ o <= o + 1 /\ o + 0 = o /\ k - 1 = o /\ k > 1
          /\ o \in 1..(n + c + 1) /\ o < o + 1 /\ ~(k < o + 1)
      BY <2>3
    <3>2. dst[k] = s.token
      BY <1>g, <2>1, <2>3, <3>1, Zenon
    <3>3. dst[o] = src[o]
      BY <1>g, <3>1, Zenon
    <3>4. src[o] = text[o]
      <4>1. Past(S, o) = 0
        BY <1>1, <3>1, Zenon
      <4>2. o \in DOMAIN text
        BY <1>i
      <4>3. QED
        BY <1>j, <3>1, <4>1, <4>2, Zenon
    <3>5. QED
      BY <1>e, <1>i, <3>1, <3>2, <3>3, <3>4, Zenon
  <2>4. CASE k > o + 1
    <3>1. k - 1 \in 1..(n + c) /\ ~(k < o + 1) /\ k # o + 1 /\ k > 1
      BY <2>1, <2>4
    <3>2. dst[k] = src[k - 1]
      BY <1>g, <2>1, <3>1, Zenon
    <3>3. /\ k - 1 > 1
          /\ Follows(src[k - 1], src[k - 1 - 1])
          /\ \E t \in S : src[k - 1] = t.token
      BY <1>6, <1>f, <1>j, <3>1, <3>2, Zenon
    <3>4. k - 1 # o + 1
      <4>1. SUFFICES ASSUME k - 1 = o + 1 PROVE FALSE
        OBVIOUS
      <4>2. PICK t \in S : src[k - 1] = t.token
        BY <3>3, Zenon
      <4>3. PICK q \in 1..n : o < q
        BY <1>i, <4>2, Zenon
      <4>4. o + 1 \in 1..n /\ o + 1 \in Nat /\ o + 1 + 0 = o + 1 /\ o + 1 <= o + 1
        BY <4>3
      <4>5. Past(S, o + 1) = 0
        BY <1>1, <4>4, Zenon
      <4>6. src[o + 1] = text[o + 1] /\ o + 1 \in DOMAIN text
        BY <1>i, <1>j, <4>4, <4>5, Zenon
      <4>7. QED
        BY <1>6, <3>2, <4>1, <4>6, Zenon
    <3>5. k - 1 \in 1..(n + c + 1) /\ ~(k - 1 < o + 1)
      BY <2>1, <2>4
    <3>6. dst[k - 1] = src[k - 1 - 1]
      BY <1>g, <3>4, <3>5, Zenon
    <3>7. QED
      BY <1>e, <3>1, <3>2, <3>3, <3>6, Zenon
  <2>5. QED
    BY <2>1, <2>2, <2>3, <2>4
<1>7. Len(dst) = Len(text) + Cardinality(S1)
  <2>1. Cardinality(S1) = c + 1
    BY <1>b, <1>e, FS_AddElement
  <2>2. n + c + 1 = n + (c + 1)
    OBVIOUS
  <2>3. QED
    BY <1>a, <1>g, <2>1, <2>2, Zenon
<1>8. Laid(text, S1, dst)
  BY <1>4, <1>5, <1>6, <1>7, Zenon DEF Laid
<1>9. QED
  BY <1>8, <1>d, <1>e, <1>g, <1>h, Zenon

\* A splice, made in the order of apply, leaves those already made, and the
\* user's text, where they belong.
LEMMA SplicePlaced ==
    ASSUME IInv, phase = "splice", NEW s \in todo,
           \A t \in todo \ {s} : Before(s, t),
           source' = InsertAt(source, s.offset + 1, s.token),
           todo' = todo \ {s}, splices' = splices, file' = file
    PROVE  Placed' /\ source' # <<>>
<1>1. /\ file \in Files /\ todo \subseteq splices /\ IsFiniteSet(splices) /\ source # <<>>
  BY DEF IInv, Stage, TypeOK, Made, Applying
<1>2. /\ Applied' = Applied \cup {s} /\ s \notin Applied /\ IsFiniteSet(Applied)
      /\ s \in splices /\ Applied \subseteq splices
  BY <1>1, FS_Subset DEF Applied
<1>3. \A t \in splices : t.offset \in 1..Len(file.text) /\ t.offset \in Nat
  BY SpliceIs
<1>4. \A t \in Applied : s.offset < t.offset
  BY <1>1, <1>2, <1>3 DEF IInv, Placed, Before
<1>5. source \in Seq(Things) /\ Laid(file.text, Applied, source)
  BY <1>1 DEF IInv, Placed
<1>6. Len(file.text) \in Nat /\ DOMAIN file.text = 1..Len(file.text)
  BY <1>1, FileIs
<1>7. \A k \in DOMAIN file.text : file.text[k].kind \notin {"gate", "import"}
  <2>1. TAKE k \in DOMAIN file.text
  <2>2. file.text[k] \in Tokens
    BY <1>1, <1>6, FileIs, ElementOfSeq
  <2>3. QED
    BY <2>2 DEF Tokens
<1>8. s.token \in Things
  BY <1>2 DEF Things
<1>9. s.offset \in 1..Len(file.text) /\ Follows(s.token, file.text[s.offset])
  BY <1>2, <1>3, SpliceIs DEF Follows
<1>10. \A t \in Applied : t.offset \in 1..Len(file.text) /\ s.offset < t.offset
  BY <1>2, <1>3, <1>4
<1>11. /\ source' \in Seq(Things)
       /\ source' # <<>>
       /\ Laid(file.text, Applied', source')
  BY <1>2, <1>5, <1>6, <1>7, <1>8, <1>9, <1>10, OneSplice, Zenon
<1>12. \A t \in Applied', u \in todo' : Before(t, u)
  BY <1>1, <1>2 DEF IInv, Placed
<1>13. Things' = Things
  BY DEF Things
<1>14. QED
  BY <1>11, <1>12, <1>13 DEF Placed

\* Each round of apply keeps the invariant.
LEMMA SpliceKeeps ==
    ASSUME IInv, Splice
    PROVE  IInv'
<1>1. PICK s \in todo :
        /\ \A t \in todo \ {s} : Before(s, t)
        /\ source' = InsertAt(source, s.offset + 1, s.token)
        /\ todo' = todo \ {s}
  BY Zenon DEF Splice
<1>2. /\ phase = "splice" /\ phase' = IF todo' = {} THEN "done" ELSE "splice"
      /\ file' = file /\ next' = next /\ splices' = splices /\ tagged' = tagged
      /\ warnings' = warnings
  BY Zenon DEF Splice
<1>3. Placed' /\ source' # <<>>
  BY <1>1, <1>2, SplicePlaced
<1>4. phase \in Applying /\ phase' \in Applying /\ todo \subseteq splices /\ splices # {}
  BY <1>1, <1>2 DEF Applying, IInv, TypeOK
<1>5. Seen' = Seen /\ SeenGroups' = SeenGroups /\ Chosen' = Chosen
  BY <1>2, <1>4, SameFile DEF Seen, SeenGroups, Chosen, Applying
<1>6. /\ \A i : HasTag(i)' <=> HasTag(i)
      /\ \A i : Gatable(i)' <=> Gatable(i)
      /\ \A i, l : GateAt(i, l)' = GateAt(i, l)
      /\ ImportAt' = ImportAt
  BY <1>2, SameFile
<1>7. Fits' = Fits
  BY <1>5, <1>6 DEF Fits
<1>8. TypeOK'
  BY <1>1, <1>2, <1>4 DEF IInv, TypeOK
<1>9. Stage'
  BY <1>1, <1>2, <1>3, <1>4 DEF IInv, Stage
<1>10. Taken'
  BY <1>2, <1>5, <1>6 DEF IInv, Taken
<1>11. Warned'
  BY <1>2, <1>5, <1>6 DEF IInv, Warned
<1>12. Made'
  BY <1>2, <1>4, <1>5, <1>6, <1>7 DEF IInv, Made
<1>13. QED
  BY <1>3, <1>8, <1>9, <1>10, <1>11, <1>12 DEF IInv

\* The strengthened invariant.
THEOREM Invariant == Spec => []IInv
<1>1. IInv /\ [Next]_vars => IInv'
  <2> SUFFICES ASSUME IInv, [Next]_vars PROVE IInv'
    OBVIOUS
  <2>1. CASE Declaration
    BY <2>1, UntaggedKeeps, MalformedKeeps, UnfittingKeeps, GatedKeeps DEF Declaration
  <2>2. CASE Comments
    BY <2>2, CommentsKeeps
  <2>3. CASE CommentGroup
    BY <2>3, CommentGroupKeeps
  <2>4. CASE Nothing
    BY <2>4, NothingKeeps
  <2>5. CASE Resolve
    BY <2>5, ResolveKeeps
  <2>6. CASE Splice
    BY <2>6, SpliceKeeps
  <2>7. CASE UNCHANGED vars
    BY <2>7 DEF vars, IInv, TypeOK, Stage, Taken, Warned, Made, Placed, Applied, Things,
                Fits, Seen, SeenGroups, Chosen, Runtime, HasTag, Gatable, GateAt, ImportAt
  <2>8. QED
    BY <2>1, <2>2, <2>3, <2>4, <2>5, <2>6, <2>7 DEF Next
<1>2. QED
  BY InitIInv, <1>1, PTL DEF Spec

\* The types of every variable that is no constant of the file.
THEOREM TypeCorrect == Spec => []TypeOK
<1>1. IInv => TypeOK
  BY DEF IInv
<1>2. QED
  BY Invariant, <1>1, PTL

-------------------------------------------------------------------------------
(* What comes out. *)

\* apply keeps the user's code, and puts each gate where it belongs.
THEOREM SplicedHolds == Spec => []Spliced
<1>1. IInv => Spliced
  <2> SUFFICES ASSUME IInv, phase = "done", source # <<>>
               PROVE  /\ Len(source) = Len(file.text) + Cardinality(splices)
                      /\ \A k \in DOMAIN file.text : source[Moved(k)] = file.text[k]
                      /\ \A s \in splices : source[Moved(s.offset) + 1] = s.token
                      /\ \A k \in DOMAIN source :
                          /\ source[k].kind = "gate" => source[k - 1] = Token("lbrace", source[k].decl)
                          /\ source[k].kind = "import" => source[k - 1] = Token("package", 0)
    BY Zenon DEF Spliced
  <2>1. Applied = splices
    BY DEF IInv, Stage, Applied
  <2>2. Laid(file.text, splices, source)
    BY <2>1 DEF IInv, Placed
  <2>3. \A k : Moved(k) = k + Past(splices, k)
    BY Zenon DEF Moved, Past
  <2>4. QED
    BY <2>2, <2>3 DEF Laid, Follows
<1>2. QED
  BY Invariant, <1>1, PTL

\* What is made of the directives, once the file is done.
LEMMA DoneIs ==
    ASSUME IInv, phase = "done"
    PROVE  /\ file \in Files
           /\ Seen = DOMAIN file.decls
           /\ SeenGroups = DOMAIN Groups(file)
           /\ \A g \in Gates : \E i \in DOMAIN file.decls :
                Gatable(i) /\ g = GateAt(i, Runtime).token
           /\ \A i \in DOMAIN file.decls : Gatable(i) => GateAt(i, Runtime).token \in Gates
           /\ Local(file) = NoName /\ Gates # {} => Import \in ToSet(source)
<1>1. /\ file \in Files /\ todo = {} /\ Seen = DOMAIN file.decls
      /\ SeenGroups = DOMAIN Groups(file) /\ Chosen = Runtime /\ phase \in Applying
      /\ (source # <<>> <=> splices # {})
  BY DEF IInv, Stage, Seen, SeenGroups, Chosen, Applying
<1>2. Applied = splices
  BY <1>1 DEF Applied
<1>3. ASSUME NEW s \in splices
      PROVE  s.token \in ToSet(source)
  <2>1. source \in Seq(Things) /\ Laid(file.text, splices, source)
    BY <1>1, <1>2 DEF IInv, Placed
  <2>2. /\ s.offset \in 1..Len(file.text) /\ Len(file.text) \in Nat
        /\ IsFiniteSet(splices)
    BY <1>1, SpliceIs, FileIs DEF IInv, Made
  <2>3. PICK n \in Nat : n = Len(file.text)
    BY <2>2, Zenon
  <2>4. PICK o \in 1..n : o = s.offset
    BY <2>2, <2>3, Zenon
  <2>5. PICK c \in Nat : c = Cardinality(splices)
    BY <2>2, FS_CardinalityType, Zenon
  <2>6. PICK p \in 0..c : p = Past(splices, o)
    BY <2>2, <2>5, PastIs, Zenon
  <2>7. p < c
    <3>1. {t \in splices : t.offset < o} \in SUBSET splices
      OBVIOUS
    <3>2. ~(o < o)
      OBVIOUS
    <3>3. s \notin {t \in splices : t.offset < o}
      BY <2>4, <3>2, Zenon
    <3>4. Cardinality({t \in splices : t.offset < o}) # Cardinality(splices)
      BY <2>2, <3>1, <3>3, FS_Subset, Zenon
    <3>5. p # c
      BY <2>5, <2>6, <3>4, Zenon DEF Past
    <3>6. QED
      BY <3>5
  <2>8. o + p + 1 \in 1..(n + c)
    BY <2>7
  <2>9. DOMAIN source = 1..(n + c)
    BY <2>1, <2>3, <2>5, LenProperties DEF Laid
  <2>10. source[o + p + 1] = s.token
    BY <2>1, <2>4, <2>6, Zenon DEF Laid
  <2>11. QED
    BY <2>8, <2>9, <2>10, Zenon DEF ToSet
<1>4. ASSUME NEW g \in Gates
      PROVE  \E i \in DOMAIN file.decls : Gatable(i) /\ g = GateAt(i, Runtime).token
  <2>1. PICK k \in DOMAIN source : source[k] = g /\ g.kind = "gate"
    BY DEF Gates, ToSet
  <2>2. source # <<>>
    BY <2>1
  <2>3. PICK s \in splices : g = s.token
    <3>1. Laid(file.text, splices, source)
      BY <1>2, <2>2 DEF IInv, Placed
    <3>2. QED
      BY <2>1, <3>1 DEF Laid
  <2>4. s # ImportAt
    BY <2>1, <2>3 DEF ImportAt, Import
  <2>5. PICK i \in Fits : s = GateAt(i, Runtime)
    BY <1>1, <2>4 DEF IInv, Made
  <2>6. QED
    BY <1>1, <2>3, <2>5 DEF Fits
<1>5. ASSUME NEW i \in DOMAIN file.decls, Gatable(i)
      PROVE  GateAt(i, Runtime).token \in Gates
  <2>1. GateAt(i, Runtime) \in splices
    BY <1>1, <1>5 DEF IInv, Made, Fits
  <2>2. GateAt(i, Runtime).token.kind = "gate"
    BY DEF GateAt
  <2>3. QED
    BY <1>3, <2>1, <2>2, Zenon DEF Gates
<1>6. ASSUME Local(file) = NoName, Gates # {}
      PROVE  Import \in ToSet(source)
  <2>1. source # <<>>
    BY <1>6 DEF Gates, ToSet
  <2>2. ImportAt \in splices
    BY <1>1, <1>6, <2>1 DEF IInv, Made
  <2>3. ImportAt.token = Import
    BY DEF ImportAt
  <2>4. QED
    BY <1>3, <2>2, <2>3, Zenon
<1>7. QED
  BY <1>1, <1>4, <1>5, <1>6, Zenon

\* Every gate calls a name that the imports bind to the runtime, and passes a
\* context parameter of its function.
THEOREM ResolvesHolds == Spec => []Resolves
<1>1. IInv => Resolves
  <2> SUFFICES ASSUME IInv, phase = "done", NEW g \in Gates
               PROVE  /\ \/ g.local = GenLocal /\ Import \in ToSet(source)
                         \/ Binds(file.runtimes, "limelight", g.local)
                      /\ \E p \in ToSet(file.decls[g.decl].params) :
                           /\ p.name = g.ctx /\ g.ctx # Blank
                           /\ Binds(file.contexts, "context", p.pkg)
    BY Zenon DEF Resolves
  <2>1. PICK i \in DOMAIN file.decls : Gatable(i) /\ g = GateAt(i, Runtime).token
    BY DoneIs, Zenon
  <2>2. /\ g.local = Runtime /\ g.decl = i
        /\ g.ctx = ContextParam(file, file.decls[i])
    BY <2>1 DEF GateAt
  <2>3. /\ file \in Files /\ file.runtimes \in Names /\ file.contexts \in Names
        /\ file.decls[i] \in Decls
    <3>1. file \in Files
      BY DoneIs
    <3>2. QED
      BY <3>1, FileIs, DocIs
  <2>4. \E p \in ToSet(file.decls[g.decl].params) :
            p.name = g.ctx /\ g.ctx # Blank /\ Binds(file.contexts, "context", p.pkg)
    <3>1. ContextParam(file, file.decls[i]) # NoName
      BY <2>1 DEF Gatable
    <3>2. "context" \notin {NoName, Blank, "."}
      BY Zenon DEF NoName, Blank
    <3>3. Binds(file.contexts, "context", LocalName(file.contexts, "context"))
      BY <2>3, <3>1, <3>2, ContextParamIs, LocalNameIs, Zenon DEF Binds
    <3>4. QED
      BY <2>2, <2>3, <3>1, <3>3, ContextParamIs, Zenon
  <2>5. CASE Local(file) = NoName
    <3>1. Import \in ToSet(source)
      BY <2>5, DoneIs
    <3>2. g.local = GenLocal
      BY <2>2, <2>5, Zenon DEF Runtime
    <3>3. QED
      BY <2>4, <3>1, <3>2, Zenon
  <2>6. CASE Local(file) # NoName
    <3>1. "limelight" \notin {NoName, Blank, "."}
      BY Zenon DEF NoName, Blank
    <3>2. /\ Local(file) \notin {NoName, Blank, "."}
          /\ \/ Local(file) \in ToSet(file.runtimes)
             \/ Local(file) = "limelight" /\ NoName \in ToSet(file.runtimes)
      BY <2>3, <2>6, <3>1, LocalNameIs, Zenon DEF Local
    <3>3. g.local = Local(file)
      BY <2>2, <2>6, Zenon DEF Runtime
    <3>4. QED
      BY <2>4, <3>2, <3>3, Zenon DEF Binds
  <2>7. QED
    BY <2>5, <2>6
<1>2. QED
  BY Invariant, <1>1, PTL

\* No directive that is first in its comment group is lost.
THEOREM FirstAnsweredHolds == Spec => []FirstAnswered
<1>1. IInv => FirstAnswered
  <2> SUFFICES ASSUME IInv, phase = "done"
               PROVE  /\ \A g \in ToSet(Groups(file)) : Directives(file, g) # <<>> =>
                            (Honoured(g, 1) <=> <<g, 1>> \notin warnings)
                      /\ \A t \in Gates : Valid(t.fields) /\ Honoured(Doc(t.decl), 1)
    BY Zenon DEF FirstAnswered
  <2>1. /\ file \in Files
        /\ Seen = DOMAIN file.decls
        /\ SeenGroups = DOMAIN Groups(file)
        /\ \A g \in Gates : \E i \in DOMAIN file.decls :
             Gatable(i) /\ g = GateAt(i, Runtime).token
        /\ \A i \in DOMAIN file.decls : Gatable(i) => GateAt(i, Runtime).token \in Gates
    BY DoneIs, Zenon
  <2>2. \A i : /\ GateAt(i, Runtime).token.decl = i
               /\ GateAt(i, Runtime).token.fields = file.decls[i].doc[1]
    BY DEF GateAt
  <2>3. ASSUME NEW i \in DOMAIN file.decls
        PROVE  Honoured(Doc(i), 1) <=> Gatable(i)
    <3>1. Directives(file, Doc(i)) = file.decls[i].doc
      BY <2>1, DocIs
    <3>2. ASSUME Gatable(i) PROVE Honoured(Doc(i), 1)
      BY <2>1, <2>2, <3>1, <3>2, Zenon DEF Honoured
    <3>3. ASSUME Honoured(Doc(i), 1) PROVE Gatable(i)
      <4>1. PICK t \in Gates : Doc(i) = Doc(t.decl)
        BY <3>3, Zenon DEF Honoured
      <4>2. i = t.decl
        BY <4>1 DEF Doc
      <4>3. QED
        BY <2>1, <2>2, <4>2, Zenon
    <3>4. QED
      BY <3>2, <3>3
  <2>4. ASSUME NEW t \in Gates
        PROVE  Valid(t.fields) /\ Honoured(Doc(t.decl), 1)
    <3>1. PICK i \in DOMAIN file.decls : Gatable(i) /\ t = GateAt(i, Runtime).token
      BY <2>1, Zenon
    <3>2. t.decl = i /\ t.fields = file.decls[i].doc[1]
      BY <2>2, <3>1, Zenon
    <3>3. QED
      BY <2>3, <3>1, <3>2, Zenon DEF Gatable
  <2>5. ASSUME NEW g \in ToSet(Groups(file)), Directives(file, g) # <<>>
        PROVE  Honoured(g, 1) <=> <<g, 1>> \notin warnings
    <3>1. PICK n \in DOMAIN Groups(file) : g = Groups(file)[n]
      BY DEF ToSet
    <3>2. g \notin tagged => <<g, 1>> \in warnings
      BY <2>1, <2>5, <3>1 DEF IInv, Warned
    <3>3. CASE n <= Len(file.decls)
      <4>1. n \in DOMAIN file.decls
        BY <2>1, <3>1, <3>3, FileIs, GroupsIs
      <4>2. g = Doc(n)
        BY <2>1, <3>1, <4>1, DocIs, Zenon
      <4>3. Doc(n) \in tagged <=> HasTag(n)
        BY <2>1, <4>1 DEF IInv, Taken
      <4>4. HasTag(n) => (<<Doc(n), 1>> \in warnings <=> ~Gatable(n))
        BY <2>1, <4>1 DEF IInv, Warned
      <4>5. Gatable(n) => HasTag(n)
        BY DEF Gatable
      <4>6. QED
        BY <2>3, <3>2, <4>1, <4>2, <4>3, <4>4, <4>5, Zenon
    <3>4. CASE ~(n <= Len(file.decls))
      <4>1. g = Loose(n - Len(file.decls))
        BY <2>1, <3>1, <3>4, GroupsIs
      <4>2. \A i : g # Doc(i)
        BY <4>1 DEF Doc, Loose
      <4>3. g \notin tagged
        BY <4>2 DEF IInv, TypeOK
      <4>4. ~Honoured(g, 1)
        BY <4>2, Zenon DEF Honoured
      <4>5. QED
        BY <3>2, <4>3, <4>4, Zenon
    <3>5. QED
      BY <3>3, <3>4
  <2>6. QED
    BY <2>4, <2>5
<1>2. QED
  BY Invariant, <1>1, PTL

===============================================================================
