------------------------------- MODULE Toolexec -------------------------------
(***************************************************************************)
(* The -toolexec driver (internal/toolexec) in the builds of the go        *)
(* command, which runs it in place of every tool.                          *)
(*                                                                         *)
(* A build asks the driver once for the version of the compiler, and keys  *)
(* the build cache by the answer; then, for each package that is not in    *)
(* the cache, it runs a process of the driver, several at a time.  Such a  *)
(* process scans the package's sources, writes gated copies of the tagged  *)
(* ones to a directory of its own, compiles, and removes the directory.    *)
(* Every operation on a file may fail, the removal of the directory        *)
(* included, and a process may be killed.                                  *)
(*                                                                         *)
(* The go command, its cache and the compiler are external.  What rewrite  *)
(* makes of a file is given by Content.  The driver is taken not to be     *)
(* rebuilt while a build runs: the build's processes run the binary that   *)
(* answered for its version.                                               *)
(***************************************************************************)
EXTENDS Integers, Sequences, SequencesExt

CONSTANTS Package,      \* packages of the build
          Runtime,      \* the package of the limelight runtime
          Sources,      \* Sources[p]: the .go arguments of p's compilation
          Content,      \* Content[f]: what rewrite.File makes of source f
          Base,         \* Base[f]: the file name of f without its directory
          Importable,   \* packages whose importcfg has the runtime
          Shim,         \* the binaries of the driver, one for each rebuild
          HashMayFail,  \* may the driver fail to read its own binary?
          Unknown,      \* the identity it gives then
          Original,     \* an argument as the go command passed it
          Nil

(* Contents of a source:                                                   *)
(*   plain    has no "//limelight:" in it, or rewrite finds no method to   *)
(*            gate: compiled as it is, with warnings perhaps               *)
(*   tagged   has methods to gate                                          *)
(*   invalid  has "//limelight:" in it and rewrite refuses it: it does not *)
(*            parse, or the first directive of a function is malformed     *)
ASSUME ContentAssumption ==
    \A p \in Package : \A f \in ToSet(Sources[p]) :
        Content[f] \in {"plain", "tagged", "invalid"}

\* Every source has a file name.
ASSUME SourcesAssumption == \A p \in Package : Sources[p] \in Seq(DOMAIN Base)

\* The go command compiles the files of one directory together.
ASSUME BaseAssumption ==
    \A p \in Package : \A f, g \in ToSet(Sources[p]) : Base[f] = Base[g] => f = g

ASSUME DistinctAssumption ==
    /\ HashMayFail \in BOOLEAN
    /\ Unknown \notin Shim
    /\ Original \notin {Base[f] : f \in DOMAIN Base}

VARIABLES shim,   \* the binary of the driver on disk
          build,  \* the build in progress: [id, shim], or Nil
          cache,  \* the build cache: <<package, identity>> -> object
          pc,     \* pc[p]: what the build has done about p
          binary, \* binary[p]: the binary that p's process runs
          next,   \* next[p]: the index of the source to scan
          found,  \* found[p]: the sources to replace (results)
          dir,    \* dir[p]: what is in p's temporary directory, or Nil
          args,   \* args[p]: for each source, Original or the name of a copy
          removal \* removal[p]: what became of the removal of dir[p]: history

proc == <<binary, next, found, dir, args, removal>>
vars == <<shim, build, cache, pc, proc>>

PC == {"pending", "scan", "mkdir", "write", "compile", "done", "failed", "killed"}
Ended == {"done", "failed", "killed"}

Files(p) == ToSet(Sources[p])

-------------------------------------------------------------------------------
\* selfID: what a process of binary s may answer.
SelfID_constantBug(s) == {Unknown}
SelfID_unsetBug(s) == {s, Nil}
SelfID(s) == {s} \cup (IF HashMayFail THEN {Unknown} ELSE {})

\* The file found at the scan of f: a result, or nothing.
Results_firstBug(results, f) == IF results = {} THEN {f} ELSE results
Results(results, f) == results \cup {f}

\* Run's deferred cleanup, when it returns with this code: there is nothing to
\* remove ("none"), or os.RemoveAll does it ("done") or returns an error, which
\* is discarded ("failed").
Cleanup_onSuccessBug(p, code) ==
    IF dir[p] = Nil \/ code # 0 THEN {"none"} ELSE {"done", "failed"}
Cleanup(p, code) == IF dir[p] = Nil THEN {"none"} ELSE {"done", "failed"}

\* What is left of dir[p] then.
Left(p, outcome) == IF outcome = "done" THEN Nil ELSE dir[p]

\* Where the scan of p goes with these results.
AfterScan_noCheckBug(p, results) == IF results = {} THEN "compile" ELSE "mkdir"
AfterScan(p, results) ==
    IF results = {} THEN "compile"
    ELSE IF p \in Importable THEN "mkdir" ELSE "failed"

\* What the compiler reads for each source: the source, or the copy in place.
Read(p) == [f \in Files(p) |-> IF args[p][f] = Original THEN Original ELSE dir[p][args[p][f]]]

-------------------------------------------------------------------------------
\* The arguments as they came.
Unchanged(p) == [f \in Files(p) |-> Original]

Init ==
    /\ shim \in Shim
    /\ build = Nil
    /\ cache = [k \in {} |-> k]
    /\ pc = [p \in Package |-> "done"]
    /\ binary = [p \in Package |-> Nil]
    /\ next = [p \in Package |-> 1]
    /\ found = [p \in Package |-> {}]
    /\ dir = [p \in Package |-> Nil]
    /\ args = [p \in Package |-> Unchanged(p)]
    /\ removal = [p \in Package |-> "none"]

\* The driver is built anew, between two builds.
Rebuild(s) ==
    /\ build = Nil
    /\ shim' = s
    /\ UNCHANGED <<build, cache, pc, proc>>

\* A build begins with `compile -V=full`; it does not if that fails.
RunVersion ==
    /\ build = Nil
    /\ \E id \in SelfID(shim) : build' = [id |-> id, shim |-> shim]
    /\ pc' = [p \in Package |-> "pending"]
    /\ binary' = [p \in Package |-> Nil]
    /\ next' = [p \in Package |-> 1]
    /\ found' = [p \in Package |-> {}]
    /\ dir' = [p \in Package |-> Nil]
    /\ args' = [p \in Package |-> Unchanged(p)]
    /\ removal' = [p \in Package |-> "none"]
    /\ UNCHANGED <<shim, cache>>

\* The go command finds p in its cache.
Reuse(p) ==
    /\ build # Nil
    /\ pc[p] = "pending"
    /\ <<p, build.id>> \in DOMAIN cache
    /\ pc' = [pc EXCEPT ![p] = "done"]
    /\ UNCHANGED <<shim, build, cache, proc>>

\* It does not, and runs the driver.  The runtime itself, and a package
\* without Go sources, is compiled as it is.
Run(p) ==
    /\ build # Nil
    /\ pc[p] = "pending"
    /\ <<p, build.id>> \notin DOMAIN cache
    /\ pc' = [pc EXCEPT ![p] = IF p = Runtime \/ Sources[p] = <<>> THEN "compile" ELSE "scan"]
    /\ binary' = [binary EXCEPT ![p] = shim]
    /\ UNCHANGED <<shim, build, cache, next, found, dir, args, removal>>

\* Run returns with this code.
Return(p, code) ==
    \E outcome \in Cleanup(p, code) :
        /\ removal' = [removal EXCEPT ![p] = outcome]
        /\ dir' = [dir EXCEPT ![p] = Left(p, outcome)]

\* It returns with an error: nothing has been compiled.
Fail(p) ==
    /\ pc' = [pc EXCEPT ![p] = "failed"]
    /\ Return(p, 1)
    /\ UNCHANGED <<shim, build, cache, binary, next, found, args>>

\* One source of p: read, and rewritten in memory if it has a directive.
Scan(p) ==
    LET f       == Sources[p][next[p]]
        results == IF Content[f] = "tagged" THEN Results(found[p], f) ELSE found[p]
    IN  /\ pc[p] = "scan"
        /\ \/ Fail(p)
           \/ /\ Content[f] # "invalid"
              /\ found' = [found EXCEPT ![p] = results]
              /\ next' = [next EXCEPT ![p] = @ + 1]
              /\ pc' = [pc EXCEPT ![p] =
                    IF next[p] < Len(Sources[p]) THEN "scan" ELSE AfterScan(p, results)]
              /\ UNCHANGED <<shim, build, cache, binary, dir, args, removal>>

MkdirTemp(p) ==
    /\ pc[p] = "mkdir"
    /\ \/ Fail(p)
       \/ /\ dir' = [dir EXCEPT ![p] = [b \in {} |-> b]]
          /\ pc' = [pc EXCEPT ![p] = "write"]
          /\ UNCHANGED <<shim, build, cache, binary, next, found, args, removal>>

\* One copy.  The results are a Go map: in any order.
WriteFile(p) ==
    /\ pc[p] = "write"
    /\ \/ Fail(p)
       \/ \E f \in {g \in found[p] : args[p][g] = Original} :
            /\ dir' = [dir EXCEPT ![p] =
                        [b \in DOMAIN @ \cup {Base[f]} |-> IF b = Base[f] THEN f ELSE @[b]]]
            /\ args' = [args EXCEPT ![p][f] = Base[f]]
            /\ pc' = [pc EXCEPT ![p] =
                        IF \A g \in found[p] \ {f} : args[p][g] # Original
                        THEN "compile" ELSE "write"]
            /\ UNCHANGED <<shim, build, cache, binary, next, found, removal>>

\* The compiler, on the arguments of instrument.  It cannot resolve a gate
\* whose runtime is not in the importcfg.  If it succeeds, Run returns 0 and
\* the go command puts the object in its cache.
Compile(p) ==
    /\ pc[p] = "compile"
    /\ \/ Fail(p)
       \/ /\ p \in Importable \/ \A f \in Files(p) : Read(p)[f] = Original
          /\ cache' = [k \in DOMAIN cache \cup {<<p, build.id>>} |->
                        IF k = <<p, build.id>>
                        THEN [binary |-> binary[p], read |-> Read(p)]
                        ELSE cache[k]]
          /\ pc' = [pc EXCEPT ![p] = "done"]
          /\ Return(p, 0)
          /\ UNCHANGED <<shim, build, binary, next, found, args>>

\* The build is interrupted: a process of the driver dies where it is, and
\* its deferred cleanup with it.
Kill(p) ==
    /\ pc[p] \in {"scan", "mkdir", "write", "compile"}
    /\ pc' = [pc EXCEPT ![p] = "killed"]
    /\ UNCHANGED <<shim, build, cache, proc>>

\* Everything is compiled, or what is left waits for something that failed.
EndBuild ==
    /\ build # Nil
    /\ \A p \in Package :
        \/ pc[p] \in Ended
        \/ pc[p] = "pending" /\ \E q \in Package : pc[q] \in {"failed", "killed"}
    /\ build' = Nil
    /\ UNCHANGED <<shim, cache, pc, proc>>

Next ==
    \/ \E s \in Shim : Rebuild(s)
    \/ RunVersion
    \/ EndBuild
    \/ \E p \in Package :
        \/ Reuse(p) \/ Run(p) \/ Scan(p) \/ MkdirTemp(p) \/ WriteFile(p)
        \/ Compile(p) \/ Kill(p)

Spec == Init /\ [][Next]_vars

-------------------------------------------------------------------------------
Ids == Shim \cup {Unknown}

Objects(p) == [binary : Shim, read : [Files(p) -> Files(p) \cup {Original}]]

TypeOK ==
    /\ shim \in Shim
    /\ build \in [id : Ids, shim : Shim] \cup {Nil}
    /\ DOMAIN cache \subseteq Package \X Ids
    /\ \A k \in DOMAIN cache : cache[k] \in Objects(k[1])
    /\ pc \in [Package -> PC]
    /\ binary \in [Package -> Shim \cup {Nil}]
    /\ removal \in [Package -> {"none", "done", "failed"}]
    /\ \A p \in Package :
        /\ next[p] \in 1..(Len(Sources[p]) + 1)
        /\ found[p] \subseteq Files(p)
        /\ dir[p] # Nil => \A b \in DOMAIN dir[p] : dir[p][b] \in Files(p)
        /\ args[p] \in [Files(p) -> {Base[f] : f \in Files(p)} \cup {Original}]
        /\ pc[p] = "compile" =>
             \A f \in Files(p) : args[p][f] = Original \/ args[p][f] \in DOMAIN dir[p]

\* What is compiled of a package is whole: every tagged source was replaced by
\* its own gated copy, every other was left alone, and nothing was compiled of
\* a package with a file that rewrite refuses.  "Never instrument the runtime
\* itself": its sources are compiled as they are.
WholePackage ==
    \A k \in DOMAIN cache :
        LET p == k[1] IN
        /\ cache[k].read = [f \in Files(p) |->
                IF p # Runtime /\ Content[f] = "tagged" THEN f ELSE Original]
        /\ p = Runtime \/ \A f \in Files(p) : Content[f] # "invalid"

\* Whichever operation fails, a driver that returns has tried to remove its
\* directory: it leaves one only when os.RemoveAll itself has failed.
NoLeftovers ==
    \A p \in Package :
        pc[p] \in {"done", "failed"} /\ dir[p] # Nil => removal[p] = "failed"

\* "Refusing loudly beats emitting code that cannot compile": gated copies are
\* neither written nor compiled for a package that cannot import the runtime.
Compilable ==
    \A p \in Package : p \notin Importable =>
        dir[p] = Nil /\ \A f \in Files(p) : args[p][f] = Original

\* "Rebuilding the rewriter invalidates every package it instrumented": a
\* build uses no object that another binary of the driver had a part in.
CacheFresh ==
    build # Nil => \A p \in Package :
        pc[p] = "done" => cache[<<p, build.id>>].binary = build.shim

===============================================================================
