---------------------------- MODULE ToolexecProofs ----------------------------
(***************************************************************************)
(* What holds of Toolexec for any packages, sources, drivers and failures, *)
(* with proofs checked by TLAPS.                                           *)
(*                                                                         *)
(* IInv says of each package how far its process has come (Progress): what *)
(* it has scanned, what it has found, and which of that is in its copies;  *)
(* and of the cache that each object was made whole, under an identity     *)
(* that its driver may give (Objects).                                     *)
(***************************************************************************)
EXTENDS Toolexec, TLAPS

Running == {"scan", "mkdir", "write", "compile"}

\* The sources p's process has read.
Scanned(p) == {Sources[p][i] : i \in 1..(next[p] - 1)}

\* What was found is what is tagged of what was scanned.
FoundSoFar(p) ==
    /\ found[p] = {f \in Scanned(p) : Content[f] = "tagged"}
    /\ \A f \in Scanned(p) : Content[f] # "invalid"

\* How far the scan is, by where the process is.
Where(p) ==
    /\ pc[p] = "pending" => next[p] = 1
    /\ pc[p] = "scan" => p # Runtime /\ next[p] <= Len(Sources[p])
    /\ pc[p] \in {"mkdir", "write"} =>
         p # Runtime /\ p \in Importable /\ next[p] = Len(Sources[p]) + 1
    /\ pc[p] = "compile" =>
         next[p] = IF p = Runtime THEN 1 ELSE Len(Sources[p]) + 1

\* A copy stands for one source that was found, and is in the directory.
Copies(p) ==
    /\ \A f \in Files(p) : args[p][f] # Original => f \in found[p] /\ args[p][f] = Base[f]
    /\ pc[p] \in {"pending", "scan", "mkdir"} => \A f \in Files(p) : args[p][f] = Original
    /\ pc[p] \in {"write", "compile"} =>
         \A f \in Files(p) : args[p][f] # Original =>
            Base[f] \in DOMAIN dir[p] /\ dir[p][Base[f]] = f
    /\ pc[p] = "write" => \A b \in DOMAIN dir[p] : dir[p][b] \in Files(p)
    /\ pc[p] = "compile" => \A f \in found[p] : args[p][f] # Original
    /\ pc[p] \in {"pending", "scan", "mkdir"} => dir[p] = Nil
    /\ pc[p] \in {"done", "failed"} => dir[p] = Nil \/ removal[p] = "failed"

\* A process runs only in a build, with the driver that is on disk.
InBuild(p) ==
    /\ pc[p] \in Running => build # Nil /\ binary[p] = shim
    /\ pc[p] = "done" /\ build # Nil => <<p, build.id>> \in DOMAIN cache

Progress(p) == FoundSoFar(p) /\ Where(p) /\ Copies(p) /\ InBuild(p)

\* The driver is not rebuilt during a build.
OneDriver == build # Nil => build.shim = shim /\ build.id \in SelfID(shim)

\* An object is keyed by an identity of the driver that made it.
Keyed == \A k \in DOMAIN cache : k[2] \in SelfID(cache[k].binary)

\* The maps of the packages.
Maps ==
    /\ DOMAIN next = Package
    /\ DOMAIN found = Package
    /\ DOMAIN dir = Package
    /\ DOMAIN args = Package
    /\ DOMAIN removal = Package

IInv ==
    /\ TypeOK /\ Maps
    /\ \A p \in Package : Progress(p)
    /\ OneDriver
    /\ Keyed /\ WholePackage /\ Compilable

-------------------------------------------------------------------------------
\* The parts of IInv, for one package and for the rest.

PackageType(p) ==
    /\ next[p] \in 1..(Len(Sources[p]) + 1)
    /\ found[p] \subseteq Files(p)
    /\ dir[p] # Nil => \A b \in DOMAIN dir[p] : dir[p][b] \in Files(p)
    /\ args[p] \in [Files(p) -> {Base[f] : f \in Files(p)} \cup {Original}]
    /\ pc[p] = "compile" =>
         \A f \in Files(p) : args[p][f] = Original \/ args[p][f] \in DOMAIN dir[p]

Untouched(p) ==
    p \notin Importable => dir[p] = Nil /\ \A f \in Files(p) : args[p][f] = Original

OfPackage(p) == PackageType(p) /\ Untouched(p) /\ Progress(p)

OfCache ==
    /\ DOMAIN cache \subseteq Package \X Ids
    /\ \A k \in DOMAIN cache : cache[k] \in Objects(k[1])
    /\ Keyed /\ WholePackage

OfBuild ==
    /\ shim \in Shim
    /\ build \in [id : Ids, shim : Shim] \cup {Nil}
    /\ pc \in [Package -> PC]
    /\ binary \in [Package -> Shim \cup {Nil}]
    /\ removal \in [Package -> {"none", "done", "failed"}]
    /\ Maps /\ OneDriver

\* IInv is its parts.
LEMMA Parts == IInv <=> OfBuild /\ OfCache /\ \A p \in Package : OfPackage(p)
BY DEF IInv, OfBuild, OfCache, OfPackage, TypeOK, PackageType, Untouched, Compilable

\* The same of the next state.
LEMMA PartsNext == IInv' <=> OfBuild' /\ OfCache' /\ \A p \in Package : OfPackage(p)'
BY DEF IInv, OfBuild, OfCache, OfPackage, TypeOK, PackageType, Untouched, Compilable

-------------------------------------------------------------------------------
\* A source is an element of Sources, and its file name is no Original.
LEMMA SourceFacts ==
    ASSUME NEW p \in Package
    PROVE  /\ Sources[p] \in Seq(DOMAIN Base)
           /\ Len(Sources[p]) \in Nat
           /\ Files(p) = {Sources[p][i] : i \in 1..Len(Sources[p])}
           /\ \A f \in Files(p) : f \in DOMAIN Base /\ Base[f] # Original
<1>1. Sources[p] \in Seq(DOMAIN Base)
  BY SourcesAssumption
<1>2. Len(Sources[p]) \in Nat /\ DOMAIN Sources[p] = 1..Len(Sources[p])
  BY <1>1
<1>3. Files(p) = {Sources[p][i] : i \in 1..Len(Sources[p])}
  BY <1>2 DEF Files, ToSet
<1>4. \A i \in 1..Len(Sources[p]) : Sources[p][i] \in DOMAIN Base
  BY <1>1
<1>5. \A f \in DOMAIN Base : Base[f] # Original
  BY DistinctAssumption
<1>6. QED
  BY <1>1, <1>2, <1>3, <1>4, <1>5

\* What a driver may answer: its own hash, unless it cannot read itself.
LEMMA SelfIDFacts ==
    ASSUME NEW s \in Shim
    PROVE  SelfID(s) \subseteq Ids /\ (~HashMayFail => SelfID(s) = {s})
BY DEF SelfID, Ids

-------------------------------------------------------------------------------
\* A step that leaves q and the build alone, and forgets no object.
SameFor(q) ==
    /\ pc'[q] = pc[q]
    /\ binary'[q] = binary[q]
    /\ next'[q] = next[q]
    /\ found'[q] = found[q]
    /\ dir'[q] = dir[q]
    /\ args'[q] = args[q]
    /\ removal'[q] = removal[q]

\* A package whose process does not step is as far as it was.
LEMMA Frame ==
    ASSUME NEW q \in Package, OfPackage(q), SameFor(q),
           shim' = shim, build' = build, DOMAIN cache \subseteq DOMAIN cache'
    PROVE  OfPackage(q)'
<1>1. PackageType(q)' /\ Untouched(q)'
  BY DEF OfPackage, PackageType, Untouched, SameFor, Files
<1>2. FoundSoFar(q)' /\ Where(q)'
  BY DEF OfPackage, Progress, FoundSoFar, Where, Scanned, SameFor
<1>3. Copies(q)'
  BY DEF OfPackage, Progress, Copies, SameFor, Files
<1>4. InBuild(q)'
  BY DEF OfPackage, Progress, InBuild, SameFor
<1>5. QED
  BY <1>1, <1>2, <1>3, <1>4 DEF OfPackage, Progress

\* A step of p's process.
StepOf(p) ==
    /\ shim' = shim /\ build' = build
    /\ \A q \in Package \ {p} : SameFor(q)
    /\ DOMAIN cache \subseteq DOMAIN cache'
    /\ pc' \in [Package -> PC]
    /\ binary' \in [Package -> Shim \cup {Nil}]
    /\ removal' \in [Package -> {"none", "done", "failed"}]
    /\ Maps'

\* A step of one package's process keeps the invariant when it keeps that
\* package's part and the cache's.
LEMMA OneStep ==
    ASSUME IInv, NEW p \in Package, StepOf(p), OfPackage(p)', OfCache'
    PROVE  IInv'
<1>1. OfBuild /\ \A q \in Package : OfPackage(q)
  BY Parts
<1>2. \A q \in Package : OfPackage(q)'
  BY <1>1, Frame DEF StepOf
<1>3. OfBuild'
  BY <1>1 DEF OfBuild, OneDriver, StepOf
<1>4. QED
  BY <1>2, <1>3, PartsNext

\* The cache is as it was.
LEMMA SameCache ==
    ASSUME IInv, cache' = cache
    PROVE  OfCache'
BY Parts DEF OfCache, Keyed, WholePackage

-------------------------------------------------------------------------------
\* Run returns: the directory is removed, or stays because that has failed.
LEMMA ReturnIs ==
    ASSUME IInv, NEW p \in Package, NEW code, Return(p, code)
    PROVE  /\ dir'[p] = Nil \/ (dir'[p] = dir[p] /\ removal'[p] = "failed")
           /\ \A q \in Package \ {p} : dir'[q] = dir[q] /\ removal'[q] = removal[q]
           /\ DOMAIN dir' = Package /\ DOMAIN removal' = Package
           /\ removal' \in [Package -> {"none", "done", "failed"}]
<1>1. PICK outcome \in Cleanup(p, code) :
        /\ removal' = [removal EXCEPT ![p] = outcome]
        /\ dir' = [dir EXCEPT ![p] = Left(p, outcome)]
  BY DEF Return
<1>2. /\ removal \in [Package -> {"none", "done", "failed"}]
      /\ DOMAIN dir = Package
  BY DEF IInv, TypeOK, Maps
<1>3. /\ outcome \in {"none", "done", "failed"}
      /\ outcome = "none" => dir[p] = Nil
  BY <1>1 DEF Cleanup
<1>4. dir'[p] = Left(p, outcome) /\ removal'[p] = outcome
  BY <1>1, <1>2
<1>5. QED
  BY <1>1, <1>2, <1>3, <1>4 DEF Left

\* Run returns with an error.
LEMMA FailStep ==
    ASSUME IInv, NEW p \in Package, pc[p] \in Running, Fail(p)
    PROVE  IInv'
<1> USE DEF Running
<1>1. OfBuild /\ OfPackage(p)
  BY Parts
<1>2. /\ pc'[p] = "failed"
      /\ dir'[p] = Nil \/ (dir'[p] = dir[p] /\ removal'[p] = "failed")
  BY <1>1, ReturnIs DEF Fail, OfBuild
<1>3. StepOf(p)
  BY <1>1, ReturnIs DEF StepOf, SameFor, Fail, OfBuild, Maps, PC
<1>4. OfPackage(p)'
  <2>1. PackageType(p)' /\ Untouched(p)'
    BY <1>1, <1>2 DEF Fail, OfPackage, PackageType, Untouched, Files
  <2>2. FoundSoFar(p)' /\ Where(p)' /\ InBuild(p)'
    BY <1>1, <1>2
    DEF Fail, OfPackage, Progress, FoundSoFar, Where, Scanned, InBuild
  <2>3. Copies(p)'
    BY <1>1, <1>2 DEF Fail, OfPackage, Progress, Copies, Files
  <2>4. QED
    BY <2>1, <2>2, <2>3 DEF OfPackage, Progress
<1>5. QED
  BY <1>3, <1>4, OneStep, SameCache DEF Fail

\* Reusing an object leaves the process not run.
LEMMA ReuseStep ==
    ASSUME IInv, NEW p \in Package, Reuse(p)
    PROVE  IInv'
<1>1. OfBuild /\ OfPackage(p)
  BY Parts
<1>2. pc[p] = "pending" /\ pc'[p] = "done" /\ UNCHANGED <<shim, build, cache, proc>>
  BY <1>1 DEF Reuse, OfBuild
<1>3. StepOf(p)
  BY <1>1, <1>2 DEF StepOf, SameFor, Reuse, OfBuild, Maps, PC, proc
<1>4. OfPackage(p)'
  <2>1. PackageType(p)' /\ Untouched(p)'
    BY <1>1, <1>2 DEF OfPackage, PackageType, Untouched, Files, proc
  <2>2. FoundSoFar(p)' /\ Where(p)'
    BY <1>1, <1>2 DEF OfPackage, Progress, FoundSoFar, Where, Scanned, proc
  <2>3. Copies(p)'
    BY <1>1, <1>2 DEF OfPackage, Progress, Copies, Files, proc
  <2>4. InBuild(p)'
    BY <1>2 DEF Reuse, InBuild, Running, proc
  <2>5. QED
    BY <2>1, <2>2, <2>3, <2>4 DEF OfPackage, Progress
<1>5. QED
  BY <1>2, <1>3, <1>4, OneStep, SameCache

\* A process starts with nothing scanned, and with the driver on disk.
LEMMA RunStep ==
    ASSUME IInv, NEW p \in Package, Run(p)
    PROVE  IInv'
<1>1. OfBuild /\ OfPackage(p)
  BY Parts
<1>2. /\ pc[p] = "pending" /\ binary'[p] = shim
      /\ pc'[p] = IF p = Runtime \/ Sources[p] = <<>> THEN "compile" ELSE "scan"
      /\ UNCHANGED <<shim, build, cache, next, found, dir, args, removal>>
  BY <1>1 DEF Run, OfBuild
<1>3. StepOf(p)
  BY <1>1, <1>2 DEF StepOf, SameFor, Run, OfBuild, Maps, PC
<1>4. next[p] = 1 /\ found[p] = {}
  BY <1>1, <1>2 DEF OfPackage, Progress, Where, FoundSoFar, Scanned
<1>5. OfPackage(p)'
  <2>1. /\ \A f \in Files(p) : args[p][f] = Original
        /\ dir[p] = Nil
    BY <1>1, <1>2 DEF OfPackage, Progress, Copies
  <2>2. PackageType(p)' /\ Untouched(p)'
    BY <1>1, <1>2, <2>1 DEF OfPackage, PackageType, Untouched, Files
  <2>3. FoundSoFar(p)'
    BY <1>1, <1>2 DEF OfPackage, Progress, FoundSoFar, Scanned
  <2>4. Where(p)'
    <3>1. Sources[p] # <<>> => 1 <= Len(Sources[p])
      BY SourceFacts
    <3>2. Sources[p] = <<>> => Len(Sources[p]) = 0
      OBVIOUS
    <3>3. QED
      BY <1>2, <1>4, <3>1, <3>2 DEF Where
  <2>5. Copies(p)'
    BY <1>2, <1>4, <2>1 DEF Copies, Files
  <2>6. InBuild(p)'
    BY <1>2 DEF Run, InBuild, Running
  <2>7. QED
    BY <2>2, <2>3, <2>4, <2>5, <2>6 DEF OfPackage, Progress
<1>6. QED
  BY <1>2, <1>3, <1>5, OneStep, SameCache

\* One source more is scanned: what is found stays what is tagged.
LEMMA ScanStep ==
    ASSUME IInv, NEW p \in Package, Scan(p)
    PROVE  IInv'
<1> DEFINE f == Sources[p][next[p]]
           results == IF Content[f] = "tagged" THEN Results(found[p], f) ELSE found[p]
<1>1. OfBuild /\ OfPackage(p)
  BY Parts
<1>2. CASE Fail(p)
  BY <1>2, FailStep DEF Scan, Running
<1>3. CASE ~Fail(p)
  <2>1. /\ pc[p] = "scan" /\ Content[f] # "invalid"
        /\ found'[p] = results
        /\ next'[p] = next[p] + 1
        /\ pc'[p] = IF next[p] < Len(Sources[p]) THEN "scan" ELSE AfterScan(p, results)
        /\ UNCHANGED <<shim, build, cache, binary, dir, args, removal>>
    BY <1>1, <1>3 DEF Scan, OfBuild, Maps
  <2>2. StepOf(p)
    <3>1. AfterScan(p, results) \in PC
      BY DEF AfterScan, PC
    <3>2. pc' \in [Package -> PC]
      BY <1>1, <1>3, <3>1 DEF Scan, OfBuild, PC
    <3>3. QED
      BY <1>1, <1>3, <3>2 DEF Scan, StepOf, SameFor, OfBuild, Maps
  <2>3. /\ next[p] \in Nat /\ 1 <= next[p] /\ next[p] <= Len(Sources[p])
        /\ Len(Sources[p]) \in Nat /\ p # Runtime
    BY <1>1, <2>1, SourceFacts DEF OfPackage, PackageType, Progress, Where
  <2>4. f \in Files(p)
    BY <2>3, SourceFacts
  <2>5. Scanned(p)' = Scanned(p) \cup {f}
    BY <2>1, <2>3 DEF Scanned
  <2>6. FoundSoFar(p)'
    BY <1>1, <2>1, <2>5 DEF OfPackage, Progress, FoundSoFar, Results
  <2>7. \A g \in Files(p) : args[p][g] = Original
    BY <1>1, <2>1 DEF OfPackage, Progress, Copies
  <2>8. pc'[p] = "compile" => results = {}
    BY <2>1 DEF AfterScan
  <2>9. PackageType(p)' /\ Untouched(p)'
    BY <1>1, <2>1, <2>3, <2>4, <2>7
    DEF OfPackage, PackageType, Untouched, Files, Results
  <2>10. Where(p)'
    BY <2>1, <2>3 DEF Where, AfterScan
  <2>11. Copies(p)'
    <3>1. pc'[p] \notin {"write", "killed", "pending"}
      BY <2>1 DEF AfterScan
    <3>2. dir[p] = Nil
      BY <1>1, <2>1 DEF OfPackage, Progress, Copies
    <3>3. QED
      BY <2>1, <2>7, <2>8, <3>1, <3>2 DEF Copies, Files
  <2>12. InBuild(p)'
    <3>1. pc'[p] # "done"
      BY <2>1 DEF AfterScan
    <3>2. QED
      BY <1>1, <2>1, <3>1 DEF OfPackage, Progress, InBuild, Running
  <2>13. QED
    BY <2>1, <2>2, <2>6, <2>9, <2>10, <2>11, <2>12, OneStep, SameCache
    DEF OfPackage, Progress
<1>4. QED
  BY <1>2, <1>3

\* The directory is made after the scan, for a package that can import the
\* runtime, and is empty.
LEMMA MkdirTempStep ==
    ASSUME IInv, NEW p \in Package, MkdirTemp(p)
    PROVE  IInv'
<1>1. OfBuild /\ OfPackage(p)
  BY Parts
<1>2. CASE Fail(p)
  BY <1>2, FailStep DEF MkdirTemp, Running
<1>3. CASE ~Fail(p)
  <2>1. /\ pc[p] = "mkdir" /\ pc'[p] = "write"
        /\ dir'[p] = [b \in {} |-> b]
        /\ UNCHANGED <<shim, build, cache, binary, next, found, args, removal>>
    BY <1>1, <1>3 DEF MkdirTemp, OfBuild, Maps
  <2>2. StepOf(p)
    BY <1>1, <1>3 DEF MkdirTemp, StepOf, SameFor, OfBuild, Maps, PC
  <2>3. PackageType(p)' /\ Untouched(p)'
    BY <1>1, <2>1
    DEF OfPackage, PackageType, Untouched, Files, Progress, Where
  <2>4. FoundSoFar(p)' /\ Where(p)'
    BY <1>1, <2>1 DEF OfPackage, Progress, FoundSoFar, Where, Scanned
  <2>5. Copies(p)'
    BY <1>1, <2>1 DEF OfPackage, Progress, Copies, Files
  <2>6. InBuild(p)'
    BY <1>1, <2>1 DEF OfPackage, Progress, InBuild, Running
  <2>7. QED
    BY <2>1, <2>2, <2>3, <2>4, <2>5, <2>6, OneStep, SameCache
    DEF OfPackage, Progress
<1>4. QED
  BY <1>2, <1>3

\* One copy more: no copy overwrites another, for their names differ.
LEMMA WriteFileStep ==
    ASSUME IInv, NEW p \in Package, WriteFile(p)
    PROVE  IInv'
<1>1. OfBuild /\ OfPackage(p)
  BY Parts
<1>2. CASE Fail(p)
  BY <1>2, FailStep DEF WriteFile, Running
<1>3. CASE ~Fail(p)
  <2>1. pc[p] = "write"
    BY DEF WriteFile
  <2>2. PICK f \in {g \in found[p] : args[p][g] = Original} :
            /\ dir' = [dir EXCEPT ![p] =
                        [b \in DOMAIN @ \cup {Base[f]} |-> IF b = Base[f] THEN f ELSE @[b]]]
            /\ args' = [args EXCEPT ![p][f] = Base[f]]
            /\ pc' = [pc EXCEPT ![p] =
                        IF \A g \in found[p] \ {f} : args[p][g] # Original
                        THEN "compile" ELSE "write"]
            /\ UNCHANGED <<shim, build, cache, binary, next, found, removal>>
    BY <1>3 DEF WriteFile
  <2>3. f \in Files(p) /\ f \in found[p] /\ args[p][f] = Original
    BY <1>1, <2>2 DEF OfPackage, PackageType
  <2>4. dir'[p] = [b \in DOMAIN dir[p] \cup {Base[f]} |->
                    IF b = Base[f] THEN f ELSE dir[p][b]]
    BY <1>1, <2>2 DEF OfBuild, Maps
  <2>5. args'[p] = [args[p] EXCEPT ![f] = Base[f]]
    BY <1>1, <2>2 DEF OfBuild, Maps
  <2>6. pc'[p] = IF \A g \in found[p] \ {f} : args[p][g] # Original
                 THEN "compile" ELSE "write"
    BY <1>1, <2>2 DEF OfBuild
  <2>7. StepOf(p)
    BY <1>1, <2>2 DEF StepOf, SameFor, OfBuild, Maps, PC
  <2>8. /\ args[p] \in [Files(p) -> {Base[g] : g \in Files(p)} \cup {Original}]
        /\ \A b \in DOMAIN dir[p] : dir[p][b] \in Files(p)
        /\ \A g \in Files(p) : args[p][g] # Original =>
              /\ g \in found[p] /\ args[p][g] = Base[g]
              /\ Base[g] \in DOMAIN dir[p] /\ dir[p][Base[g]] = g
    BY <1>1, <2>1 DEF OfPackage, PackageType, Progress, Copies
  <2>9. \A g \in Files(p) : args'[p][g] = IF g = f THEN Base[f] ELSE args[p][g]
    BY <2>5, <2>8
  <2>10. args'[p] \in [Files(p) -> {Base[g] : g \in Files(p)} \cup {Original}]
    BY <2>3, <2>5, <2>8
  <2>11. \A b \in DOMAIN dir'[p] : dir'[p][b] \in Files(p)
    BY <2>3, <2>4, <2>8
  <2>12. ASSUME NEW g \in Files(p), args'[p][g] # Original
         PROVE  /\ g \in found[p] /\ args'[p][g] = Base[g]
                /\ Base[g] \in DOMAIN dir'[p] /\ dir'[p][Base[g]] = g
    <3>1. CASE g = f
      BY <3>1, <2>3, <2>4, <2>9
    <3>2. CASE g # f
      <4>1. Base[g] # Base[f]
        BY <2>3, <3>2, BaseAssumption DEF Files
      <4>2. args[p][g] # Original
        BY <2>9, <2>12, <3>2
      <4>3. QED
        BY <4>1, <4>2, <3>2, <2>4, <2>8, <2>9
    <3>3. QED
      BY <3>1, <3>2
  <2>13. p \in Importable
    BY <1>1, <2>1 DEF OfPackage, Progress, Where
  <2>14. PackageType(p)' /\ Untouched(p)'
    <3>1. \A g \in Files(p) : args'[p][g] = Original \/ args'[p][g] \in DOMAIN dir'[p]
      BY <2>12
    <3>2. UNCHANGED <<next, found>>
      BY <2>2
    <3>3. QED
      BY <1>1, <2>10, <2>11, <2>13, <3>1, <3>2
      DEF OfPackage, PackageType, Untouched, Files
  <2>15. FoundSoFar(p)' /\ Where(p)'
    BY <1>1, <2>1, <2>2, <2>6 DEF OfPackage, Progress, FoundSoFar, Where, Scanned
  <2>16. Copies(p)'
    <3>1. pc'[p] = "compile" => \A g \in found[p] : args'[p][g] # Original
      <4> SUFFICES ASSUME pc'[p] = "compile", NEW g \in found[p]
                   PROVE  args'[p][g] # Original
        OBVIOUS
      <4>1. g \in Files(p)
        BY <1>1 DEF OfPackage, PackageType
      <4>2. Base[f] # Original
        BY <2>3, SourceFacts
      <4>3. g # f => args[p][g] # Original
        BY <2>6
      <4>4. QED
        BY <2>9, <4>1, <4>2, <4>3
    <3>2. pc'[p] \in {"write", "compile"} /\ found' = found
      BY <2>2, <2>6
    <3>3. QED
      BY <2>11, <2>12, <3>1, <3>2 DEF Copies, Files
  <2>17. InBuild(p)'
    <3>1. pc'[p] # "done" /\ UNCHANGED <<shim, build, binary>>
      BY <2>2, <2>6
    <3>2. QED
      BY <1>1, <2>1, <3>1 DEF OfPackage, Progress, InBuild, Running
  <2>18. QED
    BY <2>2, <2>7, <2>14, <2>15, <2>16, <2>17, OneStep, SameCache
    DEF OfPackage, Progress
<1>4. QED
  BY <1>2, <1>3

\* The object of p is whole: the copies in place of what is tagged, and
\* nothing else.
LEMMA ReadWhole ==
    ASSUME NEW p \in Package, OfPackage(p), pc[p] = "compile",
           p \in Importable \/ \A f \in Files(p) : Read(p)[f] = Original
    PROVE  /\ Read(p) = [f \in Files(p) |->
                IF p # Runtime /\ Content[f] = "tagged" THEN f ELSE Original]
           /\ p = Runtime \/ \A f \in Files(p) : Content[f] # "invalid"
<1>1. Read(p) = [f \in Files(p) |->
            IF args[p][f] = Original THEN Original ELSE dir[p][args[p][f]]]
  BY DEF Read
<1>2. \A f \in Files(p) :
        /\ args[p][f] # Original =>
             f \in found[p] /\ args[p][f] = Base[f] /\ dir[p][Base[f]] = f
        /\ f \in found[p] => args[p][f] # Original
  BY DEF OfPackage, Progress, Copies
<1>3. \A f \in Files(p) : Read(p)[f] = IF f \in found[p] THEN f ELSE Original
  BY <1>1, <1>2
<1>4. CASE p = Runtime
  <2>1. found[p] = {}
    BY <1>4 DEF OfPackage, Progress, Where, FoundSoFar, Scanned
  <2>2. QED
    BY <1>1, <1>3, <1>4, <2>1
<1>5. CASE p # Runtime
  <2>1. next[p] = Len(Sources[p]) + 1 /\ Len(Sources[p]) \in Nat
    BY <1>5, SourceFacts DEF OfPackage, Progress, Where
  <2>2. Scanned(p) = Files(p)
    BY <2>1, SourceFacts DEF Scanned
  <2>3. \A f \in Files(p) : f \in found[p] <=> Content[f] = "tagged"
    BY <2>2 DEF OfPackage, Progress, FoundSoFar
  <2>4. \A f \in Files(p) : Content[f] # "invalid"
    BY <2>2 DEF OfPackage, Progress, FoundSoFar
  <2>5. QED
    BY <1>1, <1>3, <1>5, <2>3, <2>4
<1>6. QED
  BY <1>4, <1>5

\* What is compiled is a copy of each tagged source and the original of every
\* other, and the removal of the directory is tried, whether or not the compiler
\* fails.
LEMMA CompileStep ==
    ASSUME IInv, NEW p \in Package, Compile(p)
    PROVE  IInv'
<1> DEFINE key == <<p, build.id>>
           object == [binary |-> binary[p], read |-> Read(p)]
<1>1. OfBuild /\ OfCache /\ OfPackage(p)
  BY Parts
<1>2. CASE Fail(p)
  BY <1>2, FailStep DEF Compile, Running
<1>3. CASE ~Fail(p)
  <2>1. /\ pc[p] = "compile" /\ pc'[p] = "done"
        /\ dir'[p] = Nil \/ (dir'[p] = dir[p] /\ removal'[p] = "failed")
        /\ p \in Importable \/ \A f \in Files(p) : Read(p)[f] = Original
        /\ UNCHANGED <<shim, build, binary, next, found, args>>
    BY <1>1, <1>3, ReturnIs DEF Compile, OfBuild, Maps
  <2>2. cache' = [k \in DOMAIN cache \cup {key} |-> IF k = key THEN object ELSE cache[k]]
    BY <1>3 DEF Compile
  <2>3. /\ build # Nil /\ binary[p] = shim
        /\ shim \in Shim
        /\ build.id \in Ids /\ build.id \in SelfID(shim)
    BY <1>1, <2>1
    DEF OfBuild, OneDriver, OfPackage, Progress, InBuild, Running
  <2>4. StepOf(p)
    BY <1>1, <1>3, <2>2, ReturnIs DEF Compile, StepOf, SameFor, OfBuild, Maps, PC
  <2>5. OfCache'
    <3>1. DOMAIN cache' = DOMAIN cache \cup {key} /\ cache'[key] = object
          /\ \A k \in DOMAIN cache : k # key => cache'[k] = cache[k]
      BY <2>2
    <3>2. key \in Package \X Ids /\ key[1] = p /\ key[2] = build.id
      BY <2>3
    <3>3. Read(p) = [f \in Files(p) |->
                IF p # Runtime /\ Content[f] = "tagged" THEN f ELSE Original]
          /\ (p = Runtime \/ \A f \in Files(p) : Content[f] # "invalid")
      BY <1>1, <2>1, ReadWhole
    <3>4. object \in Objects(p)
      BY <2>3, <3>3 DEF Objects
    <3>5. DOMAIN cache' \subseteq Package \X Ids
      BY <1>1, <3>1, <3>2 DEF OfCache
    <3>6. \A k \in DOMAIN cache' : cache'[k] \in Objects(k[1])
      BY <1>1, <3>1, <3>2, <3>4 DEF OfCache
    <3>7. Keyed'
      BY <1>1, <2>3, <3>1, <3>2 DEF OfCache, Keyed
    <3>8. WholePackage'
      <4> SUFFICES ASSUME NEW k \in DOMAIN cache'
                   PROVE  /\ cache'[k].read = [f \in Files(k[1]) |->
                                IF k[1] # Runtime /\ Content[f] = "tagged"
                                THEN f ELSE Original]
                          /\ k[1] = Runtime
                             \/ \A f \in Files(k[1]) : Content[f] # "invalid"
        BY DEF WholePackage, Files
      <4>1. CASE k = key
        BY <4>1, <3>1, <3>2, <3>3
      <4>2. CASE k # key
        BY <4>2, <1>1, <3>1 DEF OfCache, WholePackage
      <4>3. QED
        BY <4>1, <4>2
    <3>9. QED
      BY <3>5, <3>6, <3>7, <3>8 DEF OfCache, Objects, Files
  <2>6. PackageType(p)' /\ Untouched(p)'
    BY <1>1, <2>1 DEF OfPackage, PackageType, Untouched, Files
  <2>7. FoundSoFar(p)' /\ Where(p)'
    BY <1>1, <2>1 DEF OfPackage, Progress, FoundSoFar, Where, Scanned
  <2>8. Copies(p)'
    BY <1>1, <2>1 DEF OfPackage, Progress, Copies, Files
  <2>9. InBuild(p)'
    BY <2>1, <2>2 DEF InBuild, Running
  <2>10. QED
    BY <2>4, <2>5, <2>6, <2>7, <2>8, <2>9, OneStep DEF OfPackage, Progress
<1>4. QED
  BY <1>2, <1>3

\* A process that is killed puts nothing in the cache.
LEMMA KillStep ==
    ASSUME IInv, NEW p \in Package, Kill(p)
    PROVE  IInv'
<1>1. OfBuild /\ OfPackage(p)
  BY Parts
<1>2. pc'[p] = "killed" /\ UNCHANGED <<shim, build, cache, proc>>
  BY <1>1 DEF Kill, OfBuild
<1>3. StepOf(p)
  BY <1>1, <1>2 DEF StepOf, SameFor, Kill, OfBuild, Maps, PC, proc
<1>4. OfPackage(p)'
  <2>1. PackageType(p)' /\ Untouched(p)'
    BY <1>1, <1>2 DEF OfPackage, PackageType, Untouched, Files, proc
  <2>2. FoundSoFar(p)' /\ Where(p)' /\ InBuild(p)'
    BY <1>1, <1>2
    DEF OfPackage, Progress, FoundSoFar, Where, Scanned, InBuild, Running, proc
  <2>3. Copies(p)'
    BY <1>1, <1>2 DEF OfPackage, Progress, Copies, Files, proc
  <2>4. QED
    BY <2>1, <2>2, <2>3 DEF OfPackage, Progress
<1>5. QED
  BY <1>2, <1>3, <1>4, OneStep, SameCache

-------------------------------------------------------------------------------
\* Every process is as it begins: nothing is scanned, nothing is written.
Fresh ==
    /\ next = [p \in Package |-> 1]
    /\ found = [p \in Package |-> {}]
    /\ dir = [p \in Package |-> Nil]
    /\ args = [p \in Package |-> Unchanged(p)]
    /\ removal = [p \in Package |-> "none"]

\* A package with nothing scanned and nothing copied is where its invariant
\* wants it before its process runs.
LEMMA FreshPackage ==
    ASSUME NEW p \in Package, Fresh, pc[p] \in {"pending", "done"},
           pc[p] = "done" => build = Nil
    PROVE  OfPackage(p)
<1>1. next[p] = 1 /\ found[p] = {} /\ dir[p] = Nil /\ args[p] = Unchanged(p)
  BY DEF Fresh
<1>2. PackageType(p) /\ Untouched(p)
  BY <1>1, SourceFacts DEF PackageType, Untouched, Unchanged
<1>3. FoundSoFar(p) /\ Where(p) /\ InBuild(p)
  BY <1>1 DEF FoundSoFar, Scanned, Where, InBuild, Running
<1>4. Copies(p)
  BY <1>1 DEF Copies, Unchanged
<1>5. QED
  BY <1>2, <1>3, <1>4 DEF OfPackage, Progress

\* The same of the next state.
LEMMA FreshPackageNext ==
    ASSUME NEW p \in Package, Fresh', pc'[p] = "pending"
    PROVE  OfPackage(p)'
<1>1. next'[p] = 1 /\ found'[p] = {} /\ dir'[p] = Nil /\ args'[p] = Unchanged(p)
  BY DEF Fresh, Unchanged, Files
<1>2. PackageType(p)' /\ Untouched(p)'
  BY <1>1, SourceFacts DEF PackageType, Untouched, Unchanged, Files
<1>3. FoundSoFar(p)' /\ Where(p)' /\ InBuild(p)'
  BY <1>1 DEF FoundSoFar, Scanned, Where, InBuild, Running
<1>4. Copies(p)'
  BY <1>1 DEF Copies, Unchanged, Files
<1>5. QED
  BY <1>2, <1>3, <1>4 DEF OfPackage, Progress

\* Before the first build the cache is empty and no process has run.
LEMMA InitIInv == Init => IInv
<1> SUFFICES ASSUME Init PROVE IInv
  OBVIOUS
<1>1. Fresh /\ \A p \in Package : pc[p] = "done" /\ build = Nil
  BY DEF Init, Fresh
<1>2. \A p \in Package : OfPackage(p)
  BY <1>1, FreshPackage
<1>3. OfBuild
  BY DEF Init, OfBuild, OneDriver, Maps, PC
<1>4. OfCache
  BY DEF Init, OfCache, Keyed, WholePackage
<1>5. QED
  BY <1>2, <1>3, <1>4, Parts

\* A build begins with an identity of the driver on disk.
LEMMA RunVersionStep ==
    ASSUME IInv, RunVersion
    PROVE  IInv'
<1>1. OfBuild
  BY Parts
<1>2. PICK id \in SelfID(shim) : build' = [id |-> id, shim |-> shim]
  BY DEF RunVersion
<1>3. id \in Ids /\ shim \in Shim
  BY <1>1, <1>2, SelfIDFacts DEF OfBuild
<1>4. \A p \in Package : OfPackage(p)'
  <2>1. Fresh' /\ \A p \in Package : pc'[p] = "pending"
    BY DEF RunVersion, Fresh, Unchanged, Files
  <2>2. QED
    BY <2>1, FreshPackageNext
<1>5. OfBuild'
  BY <1>2, <1>3 DEF RunVersion, OfBuild, OneDriver, Maps, PC
<1>6. QED
  BY <1>4, <1>5, SameCache, PartsNext DEF RunVersion

\* The driver is rebuilt between builds only.
LEMMA RebuildStep ==
    ASSUME IInv, NEW s \in Shim, Rebuild(s)
    PROVE  IInv'
<1>1. OfBuild /\ \A p \in Package : OfPackage(p)
  BY Parts
<1>2. shim' = s /\ build = Nil /\ UNCHANGED <<build, cache, pc, proc>>
  BY DEF Rebuild
<1>3. \A p \in Package : OfPackage(p)'
  <2> SUFFICES ASSUME NEW p \in Package PROVE OfPackage(p)'
    OBVIOUS
  <2>1. PackageType(p)' /\ Untouched(p)'
    BY <1>1, <1>2 DEF OfPackage, PackageType, Untouched, Files, proc
  <2>2. FoundSoFar(p)' /\ Where(p)'
    BY <1>1, <1>2 DEF OfPackage, Progress, FoundSoFar, Where, Scanned, proc
  <2>3. Copies(p)'
    BY <1>1, <1>2 DEF OfPackage, Progress, Copies, Files, proc
  <2>4. InBuild(p)'
    BY <1>1, <1>2 DEF OfPackage, Progress, InBuild, proc
  <2>5. QED
    BY <2>1, <2>2, <2>3, <2>4 DEF OfPackage, Progress
<1>4. OfBuild'
  BY <1>1, <1>2 DEF OfBuild, OneDriver, Maps, proc
<1>5. QED
  BY <1>2, <1>3, <1>4, SameCache, PartsNext

\* The end of a build leaves the cache and the packages as they are.
LEMMA EndBuildStep ==
    ASSUME IInv, EndBuild
    PROVE  IInv'
<1>1. OfBuild /\ \A p \in Package : OfPackage(p)
  BY Parts
<1>2. build' = Nil /\ UNCHANGED <<shim, cache, pc, proc>>
  BY DEF EndBuild
<1>3. \A p \in Package : OfPackage(p)'
  <2> SUFFICES ASSUME NEW p \in Package PROVE OfPackage(p)'
    OBVIOUS
  <2>1. PackageType(p)' /\ Untouched(p)'
    BY <1>1, <1>2 DEF OfPackage, PackageType, Untouched, Files, proc
  <2>2. FoundSoFar(p)' /\ Where(p)'
    BY <1>1, <1>2 DEF OfPackage, Progress, FoundSoFar, Where, Scanned, proc
  <2>3. Copies(p)'
    BY <1>1, <1>2 DEF OfPackage, Progress, Copies, Files, proc
  <2>4. InBuild(p)'
    <3>1. pc[p] \notin Running
      BY DEF EndBuild, Running, Ended
    <3>2. QED
      BY <1>2, <3>1 DEF InBuild
  <2>5. QED
    BY <2>1, <2>2, <2>3, <2>4 DEF OfPackage, Progress
<1>4. OfBuild'
  BY <1>1, <1>2 DEF OfBuild, OneDriver, Maps, proc
<1>5. QED
  BY <1>2, <1>3, <1>4, SameCache, PartsNext

-------------------------------------------------------------------------------
\* A step that changes nothing keeps the invariant.
LEMMA StutterStep ==
    ASSUME IInv, UNCHANGED vars
    PROVE  IInv'
<1>1. UNCHANGED <<shim, build, cache, pc, binary, next, found, dir, args, removal>>
  BY DEF vars, proc
<1>2. OfBuild'
  BY <1>1, Parts DEF OfBuild, OneDriver, Maps
<1>3. \A p \in Package : OfPackage(p)'
  BY <1>1, Parts, Frame DEF SameFor
<1>4. QED
  BY <1>1, <1>2, <1>3, SameCache, PartsNext

\* Every step keeps the invariant.
LEMMA StepIInv == IInv /\ [Next]_vars => IInv'
<1> SUFFICES ASSUME IInv, [Next]_vars PROVE IInv'
  OBVIOUS
<1>1. CASE \E s \in Shim : Rebuild(s)
  BY <1>1, RebuildStep
<1>2. CASE RunVersion
  BY <1>2, RunVersionStep
<1>3. CASE EndBuild
  BY <1>3, EndBuildStep
<1>4. ASSUME NEW p \in Package,
             \/ Reuse(p) \/ Run(p) \/ Scan(p) \/ MkdirTemp(p) \/ WriteFile(p)
             \/ Compile(p) \/ Kill(p)
      PROVE  IInv'
  BY <1>4, ReuseStep, RunStep, ScanStep, MkdirTempStep, WriteFileStep,
     CompileStep, KillStep
<1>5. CASE UNCHANGED vars
  BY <1>5, StutterStep
<1>6. QED
  BY <1>1, <1>2, <1>3, <1>4, <1>5 DEF Next

\* IInv holds in every state, for any packages, sources and failures.
THEOREM Invariant == Spec => []IInv
BY InitIInv, StepIInv, PTL DEF Spec

\* The variables keep their types: an object is keyed by an identity that a
\* driver may give, and no argument names a copy that is not there.
THEOREM TypeCorrect == Spec => []TypeOK
<1>1. IInv => TypeOK
  BY DEF IInv
<1>2. QED
  BY <1>1, Invariant, PTL

\* What is in the cache was compiled whole, whatever fails, is killed or is
\* rebuilt: gated copies of the tagged sources and only those, and nothing of
\* a package with a file that rewrite refuses.
THEOREM WholePackageHolds == Spec => []WholePackage
<1>1. IInv => WholePackage
  BY DEF IInv
<1>2. QED
  BY <1>1, Invariant, PTL

\* A driver that returns has removed its temporary directory, unless removing
\* it is what failed.
THEOREM NoLeftoversHolds == Spec => []NoLeftovers
<1>1. IInv => NoLeftovers
  BY DEF IInv, Progress, Copies, NoLeftovers
<1>2. QED
  BY <1>1, Invariant, PTL

\* A package that cannot import the runtime never gets a directory or a copy:
\* what is compiled of it, if anything, is its originals.
THEOREM CompilableHolds == Spec => []Compilable
<1>1. IInv => Compilable
  BY DEF IInv
<1>2. QED
  BY <1>1, Invariant, PTL

\* A driver that can read itself makes a build use its own objects only.
\* Without that hypothesis an older driver's object may be used: a run shows
\* it.
THEOREM CacheFreshHolds ==
    ASSUME ~HashMayFail
    PROVE  Spec => []CacheFresh
<1>1. IInv => CacheFresh
  <2> SUFFICES ASSUME IInv, build # Nil, NEW p \in Package, pc[p] = "done"
               PROVE  cache[<<p, build.id>>].binary = build.shim
    BY DEF CacheFresh
  <2>1. OfBuild /\ OfCache /\ OfPackage(p)
    BY Parts
  <2>2. <<p, build.id>> \in DOMAIN cache
    BY <2>1 DEF OfPackage, Progress, InBuild
  <2>3. build.shim \in Shim /\ build.id = build.shim
    BY <2>1, SelfIDFacts DEF OfBuild, OneDriver
  <2>4. cache[<<p, build.id>>].binary \in Shim
    BY <2>1, <2>2 DEF OfCache, Objects
  <2>5. build.id \in SelfID(cache[<<p, build.id>>].binary)
    BY <2>1, <2>2 DEF OfCache, Keyed
  <2>6. QED
    BY <2>3, <2>4, <2>5, SelfIDFacts
<1>2. QED
  BY <1>1, Invariant, PTL

===============================================================================
