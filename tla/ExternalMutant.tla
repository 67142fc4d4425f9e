--------------------------- MODULE ExternalMutant ---------------------------
(* How integration tests are built against a mutated library, main.rs,         *)
(* passes/external_mutant, passes/compilation.rs and inject.rs of              *)
(* mutest-driver. Cargo has a driver compile each library, and then a driver   *)
(* compile each test, several of them at the same time. The driver of a test   *)
(* chooses the library to mutate, has a child compile it again with the        *)
(* mutations that the tests reach, compiles what was built on it again, and    *)
(* links the tests against these. They meet in files only: artifacts, records  *)
(* beside them, and the directory by which a driver and its child exchange.    *)
EXTENDS Integers, FiniteSets, SequencesExt, TLC

CONSTANT
    Setups      \* workspaces, what earlier runs left of them, and what goes wrong

VARIABLES
    setup,      \* the one that is built
    libs,       \* how far the driver of each library is
    files,      \* the artifacts: what was built, by crate, suffix of the name and form
    records,    \* the records beside artifacts
    drivers,    \* the driver of each test
    child,      \* and its child
    exchange    \* the directories mutest-replay-<pid>, by the test of the driver

builds == <<setup, libs, files, records, drivers, child, exchange>>

NoCrate == "no crate"
Runtime == "mutest_runtime"
Plain == <<>>
NoResult == [metadata |-> FALSE, dependencies |-> {}]
Libs == ToSet(setup.libs)       \* in the order of their dependencies
Tests == DOMAIN setup.tests
Test(t) == setup.tests[t]
Fault(kind, who) == <<kind, who>> \in setup.faults
IsMacro(c) == c # Runtime /\ setup.types[c] = "proc-macro"

-----------------------------------------------------------------------------
(* What rustc builds: a crate from its source in an environment, with mutations of targets, on other builds. *)

Build(c, suffix, targets, candidate, env, deps) ==
    [crate |-> c, suffix |-> suffix, targets |-> targets, candidate |-> candidate, env |-> env, deps |-> deps]
RuntimeBuild(version) == Build(Runtime, Plain, {}, FALSE, version, {})
RuntimeFile == <<Runtime, Plain, "rlib">>

\* A procedural macro brings its own dependencies, which are not linked.
RECURSIVE Linked(_)
Linked(bs) == bs \union UNION {Linked(b.deps) : b \in {a \in bs : ~IsMacro(a.crate)}}

\* metadata_dependencies: the metadata names each crate that a crate was built on, below its dependencies too.
MetadataDependencies(b) == Linked(b.deps)

\* Every crate that is linked is found by its hash, where the compiler is told to look, and there is one build of it.
Directory(b) == IF b.crate = Runtime THEN "mutest_deps" ELSE "deps"
Links(bs, search) ==
    /\ \A b \in Linked(bs) : Directory(b) \in search /\ b # RuntimeBuild("partial") /\ \E x \in DOMAIN files : files[x] = b
    /\ \A a, b \in Linked(bs) : a.crate = b.crate => a = b

Write(xs, build) == files' = [x \in xs |-> build] @@ files

-----------------------------------------------------------------------------
(* Invocations *)

\* main: an invocation that mutest has nothing to do with is one of rustc; otherwise the crate is handled as one of the kinds.
FallsBack(inv) == inv.type = "proc-macro" \/ (inv.probe /\ ~inv.replay) \/ (inv.type = "bin" /\ ~inv.test)

\* fetch_cargo_target_kind, guess_test_type: the target of Cargo that is compiled, or else the directory of the file.
CargoTargetKind(t) == IF ~setup.cargo \/ Test(t).kind \in {"proc-macro", "bench"} THEN "none" ELSE Test(t).kind
TestKind(t) ==
    IF CargoTargetKind(t) = "test" \/ (CargoTargetKind(t) = "none" /\ Test(t).dir = "tests")
    THEN "IntegrationTest" ELSE "MutantWithInternalTests"
CrateKind(inv) ==
    CASE FallsBack(inv) -> "rustc"
      [] ~FallsBack(inv) /\ inv.replay -> "MutantForExternalTests"
      [] ~FallsBack(inv) /\ ~inv.replay /\ ~inv.test -> "RecompilableDepCrate"
      [] OTHER -> TestKind(inv.of)
ProducesMutations(kind) == kind \in {"MutantWithInternalTests", "MutantForExternalTests"}

OfLib(c) ==
    [of |-> c, type |-> IF setup.types[c] = "probe" THEN "lib" ELSE setup.types[c], test |-> FALSE, replay |-> FALSE,
     probe |-> setup.types[c] = "probe"]
OfChild(c) == [OfLib(c) EXCEPT !.replay = TRUE]
OfTest(t) == [of |-> t, type |-> "bin", test |-> TRUE, replay |-> FALSE, probe |-> FALSE]

-----------------------------------------------------------------------------
(* Records *)

\* artifact_paths: of one compilation, those that other crates are compiled against.
Forms(c) == IF CrateKind(OfLib(c)) = "rustc" THEN {"dylib"} ELSE {"rmeta", "rlib"}
Artifacts(c) == {<<c, Plain, form>> : form \in Forms(c)}
\* Cargo has a library compiled against metadata, and a test against what it links.
ExternOf(c, form) == <<c, Plain, IF form \in Forms(c) THEN form ELSE "dylib">>
\* with_suffix
WithSuffix(x, suffix) == <<x[1], x[2] \o suffix, x[3]>>

\* compile_recompilable_dep_crate: Cargo was asked for the crate, or there is no Cargo.
Candidate(c) == CrateKind(OfLib(c)) # "rustc" /\ (~setup.cargo \/ c \in setup.primary)

\* capture, and what publish adds
RecordOf(c, x) ==
    [usable |-> TRUE, artifact |-> x, paired |-> Artifacts(c), crate |-> c, package |-> setup.packages[c],
     externs |-> {ExternOf(d, "rmeta") : d \in setup.deps[c]}, env |-> setup.env[c]]

\* load: not missing, and of this version, this compiler and this artifact.
Usable(x) == x \in DOMAIN records /\ records[x].usable /\ records[x].artifact = x

-----------------------------------------------------------------------------
(* Drivers of libraries *)

LibFrame == UNCHANGED <<setup, drivers, child, exchange>>
Advance(c, to) == libs' = [libs EXCEPT ![c] = to]
BuildFailed == (\E c \in Libs : libs[c] = "failed") \/ (\E t \in Tests : drivers[t].at = "failed")

\* compile_recompilable_dep_crate, or rustc: Cargo starts it once there is metadata of what the crate is compiled against,
\* and nothing has failed.
EmitMetadata(c) ==
    LET build == Build(c, Plain, {}, Candidate(c), setup.env[c], {files[ExternOf(d, "rmeta")] : d \in setup.deps[c]})
    IN  /\ libs[c] = "waiting" /\ ~BuildFailed
        /\ \A d \in setup.deps[c] : libs[d] \in {"metadata", "linked", "done"}
        /\ \/ CrateKind(OfLib(c)) = "rustc" /\ Write(Artifacts(c), build) /\ Advance(c, "done")
           \/ CrateKind(OfLib(c)) # "rustc" /\ Write({<<c, Plain, "rmeta">>}, build) /\ Advance(c, "metadata")
        /\ UNCHANGED records /\ LibFrame

LinkLib(c) ==
    /\ libs[c] = "metadata"
    /\ Write({<<c, Plain, "rlib">>}, files[<<c, Plain, "rmeta">>])
    /\ Advance(c, "linked")
    /\ UNCHANGED records /\ LibFrame

\* publish: nobody reads a record before all of them are written.
Publish(c) ==
    /\ libs[c] = "linked" /\ ~Fault("publish", c)
    /\ records' = [x \in Artifacts(c) |-> RecordOf(c, x)] @@ records
    /\ Advance(c, "done")
    /\ UNCHANGED files /\ LibFrame

PublishFails(c) ==
    /\ libs[c] = "linked" /\ Fault("publish", c)
    /\ Advance(c, "failed")
    /\ UNCHANGED <<files, records>> /\ LibFrame

-----------------------------------------------------------------------------
(* What the driver of a test and its child tell each other *)

\* replay.rs: Targets::encode and decode, and the stable targets of mod.rs
Source(s) == IF s = "EnclosingUnsafe" THEN 0 ELSE 1
Unsource(n) == IF n = 0 THEN "EnclosingUnsafe" ELSE "Unsafe"
EncodedUnsafety(u) == CASE u.is = "None" -> 0 [] u.is = "Tainted" -> 1 + Source(u.by) [] u.is = "Unsafe" -> 3 + Source(u.by)
DecodedUnsafety(n) ==
    CASE n = 0 -> [is |-> "None"]
      [] n \in 1..2 -> [is |-> "Tainted", by |-> Unsource(n - 1)]
      [] n \in 3..4 -> [is |-> "Unsafe", by |-> Unsource(n - 3)]
EncodedEntry(e) == [e EXCEPT !.unsafeCallPath = IF @ = "None" THEN <<>> ELSE <<Source(@)>>]
DecodedEntry(e) == [e EXCEPT !.unsafeCallPath = IF @ = <<>> THEN "None" ELSE Unsource(@[1])]
Encode(targets) ==
    {[fn |-> g.fn, unsafety |-> EncodedUnsafety(g.unsafety), entries |-> {EncodedEntry(e) : e \in g.entries},
      distance |-> IF g.reachability.is = "DirectEntry" THEN <<>> ELSE <<g.reachability.distance>>] : g \in targets}
Decode(targets) ==
    {[fn |-> g.fn, unsafety |-> DecodedUnsafety(g.unsafety), entries |-> {DecodedEntry(e) : e \in g.entries},
      reachability |-> IF g.distance = <<>> THEN [is |-> "DirectEntry"] ELSE [is |-> "NestedCallee", distance |-> g.distance[1]]] : g \in targets}

-----------------------------------------------------------------------------
(* Drivers of tests *)

TestFrame == UNCHANGED <<setup, libs, records>>
Driver(t) == drivers[t]
Move(t, to) == drivers' = [drivers EXCEPT ![t].at = to]
RECURSIVE Reached(_)
Reached(cs) == cs \union UNION {Reached(setup.deps[c]) : c \in cs}
\* Mutant: the suffix has only the name of the crate.
SuffixOfCrate(t) == <<Test(t).crate>>
\* analysis::run: the name of the crate, and the extra filename by which Cargo tells crates of one name apart.
Suffix(t) == <<Test(t).crate, Test(t).extra>>

StartTest(t) ==
    /\ Driver(t).at = "waiting" /\ ~BuildFailed
    /\ \A c \in Reached(Test(t).externs) : libs[c] = "done"
    /\ Move(t, "analysis")
    /\ TestFrame /\ UNCHANGED <<files, child, exchange>>

\* stop_once_the_build_has_failed, abort_if_requested
StopTest(t) ==
    /\ Driver(t).at = "analysis" /\ setup.marker /\ BuildFailed
    /\ Move(t, "stopped")
    /\ TestFrame /\ UNCHANGED <<files, child, exchange>>

\* inject_runtime_crate_and_deps: in the analysis of an integration test, and before any test is compiled.
Injects(t) ==
    \/ Driver(t).at = "analysis" /\ ~ProducesMutations(CrateKind(OfTest(t)))
    \/ Driver(t).at = "tests" /\ setup.emit
RuntimeIs(t, is) == drivers' = [drivers EXCEPT ![t].runtime = is]
UpToDate == RuntimeFile \in DOMAIN files /\ files[RuntimeFile] = RuntimeBuild("now")

\* extract_file: other drivers, of this version, extract the runtime at the same time. A child finds it done.
CheckRuntime(t) ==
    /\ Injects(t) /\ Driver(t).runtime = "unknown"
    /\ RuntimeIs(t, IF UpToDate THEN "ready" ELSE "outdated")
    /\ TestFrame /\ UNCHANGED <<files, child, exchange>>

\* Mutant: the file is written in place.
WriteInPlace(t) ==
    /\ Driver(t).runtime = "outdated"
    /\ RuntimeIs(t, "written")
    /\ Write({RuntimeFile}, RuntimeBuild("partial"))
    /\ TestFrame /\ UNCHANGED <<child, exchange>>

\* A file of its own is written first,
WriteAside(t) ==
    /\ Driver(t).runtime = "outdated"
    /\ RuntimeIs(t, "written")
    /\ TestFrame /\ UNCHANGED <<files, child, exchange>>

\* and renamed.
RenameRuntime(t) ==
    /\ Driver(t).runtime = "written"
    /\ RuntimeIs(t, "ready")
    /\ Write({RuntimeFile}, RuntimeBuild("now"))
    /\ TestFrame /\ UNCHANGED <<child, exchange>>

\* The crates that the compiler has loaded for the names in the test, and where from.
Loaded(t) == Linked({files[ExternOf(c, "rlib")] : c \in Test(t).names})
ArtifactOf(t, c) == ExternOf(c, IF c \in Test(t).externs THEN "rlib" ELSE "rmeta")
DependsOn(a, on) == \E b \in MetadataDependencies(a) : b.crate = on

\* base_candidates, is_of_own_cargo_package, choose_mutant_crate
BaseCandidates(bs) == {b.crate : b \in {a \in bs : ~\E other \in bs \ {a} : DependsOn(a, other.crate)}}
IsOfOwnPackage(t, c) ==
    LET x == ArtifactOf(t, c) IN setup.cargo /\ Usable(x) /\ records[x].package = Test(t).package
OnlyOf(cs) == IF Cardinality(cs) = 1 THEN cs ELSE {}
ChooseMutantCrate(t, linked, named) ==
    LET own == {c \in linked : IsOfOwnPackage(t, c)}
    IN  CASE OnlyOf(linked) # {} -> linked
          [] OnlyOf(linked) = {} /\ own # {} -> own
          [] OTHER -> OnlyOf(named)
\* find_harness_in_extern_crate
HasHarness(b) == b.candidate
\* mutant_crate_for_tests
MutantCrate(t, loaded) ==
    LET linked == {b \in loaded : HasHarness(b)}
        choice == ChooseMutantCrate(t, {b.crate : b \in linked}, BaseCandidates({b \in linked : b.crate \in Test(t).names}))
    IN  IF choice = {} THEN NoCrate ELSE CHOOSE c \in choice : TRUE

\* dependents: the crates between the tests and the mutant, those below first.
Dependents(loaded, m) == SelectSeq(setup.libs, LAMBDA c : \E b \in loaded : b.crate = c /\ DependsOn(b, m))

\* reached_tests: without a mutant the tests of an integration test are stripped.
KeepsTests(mutates, m) == mutates \/ m # NoCrate

\* analysis::run, what it asks the child for
AnalyzeTest(t) ==
    LET mutates == ProducesMutations(CrateKind(OfTest(t)))
        found(m) == [Driver(t) EXCEPT !.kept = KeepsTests(mutates, m), !.mutant = m]
        recordOf(c) == records[ArtifactOf(t, c)]
        usable(c) == Usable(ArtifactOf(t, c))
    IN  /\ Driver(t).at = "analysis" /\ (Injects(t) => Driver(t).runtime = "ready")
        /\ \E loaded \in {Loaded(t)} : \E m \in {IF mutates THEN NoCrate ELSE MutantCrate(t, loaded)} :
           \E above \in {Dependents(loaded, m)} : drivers' = [drivers EXCEPT ![t] =
                CASE m = NoCrate -> [found(m) EXCEPT !.at = "tests"]
                  [] m # NoCrate /\ (~usable(m) \/ \E i \in DOMAIN above : ~usable(above[i])) -> [found(m) EXCEPT !.at = "failed"]
                  [] OTHER -> [found(m) EXCEPT !.at = "request", !.record = recordOf(m),
                                               !.todo = [i \in DOMAIN above |-> recordOf(above[i])]]]
        /\ TestFrame /\ UNCHANGED <<files, child, exchange>>

\* compile_in_child: what a killed driver of the same process id left is written over.
WriteRequest(t) ==
    LET request == [targets |-> Encode(Test(t).targets[Driver(t).mutant]), suffix |-> Suffix(t)]
        left == IF t \in DOMAIN exchange THEN exchange[t].result ELSE NoResult
    IN  /\ Driver(t).at = "request" /\ ~Fault("exchange", t)
        /\ exchange' = (t :> [request |-> request, result |-> left]) @@ exchange
        /\ child' = [child EXCEPT ![t] = "compiling"]
        /\ Move(t, "child")
        /\ TestFrame /\ UNCHANGED files

\* compile_specialized_mutant_crate removes the directory, whatever has happened.
RemoveExchange(t) == exchange' = [u \in DOMAIN exchange \ {t} |-> exchange[u]]

RequestFails(t) ==
    /\ Driver(t).at = "request" /\ Fault("exchange", t)
    /\ RemoveExchange(t)
    /\ Move(t, "failed")
    /\ TestFrame /\ UNCHANGED <<files, child>>

\* What follows when the child has ended well
ReadResult(t) ==
    LET result == exchange[t].result
    IN  /\ Driver(t).at = "child" /\ child[t] = "ended"
        /\ RemoveExchange(t)
        /\ IF result.metadata # setup.emit THEN Move(t, "failed")
           ELSE IF ~setup.emit THEN Move(t, "checked")
           ELSE drivers' = [drivers EXCEPT ![t].at = "dependents", ![t].search = result.dependencies,
                                           ![t].replaced = [x \in Driver(t).record.paired |-> WithSuffix(x, Suffix(t))]]
        /\ TestFrame /\ UNCHANGED <<files, child>>

ChildHasFailed(t) ==
    /\ Driver(t).at = "child" /\ child[t] = "failed"
    /\ RemoveExchange(t)
    /\ Move(t, "failed")
    /\ TestFrame /\ UNCHANGED <<files, child>>

\* replay_command: the recorded environment, and nothing of that of the tests.
Environment(r) == r.env

\* rebind_externs
Rebind(xs, replaced) == {IF x \in DOMAIN replaced THEN replaced[x] ELSE x : x \in xs}

RebuildSearch(t) == {"deps"} \union Driver(t).search

\* rebuild_dependent: rustc alone, with the recorded arguments and environment, and directories of what the mutant links.
RebuildDependent(t) ==
    LET r == Head(Driver(t).todo)
        on == {files[x] : x \in Rebind(r.externs, Driver(t).replaced)}
    IN  /\ Driver(t).at = "dependents" /\ Driver(t).todo # <<>>
        /\ IF Fault("rebuild", <<t, r.crate>>) \/ ~Links(on, RebuildSearch(t))
           THEN Move(t, "failed") /\ UNCHANGED files
           ELSE /\ Write({WithSuffix(x, Suffix(t)) : x \in r.paired}, Build(r.crate, Suffix(t), {}, FALSE, Environment(r), on))
                /\ drivers' = [drivers EXCEPT ![t].todo = Tail(@),
                                              ![t].replaced = [x \in r.paired |-> WithSuffix(x, Suffix(t))] @@ @]
        /\ TestFrame /\ UNCHANGED <<child, exchange>>

\* generate_harness: the tests name what they did, and the mutant.
Names(t) == Test(t).names \union ({Driver(t).mutant} \ {NoCrate})

\* inject_runtime_crate_and_deps: where dependencies are looked for, and the runtime is linked;
SearchPaths(t) == {"deps", "mutest_deps"} \union Driver(t).search
WithRuntime(xs) == {files[x] : x \in xs} \union {files[RuntimeFile]}
\* the mutant has to be an extern of the command line, and externs that were built again are replaced.
CanReplace(t) == Driver(t).mutant = NoCrate \/ Driver(t).mutant \in Test(t).externs
Externs(t) == Rebind({ExternOf(c, "rlib") : c \in Names(t)}, Driver(t).replaced)

\* lib::run, compilation::run
CompileTests(t) ==
    /\ Driver(t).at = "tests" \/ (Driver(t).at = "dependents" /\ Driver(t).todo = <<>>)
    /\ Injects(t) => Driver(t).runtime = "ready"
    /\ IF ~setup.emit THEN Move(t, "checked")
       ELSE IF ~CanReplace(t) \/ ~Links(WithRuntime(Externs(t)), SearchPaths(t)) THEN Move(t, "failed")
       ELSE drivers' = [drivers EXCEPT ![t].at = "built", ![t].harness = Linked(WithRuntime(Externs(t)))]
    /\ TestFrame /\ UNCHANGED <<files, child, exchange>>

-----------------------------------------------------------------------------
(* Children: a driver in the recorded environment, with the recorded arguments *)

\* into_target_session: the hashes are those of the functions when the library was compiled.
Decodable(r, targets) == Fault("edited", r.crate) => targets = {}

ChildCompiles(t) ==
    LET r == Driver(t).record
        request == exchange[t].request
        on == WithRuntime(r.externs)
    IN  /\ child[t] = "compiling"
        /\ CrateKind(OfChild(r.crate)) = "MutantForExternalTests"
        /\ IF Fault("child", t) \/ ~Decodable(r, request.targets) \/ ~Links(on, {"deps", "mutest_deps"})
           THEN child' = [child EXCEPT ![t] = "failed"] /\ UNCHANGED files
           ELSE /\ child' = [child EXCEPT ![t] = "compiled"]
                /\ IF setup.emit
                   THEN Write({WithSuffix(x, request.suffix) : x \in r.paired},
                              Build(r.crate, request.suffix, Decode(request.targets), FALSE, Environment(r), on))
                   ELSE UNCHANGED files
        /\ TestFrame /\ UNCHANGED <<drivers, exchange>>

\* write_replay_result: where the crates are that the mutant was compiled against.
ChildReports(t) ==
    LET on == WithRuntime(Driver(t).record.externs)
        result == [metadata |-> setup.emit, dependencies |-> IF setup.emit THEN {Directory(b) : b \in Linked(on)} ELSE {}]
    IN  /\ child[t] = "compiled"
        /\ IF Fault("report", t) THEN child' = [child EXCEPT ![t] = "failed"] /\ UNCHANGED exchange
           ELSE child' = [child EXCEPT ![t] = "ended"] /\ exchange' = [exchange EXCEPT ![t].result = result]
        /\ TestFrame /\ UNCHANGED <<files, drivers>>

-----------------------------------------------------------------------------
(* The builds of the crates when m is mutated for a test (none: as they are) *)

RECURSIVE BuildFor(_, _, _, _)
BuildFor(c, m, suffix, targets) ==
    LET on == {BuildFor(d, m, suffix, targets) : d \in setup.deps[c]}
    IN  CASE c = m -> Build(c, suffix, targets, FALSE, setup.env[c], on \union {RuntimeBuild("now")})
          [] c # m /\ m \in Reached({c}) -> Build(c, suffix, {}, FALSE, setup.env[c], on)
          [] OTHER -> Build(c, Plain, {}, Candidate(c), setup.env[c], on)
AsItIs(c) == BuildFor(c, NoCrate, Plain, {})

\* What earlier runs left: artifacts that are up to date, with a record that may not be usable, artifacts of sources that
\* have changed, and an exchange that was not removed, with the mutant that it was about.
Kept(s) == UNION {{<<c, Plain, form>> : form \in IF s.types[c] = "lib" THEN {"rmeta", "rlib"} ELSE {"dylib"}} : c \in s.fresh \union s.changed}
Starts(s) ==
    /\ setup = s
    /\ libs = [c \in ToSet(s.libs) |-> IF c \in s.fresh THEN "done" ELSE "waiting"]
    /\ files = [x \in Kept(s) |-> IF x[1] \in s.fresh THEN AsItIs(x[1]) ELSE Build(x[1], Plain, {}, FALSE, "before", {})]
                @@ [x \in {RuntimeFile : v \in s.runtime} |-> RuntimeBuild(CHOOSE v \in s.runtime : TRUE)]
    /\ records = [x \in {y \in Kept(s) : s.types[y[1]] = "lib" /\ y[1] \notin s.missing} |->
                    IF x[1] \in s.fresh THEN [RecordOf(x[1], x) EXCEPT !.usable = x[1] \notin s.stale]
                    ELSE [RecordOf(x[1], x) EXCEPT !.env = "before"]]
    /\ drivers = [t \in DOMAIN s.tests |->
                    [at |-> "waiting", mutant |-> NoCrate, kept |-> FALSE, record |-> <<>>, todo |-> <<>>, replaced |-> <<>>,
                     search |-> {}, runtime |-> "unknown", harness |-> {}]]
    /\ child = [t \in DOMAIN s.tests |-> "none"]
    /\ exchange = [t \in s.leftover |-> [request |-> [targets |-> {}, suffix |-> <<"before">>], result |-> [metadata |-> TRUE, dependencies |-> {}]]]

Next ==
    \/ \E c \in Libs : EmitMetadata(c) \/ LinkLib(c) \/ Publish(c) \/ PublishFails(c)
    \/ \E t \in Tests :
        \/ StartTest(t) \/ StopTest(t) \/ CheckRuntime(t) \/ WriteAside(t) \/ RenameRuntime(t) \/ AnalyzeTest(t) \/ WriteRequest(t) \/ RequestFails(t)
        \/ ChildCompiles(t) \/ ChildReports(t) \/ ReadResult(t) \/ ChildHasFailed(t)
        \/ RebuildDependent(t) \/ CompileTests(t)

-----------------------------------------------------------------------------
(* What the tests are built for *)

Candidates(t) == {c \in {b.crate : b \in Linked({AsItIs(d) : d \in Test(t).names})} : setup.types[c] = "lib" /\ (setup.cargo => c \in setup.primary)}
OwnLibrary(t) == {c \in Candidates(t) : setup.cargo /\ setup.packages[c] = Test(t).package /\ c \notin setup.stale \union setup.missing}
IsIntegrationTest(t) == IF setup.cargo /\ Test(t).kind \notin {"bench", "proc-macro"} THEN Test(t).kind = "test" ELSE Test(t).dir = "tests"

\* The mutant is the only candidate, or the library of the package of the
\* tests, or the one candidate that they name and that all others that they
\* name are built on; where there is no such crate, nothing is mutated.
ClearChoice(t, m) ==
    LET cs == Candidates(t)
        clear(c) == c \in Test(t).names /\ \A other \in cs \intersect Test(t).names : c \in Reached({other})
    IN  CASE Cardinality(cs) = 1 -> m \in cs
          [] Cardinality(cs) # 1 /\ OwnLibrary(t) # {} -> m \in OwnLibrary(t)
          [] OTHER -> IF \E c \in cs : clear(c) THEN clear(m) ELSE m = NoCrate

LinksOnly(t, m) ==
    Driver(t).harness = Linked({BuildFor(c, m, Suffix(t), IF m = NoCrate THEN {} ELSE Test(t).targets[m]) :
                                c \in Test(t).names \union ({m} \ {NoCrate})}) \union {RuntimeBuild("now")}

HasOwnMutant(t) ==
    LET m == Driver(t).mutant
    IN  Driver(t).at = "built" =>
            /\ IF IsIntegrationTest(t) THEN ClearChoice(t, m) ELSE m = NoCrate
            /\ LinksOnly(t, m)
            /\ Driver(t).kept <=> (m # NoCrate \/ ~IsIntegrationTest(t))

\* What the build of a test cannot survive
Doomed(t) ==
    LET m == Driver(t).mutant
        above == {b.crate : b \in {a \in Linked({AsItIs(c) : c \in Test(t).names}) : a.crate # m /\ m \in Reached({a.crate})}}
        unrecorded == {c \in Libs : c \in setup.stale \union setup.missing \/ setup.types[c] # "lib"}
    IN  /\ m # NoCrate
        /\ \/ ({m} \union above) \intersect unrecorded # {}
           \/ \E kind \in {"exchange", "child", "report"} : Fault(kind, t)
           \/ Fault("edited", m) /\ Test(t).targets[m] # {}
           \/ setup.emit /\ (m \notin Test(t).externs \/ \E c \in above : Fault("rebuild", <<t, c>>))

EndsRight(t) ==
    CASE Driver(t).at \in {"built", "checked"} -> ~Doomed(t) /\ (Driver(t).at = "built" <=> setup.emit)
      [] Driver(t).at = "failed" -> Doomed(t)
      [] Driver(t).at \in {"waiting", "stopped"} -> BuildFailed
      [] OTHER -> FALSE
AllEnded ==
    /\ \A t \in Tests : EndsRight(t) /\ child[t] \in {"none", "ended", "failed"}
    /\ \A t \in DOMAIN exchange : Driver(t).at \notin {"built", "checked", "failed"}
    /\ \A c \in Libs : libs[c] = "failed" <=> (Fault("publish", c) /\ c \notin setup.fresh /\ libs[c] # "waiting")
=============================================================================
