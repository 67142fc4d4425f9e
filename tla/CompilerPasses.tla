--------------------------- MODULE CompilerPasses ---------------------------
(* mutest-driver/src/passes/analysis.rs, what happens to the expanded syntax   *)
(* tree before it is mutated: the bodies are resolved, and then the names that *)
(* came out of macros are sanitized. The two passes look at different sides of *)
(* the tree, krate and program. Then the tests are built (ExternalMutant).     *)
EXTENDS BodyResolutions

CONSTANTS
    Rounds,         \* bound: after so many rounds all imports are resolved
    Programs,       \* programs with macros
    Setups          \* workspaces with integration tests

VARIABLES program, printed, at, hack, outcome
VARIABLES setup, libs, files, records, drivers, child, exchange

Hygiene == INSTANCE MacroHygiene
Tests == INSTANCE ExternalMutant

testBuilds == <<setup, libs, files, records, drivers, child, exchange>>
passes == <<program, printed, at, hack, outcome>>

\* resolve_bodies, validate_body_resolutions, and the lookups of definitions.
ResolveBodies == (VisitItem \/ VisitNode \/ Mismatch \/ Finalize \/ Validate \/ FindDef) /\ UNCHANGED <<passes, testBuilds>>

Resolved == phase = "validated" /\ Len(found) = Len(Definitions)

\* sanitize_macro_expansions; a panic before it ends the compiler.
SanitizeMacroExpansions == Resolved /\ Hygiene!Next /\ UNCHANGED <<resolvingVars, testBuilds>>

\* No nodes at all.
EmptyProgram ==
    [nodes |-> <<>>, expns |-> <<>>, names |-> <<>>, vis |-> <<>>, res |-> <<>>, selfTy |-> <<>>, imports |-> <<>>, prefixes |-> <<>>,
     externs |-> {}, prelude |-> 0, hidden |-> {}]

\* compile_specialized_mutant_crate, compilation::run: once the names are sanitized.
BuildTests == outcome = "printed" /\ Tests!Next /\ UNCHANGED <<resolvingVars, passes>>

\* Nothing to build.
NoTests ==
    [libs |-> <<>>, tests |-> <<>>, types |-> <<>>, runtime |-> {}, fresh |-> {}, changed |-> {}, missing |-> {}, stale |-> {}, leftover |-> {}, faults |-> {}]

\* The sides of the tree, and the tests, are varied one at a time.
PassesInit ==
    /\ ResolvingInit
    /\ \/ Hygiene!Starts(EmptyProgram) /\ Tests!Starts(NoTests)
       \/ krate = Identified(Crates[1], <<>>) /\ (\E p \in Programs : Hygiene!Starts(p)) /\ Tests!Starts(NoTests)
       \/ krate = Identified(Crates[1], <<>>) /\ Hygiene!Starts(EmptyProgram) /\ (\E s \in Setups : Tests!Starts(s))

PassesNext == ResolveBodies \/ SanitizeMacroExpansions \/ BuildTests

Passes == PassesInit /\ [][PassesNext]_<<resolvingVars, passes, testBuilds>> /\ WF_<<resolvingVars, passes, testBuilds>>(BuildTests)

-----------------------------------------------------------------------------
(* Properties *)

\* The printed program means what the program meant: every reference resolves
\* to what it resolved to before the marks of the macros were lost, everything
\* is as visible, and no two names of a module or block have become one
\* (hygiene.rs:1880). A reference loses its meaning in these cases, in each of
\* them, and nowhere else: only the last mark of a name is written, so that two
\* names of one scope, or two labels, become one if their last marks agree, and
\* a label and its use differ if theirs do not; a path that starts with a bare
\* name is caught by a variable or type parameter of that written name nearer
\* by, by an item or import of a block further in, or by an item that
\* `use a::b::{self}` brings into a block; a type in <> is written as if there
\* were no blocks; the item of a trait is used where the trait is in scope for
\* the macro alone; and a variant that only an alias of its enum leads to is
\* written without its mark. What is restricted to a module of a block is not
\* restricted to it any more.
PrintedMeansTheSame ==
    outcome = "printed" => Hygiene!KeepsMeaning

\* "Local variables and labels get resolved at definition-site (i.e. hygienic)"
\* (hygiene.rs:103): a name for one means the same after the marks are written.
LocalsAreHygienic ==
    outcome = "printed" =>
        \A i \in Hygiene!References(program) \intersect Hygiene!LocalNodes :
            (\E t \in program.res[i] : program.nodes[t].k \in {"Let", "Loop"}) => printed.res[i] = program.res[i]

\* Where the sanitizer panics, something that the node refers to has no path
\* that the node could use (hygiene.rs:382), or it is one of these: an import
\* that goes through an item of a block, one of a macro that goes through a
\* private module of another crate, one by hand that follows an item of a
\* macro 2.0 in its module, something of a crate that only an `extern crate` in
\* a module out of reach names, and a visibility restricted to a module of a
\* block.
PanicsOnlyAtHiddenNames ==
    outcome = "panicked" => (\E t \in Hygiene!Wanted(at) : ~Hygiene!Nameable(at, t)) \/ Hygiene!PanicsAtNameable(at)

\* A test is linked with the mutant that was compiled for it alone, with the
\* mutations of the targets that were found for it, with builds of all that
\* stands between that are built on this mutant, and otherwise with the crates
\* as they are, also when other tests are built at the same time or something
\* was left of an earlier run; and no other library had as good a claim to be
\* mutated (specialized_crate.rs:159, inject.rs:222, analysis.rs:115).
LinksOwnMutant ==
    \A t \in Tests!Tests : Tests!HasOwnMutant(t)

\* Whatever goes wrong, every build of a test ends: with an error when
\* something that it needs is missing or fails, and with its tests otherwise;
\* and nothing is left of the exchange with the child (specialized_crate.rs:55).
BuildsEnd ==
    outcome = "printed" ~> Tests!AllEnded
=============================================================================
