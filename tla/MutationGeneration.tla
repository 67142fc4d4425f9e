-------------------------- MODULE MutationGeneration --------------------------
(* The analysis pass of the compiler driver (mutest-driver/src/passes/         *)
(* analysis.rs), from the tests to the batches: the call graph and the walks   *)
(* (CallGraph), the targets within the mutation depth, the places of their     *)
(* bodies that the mutation operators are applied to (MutationOperators), the  *)
(* ids, the conflict graph, the batches (Batching), and the program that is    *)
(* written with all the mutations in it (Metamutant).                          *)
EXTENDS CallGraph, Batching, MutationOperators, Metamutant

CONSTANTS
    Places,     \* what the operators see of the places in the programs, by number
    Modes,      \* UnsafeTargeting: "Safe", "Cautious", "Risky", "Unsafe"
    Filters     \* the sets of functions that the mutation filters may leave

\* An operator proposes finitely many mutations, for each place of a function.
ASSUME PlacesAssumption ==
    /\ \A i \in DOMAIN Places : \A refersBack, localOnly \in BOOLEAN :
          IsFiniteSet(Proposals(Places[i], refersBack, localOnly))
    /\ \A p \in Programs :
          /\ p.localOnly \in BOOLEAN
          /\ \A f \in p.mutable : /\ p.sites[f] \in Seq(Range(p.sites[f]))
                                  /\ \A i \in DOMAIN p.sites[f] : p.sites[f][i].place \in DOMAIN Places

\* The programs compile. An operator between conditions of which one is a let stands in a let chain.
ASSUME CompiledAssumption ==
    /\ \A i \in DOMAIN Places : CompiledPlace(Places[i])
    /\ \A p \in Programs : \A f \in p.mutable : \A i \in DOMAIN p.sites[f] :
          LET place == Places[p.sites[f][i].place]
          IN  place.kind = "binary" /\ place.lets => p.sites[f][i].node = "let chain operator"

VARIABLES
    mode,       \* the unsafe targeting of this compilation
    filter,     \* the functions the mutation filters name
    mutations,  \* the mutations: records fn, site, inUnsafe, op, code, loc and local; the id of one is its position
    slots       \* the slots of the substitution map, once the program is written

vars == <<graphVars, batchVars, phase, mode, filter, mutations, slots>>

-----------------------------------------------------------------------------
(* The places of a function, in the order they are visited. A site is a        *)
(* record: path, the nodes around it from the body inwards; node, what stands  *)
(* there; and place, its number in Places.                                     *)

\* Nodes that MutationCollector does not descend into: what has no HIR node or is not local code, what is marked
\* #[mutest::ignore], the bodies of closures, nested items, types, constants, patterns and the left sides of assignments.
Closed == {"unmatched", "foreign span", "ignored", "closure", "item", "type", "const", "pattern", "assignee"}

\* Nodes that are passed over in favour of what they hold.
Transparent == {"parentheses", "single statement block", "let chain operator", "else block", "borrowed place"}

\* Whether the visitor comes to the site and offers it to the operators (visit_fn to visit_anon_const).
Offered(site) ==
    /\ Range(site.path) \cap Closed = {}
    /\ "unsafe block" \in Range(site.path) => mode = "Unsafe"
    /\ site.node \notin Transparent \cup (Closed \ {"closure"})

\* is_in_unsafe_block: below an unsafe block, or anywhere in an unsafe function.
InUnsafe(f, site) == "unsafe block" \in Range(site.path) \/ targets[f].unsafety = Unsafe(UnsafeCode)

\* Cautious targeting that does not set the mutations beside unsafe blocks apart.
CountsAsUnsafeUnlessCautious(unsafety) ==
    unsafety \in {Tainted(UnsafeCode), Unsafe(UnsafeCode)} \/ (mode = "Safe" /\ unsafety # NoSource)

\* Unsafety::is_unsafe.
CountsAsUnsafe(unsafety) ==
    \/ unsafety \in {Tainted(UnsafeCode), Unsafe(UnsafeCode)}
    \/ mode \in {"Safe", "Cautious"} /\ unsafety \in {Tainted(Enclosing), Unsafe(Enclosing)}

\* The targets apply_mutation_operators leaves alone.
Skipped(f) ==
    \/ mode = "Safe" /\ targets[f].unsafety # NoSource
    \/ mode # "Unsafe" /\ targets[f].unsafety \in {Tainted(UnsafeCode), Unsafe(UnsafeCode)}

\* The targets within the mutation depth that the filters leave.
Selected == {f \in DOMAIN targets : targets[f].distance < limits.mutation /\ f \in filter}

\* Whether the default of the type of a call is this function, or calls it.
RefersBack(f, place) ==
    place.kind = "call" /\ place.defaultImpl \in Fns /\ (place.defaultImpl = f \/ f \in CalleesOf(place.defaultImpl))

\* The elements of a finite set, in some order.
Enumerated(S) ==
    LET taken[i \in 0..Cardinality(S)] ==
            IF i = 0 THEN {} ELSE taken[i - 1] \cup {CHOOSE x \in S \ taken[i - 1] : TRUE}
    IN  [i \in 1..Cardinality(S) |-> CHOOSE x \in S \ taken[i - 1] : TRUE]

\* The proposals for each place, in the order they are made.
ProposalsAt ==
    [i \in DOMAIN Places |-> [refersBack \in BOOLEAN |-> [localOnly \in BOOLEAN |->
        Enumerated(Proposals(Places[i], refersBack, localOnly))]]]

Proposed(f, site) == ProposalsAt[site.place][RefersBack(f, Places[site.place])][program.localOnly]

MutationsOf(f) ==
    FlattenSeq([i \in DOMAIN program.sites[f] |->
        LET site == program.sites[f][i]
            header == site.node \in {"fn", "param"}
            proposals == IF Offered(site) THEN Proposed(f, site) ELSE <<>>
        IN [k \in DOMAIN proposals |->
                [fn |-> f, site |-> i, inUnsafe |-> InUnsafe(f, site), op |-> proposals[k][1], code |-> proposals[k][2],
                 loc |-> IF header THEN 0 ELSE i, local |-> site.node = "param"]]])

\* The unsafe targeting and the filters of the command line are picked here, where they are read first.
ReadOptions ==
    /\ phase = "mutate"
    /\ mode' \in Modes /\ filter' \in Filters
    /\ phase' = "operators"
    /\ UNCHANGED <<graphVars, batchVars, mutations, slots>>

\* apply_mutation_operators and reindex_mutations, over the targets in the order of their spans.
ApplyOperators ==
    /\ phase = "operators"
    /\ mutations' = FlattenSeq([i \in 1..Cardinality(Selected) |->
                        LET f == SortedBy(Selected, [f \in Selected |-> f])[i] IN IF Skipped(f) THEN <<>> ELSE MutationsOf(f)])
    /\ phase' = "conflicts"
    /\ UNCHANGED <<graphVars, batchVars, mode, filter, slots>>

IsUnsafe(m) == m.inUnsafe \/ CountsAsUnsafe(targets[m.fn].unsafety)
TestsOf(m) == DOMAIN targets[m.fn].reach

\* generate_mutation_conflict_graph: mutations conflict that share a test or a location.
BuildConflicts ==
    /\ phase = "conflicts"
    /\ LET ids == DOMAIN mutations
           unsafes == {i \in ids : IsUnsafe(mutations[i])}
           inProcess == {i \in ids \ unsafes : ~ReachedByTruncated(mutations[i].fn)}
           Clash(a, b) == \/ TestsOf(a) \cap TestsOf(b) # {}
                          \/ ConflictingSubsts(a, b)
       IN graph' = [n |-> Len(mutations), unsafes |-> unsafes, inProcess |-> inProcess,
                    conflicts |-> {{p[1], p[2]} : p \in {ij \in inProcess \X inProcess :
                                        ij[1] # ij[2] /\ Clash(mutations[ij[1]], mutations[ij[2]])}}]
    /\ phase' = "batch"
    /\ UNCHANGED <<graphVars, options, step, order, batches, iterations, mode, filter, mutations, slots>>

Batch == phase = "batch" /\ BatchNext /\ UNCHANGED <<graphVars, phase, mode, filter, mutations, slots>>

\* write_substitutions and generate_harness.
WriteProgram ==
    /\ phase = "batch" /\ step = "batched"
    /\ slots' = WrittenSlots(mutations, program.shapes)
    /\ phase' = "written"
    /\ UNCHANGED <<graphVars, batchVars, mode, filter, mutations>>

Init ==
    /\ GraphInit /\ BatchInit
    /\ mode = "unset" /\ filter = {}
    /\ mutations = <<>> /\ slots = {}

Graph == GraphNext /\ UNCHANGED <<batchVars, mode, filter, mutations, slots>>

Next == Graph \/ ReadOptions \/ ApplyOperators \/ BuildConflicts \/ Batch \/ WriteProgram

Spec == Init /\ [][Next]_vars

\* The pass is one thread; annealing draws until it finds a move where there is one.
FairSpec == Spec /\ WF_vars(Next)

-----------------------------------------------------------------------------

\* The mutation that a test runs for is the only one whose code it runs, in the whole program and through calls that
\* limits hide: in every mutant that is one batch, and in every two mutants that the dynamic scheduler may put side by
\* side (call_graph.rs truncated entry points, conflicts.rs, write_substitutions, slot_mutations).
MeetsOnlyItsMutation ==
    phase = "written" =>
        LET hits == [t \in Tests |-> TrulyReached(t)]
            Map(mutant) == SubstMap(mutations, slots, mutant)
            Meets(map, mutant) ==
                \A m \in mutant : \A t \in TestsOf(mutations[m]) :
                    {k \in Running(mutations, slots, map) : mutations[k].fn \in hits[t]} = {m}
        IN /\ \A i \in DOMAIN batches : Meets(Map(batches[i].mutations), batches[i].mutations)
           /\ \A a, b \in Mutations : a # b /\ ~Conflicting(a, b) => Meets(Overlay(Map({a}), Map({b})), {a, b})

\* Nodes that hold no place where a match expression can stand, and nodes where none can stand, or would stand for something
\* else than the place; these may hold places of their own.
NoMatchWithin == {"type", "const", "pattern", "assignee"}
NoPlaceForMatch == NoMatchWithin \cup {"let chain operator", "else block", "borrowed place"}

\* All mutations of a crate are compiled as one program, so that one that does not compile fails them all; and each has an
\* effect (the guards of the operators in mutest-operators/src, with what MutationCollector leaves out).
MutantsCompile ==
    phase = "operators" =>
        \A f \in program.mutable : \A i \in DOMAIN program.sites[f] :
            LET site == program.sites[f][i]
            IN Offered(site) =>
                \A p \in Range(Proposed(f, site)) :
                    /\ Range(site.path) \cap NoMatchWithin = {} /\ site.node \notin NoPlaceForMatch
                    /\ Compiles(Places[site.place], p[2]) /\ HasEffect(Places[site.place], p[2])

\* The table of UnsafeTargeting (mutation.rs): what each flag makes of code in unsafe code, beside an unsafe block, and in a
\* function without one, for functions that no unsafe code calls.
Cell(f, site) ==
    LET column == IF program.safety[f] = UnsafeCode \/ "unsafe block" \in Range(site.path) THEN "unsafe {}"
                  ELSE IF program.safety[f] = Enclosing THEN "{ unsafe {} }" ELSE "{}"
    IN CASE column = "unsafe {}" -> IF mode = "Unsafe" THEN "unsafe M" ELSE ""
         [] column = "{ unsafe {} }" -> CASE mode = "Safe" -> "" [] mode = "Cautious" -> "unsafe M" [] OTHER -> "M"
         [] column = "{}" -> "M"

FollowsTable ==
    phase = "batch" /\ step = "idle" =>
        \A f \in Selected :
            (\A t \in DOMAIN targets[f].reach : targets[f].reach[t].source = NoSource) =>
                \A i \in {i \in DOMAIN program.sites[f] : Range(program.sites[f][i].path) \subseteq {"unsafe block"}
                                                        /\ program.sites[f][i].node = "expression"
                                                        /\ Proposed(f, program.sites[f][i]) # <<>>} :
                    LET made == {k \in Mutations : mutations[k].fn = f /\ mutations[k].site = i}
                        cell == Cell(f, program.sites[f][i])
                    IN /\ cell = "" <=> made = {}
                       /\ \A k \in made : IsUnsafe(mutations[k]) <=> cell = "unsafe M"

\* The pass ends, with each mutation in one batch that keeps its limit and has no conflict, and isolated ones alone
\* (BatchesValid). Only simulated annealing may not come to that: it panics at unreachable!() if there is no mutation
\* (mutation.rs:1042), and it draws for ever in random_neighbor_state (mutation.rs:1041) once its batches leave no mutation
\* room to move before the last iteration (NoRoom), as when all are in one batch, or the limit is 1.
GenerationEnds ==
    <>(\/ phase = "written" /\ BatchesValid /\ (options.algorithm = "SimulatedAnnealing" => Mutations # {})
       \/ /\ options.algorithm = "SimulatedAnnealing"
          /\ \/ step = "panicked" /\ Mutations = {}
             \/ step = "anneal" /\ iterations < MaxIterations /\ Mutations # {} /\ NoRoom)
=============================================================================
