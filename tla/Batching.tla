------------------------------ MODULE Batching ------------------------------
(* How mutations are grouped into batches that are evaluated in one process    *)
(* (mutest-emit/src/codegen/mutation.rs): the conflict graph and the three     *)
(* batching algorithms. A mutation is its id, 1 to n. The random generator is  *)
(* a free choice.                                                              *)
EXTENDS Integers, Sequences, FiniteSets, SequencesExt, FiniteSetsExt, Queues

CONSTANTS
    BatchOptions(_),    \* the MutationBatchingOptions tried with so many mutations
    MaxIterations       \* the iterations of simulated annealing

VARIABLES
    graph,      \* MutationConflictGraph: n, unsafes, inProcess and the conflicts within inProcess
    options,    \* MutationBatchingOptions
    step,       \* "idle", "place", "anneal", "batched" or "panicked"
    order,      \* mutations_in_consideration_order: the mutations still to be placed
    batches,    \* the batches: records id and mutations, in the order of the vector
    iterations  \* the iterations that simulated annealing has made

batchVars == <<graph, options, step, order, batches, iterations>>

NoGraph == [n |-> 0, unsafes |-> {}, inProcess |-> {}, conflicts |-> {}]

\* epsilon: whether it is set; size: batch_max_mutations_count.
MutationBatchingOptions ==
    [algorithm : {"Random", "Greedy", "SimulatedAnnealing"}, ordering : {"ConflictsAsc", "ConflictsDesc", "Random", "None"},
     epsilon : BOOLEAN, size : Nat]

NoOptions == [algorithm |-> "None", ordering |-> "None", epsilon |-> FALSE, size |-> 0]

Mutations == 1..graph.n

\* conflicting_mutations: an isolated mutation conflicts with all.
Conflicting(a, b) == {a, b} \subseteq graph.inProcess => {a, b} \in graph.conflicts

ConflictCount(a) == Cardinality({b \in Mutations \ {a} : Conflicting(a, b)})

\* A batch that takes one mutation more than its size.
CompatibleOverfull(m, batch) ==
    Cardinality(batch.mutations) <= options.size /\ \A other \in batch.mutations : ~Conflicting(other, m)

\* compatible_mutation_batch.
Compatible(m, batch) ==
    /\ Cardinality(batch.mutations) < options.size
    /\ \A other \in batch.mutations : ~Conflicting(other, m)

CompatibleBatches(m) == {i \in DOMAIN batches : Compatible(m, batches[i])}

\* The elements of a finite set in the order of their keys, which are distinct numbers.
SortedBy(S, key) ==
    [i \in 1..Cardinality(S) |-> CHOOSE x \in S : Cardinality({y \in S : key[y] < key[x]}) = i - 1]

\* The orders in which an algorithm may consider the mutations; sort_by is stable.
Orders(ordering) ==
    LET ascending == SortedBy(Mutations, [a \in Mutations |-> ConflictCount(a) * (graph.n + 1) + a])
    IN CASE ordering = "ConflictsAsc" -> {ascending}
         [] ordering = "ConflictsDesc" -> {Reverse(ascending)}
         [] ordering = "Random" -> SetToSeqs(Mutations)
         [] ordering = "None" -> {[i \in Mutations |-> i]}

\* The options of the command line are picked here, where they are read first.
StartBatching(o) ==
    /\ step = "idle"
    /\ o \in MutationBatchingOptions /\ options' = o
    /\ \/ /\ o.algorithm \in {"Random", "Greedy"}
          /\ order' \in Orders(o.ordering) /\ batches' = <<>> /\ step' = "place"
       \/ \* batch_mutations_dummy gives each mutation a batch of its own, which annealing then merges.
          /\ o.algorithm = "SimulatedAnnealing"
          /\ order' = <<>> /\ batches' = [i \in Mutations |-> [id |-> i, mutations |-> {i}]] /\ step' = "anneal"
    /\ UNCHANGED <<graph, iterations>>

\* The batches the next mutation may join: none for an unsafe mutation; any compatible one for random batching, or when
\* epsilon asks for a random choice; else the first compatible one.
Candidates(m) ==
    IF m \in graph.unsafes THEN {}
    ELSE CASE options.algorithm = "Random" \/ options.epsilon -> CompatibleBatches(m)
           [] OTHER -> {i \in CompatibleBatches(m) : \A j \in CompatibleBatches(m) : i <= j}

Place ==
    /\ step = "place" /\ order # <<>>
    /\ LET m == Head(order)
       IN \/ \E i \in Candidates(m) : batches' = [batches EXCEPT ![i].mutations = @ \cup {m}]
          \/ /\ Candidates(m) = {}
             /\ batches' = Append(batches, [id |-> Len(batches) + 1, mutations |-> {m}])
    /\ order' = Tail(order)
    /\ UNCHANGED <<graph, options, step, iterations>>

\* One iteration of annealing that finds a mutation and another batch for it. No move adds a batch, so acceptance_probability
\* is always 1 and every move is made; a batch that loses its last mutation is removed.
CanMove(m, i, j) == i # j /\ m \in batches[i].mutations /\ Compatible(m, batches[j])

AnnealMove ==
    /\ step = "anneal" /\ iterations < MaxIterations
    /\ \E i, j \in DOMAIN batches : \E m \in batches[i].mutations :
        /\ CanMove(m, i, j)
        /\ LET moved == [batches EXCEPT ![i].mutations = @ \ {m}, ![j].mutations = @ \cup {m}]
           IN batches' = Keep(moved, {batch \in ToSet(moved) : batch.mutations # {}})
    /\ iterations' = iterations + 1
    /\ UNCHANGED <<graph, options, step, order>>

\* random_neighbor_state panics if there is no batch to draw from; it draws again for as long as no draw finds a move.
AnnealNothing ==
    /\ step = "anneal" /\ iterations < MaxIterations /\ batches = <<>>
    /\ step' = "panicked"
    /\ UNCHANGED <<graph, options, order, batches, iterations>>

\* Placing has come to its end, or annealing to its last iteration.
Batched ==
    /\ \/ step = "place" /\ order = <<>>
       \/ step = "anneal" /\ iterations = MaxIterations
    /\ step' = "batched"
    /\ UNCHANGED <<graph, options, order, batches, iterations>>

BatchInit ==
    /\ graph = NoGraph /\ options = NoOptions /\ step = "idle"
    /\ order = <<>> /\ batches = <<>> /\ iterations = 0

BatchNext == (\E o \in BatchOptions(graph.n) : StartBatching(o)) \/ Place \/ AnnealMove \/ AnnealNothing \/ Batched

-----------------------------------------------------------------------------

\* Each mutation is in one batch, no batch is larger than asked, and an isolated mutation (unsafe, or possibly reached
\* past a limit) shares its batch with none; the ids of the batches are distinct.
BatchesValid ==
    step = "batched" =>
        /\ UNION {batches[i].mutations : i \in DOMAIN batches} = Mutations
        /\ \A i, j \in DOMAIN batches : i # j => batches[i].id # batches[j].id /\ batches[i].mutations \cap batches[j].mutations = {}
        /\ \A i \in DOMAIN batches :
            /\ Cardinality(batches[i].mutations) \in 1..Max({1, options.size})
            /\ batches[i].mutations \subseteq graph.inProcess \/ Cardinality(batches[i].mutations) = 1
            /\ \A a, b \in batches[i].mutations : a # b => ~Conflicting(a, b)

\* There is always a batch to draw from: "let Some(random_batch) = mutation_batches.choose(rng) else { unreachable!(); }"
\* (mutation.rs:1042).
AlwaysABatch == step # "panicked"

\* No mutation can go to another batch: each other batch is full, or has a mutation that it conflicts with, or one of the
\* two has to be alone.
NoRoom ==
    \A m \in Mutations : \A i \in DOMAIN batches :
        \/ m \in batches[i].mutations \/ m \notin graph.inProcess
        \/ Cardinality(batches[i].mutations) >= options.size
        \/ \E k \in batches[i].mutations : k \notin graph.inProcess \/ Conflicting(m, k)
=============================================================================
