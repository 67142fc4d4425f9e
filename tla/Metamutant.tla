----------------------------- MODULE Metamutant -----------------------------
(* The one program that holds all mutations of a crate (mutest-emit/src/       *)
(* codegen: substitution.rs, guard.rs, harness.rs): where a mutation is        *)
(* written, which slot of the substitution map its place reads, which slots a  *)
(* mutant sets, and which code runs under a map.                               *)
(*                                                                             *)
(* A mutation has a function fn, a location loc, the code it runs there, and   *)
(* local, whether it shadows a name (Subst::AstLocal). Location 0 of a         *)
(* function is in front of its first statement; the others replace a place.    *)
EXTENDS Naturals, Sequences, FiniteSets, SequencesExt, FiniteSetsExt

\* No mutation in a slot.
Empty == 0

\* BodyShape, runs_as_plain_code and original_fn_body: a second copy of the body would mean the same.
KeepsOriginal(shape) == shape.plain /\ ~shape.items /\ ~(shape.closures /\ shape.opaque)

\* conflicting_substs: shadowing substitutions follow one another, others take the place for themselves.
ConflictingSubsts(a, b) == a.fn = b.fn /\ a.loc = b.loc /\ ~(a.local /\ b.local)

\* write_substitutions: one slot for each body that keeps its original code, if it holds a mutation, else one for each
\* location. A slot is the function, and the location or "guard".
WrittenSlots(mutations, shapes) ==
    {<<m.fn, IF KeepsOriginal(shapes[m.fn]) THEN "guard" ELSE ToString(m.loc)>> : m \in Range(mutations)}

\* Whether mutation i has a substitution that reads the slot (SubstSlot).
SetsSlot(mutations, slot, i) ==
    mutations[i].fn = slot[1] /\ (slot[2] # "guard" => slot[2] = ToString(mutations[i].loc))

\* slot_mutations and bake_mutant: the first of the mutant's mutations that sets each slot.
SubstMap(mutations, slots, mutant) ==
    [s \in slots |->
        LET setting == {i \in mutant : SetsSlot(mutations, s, i)}
        IN IF setting = {} THEN Empty ELSE Min(setting)]

\* SubstMap::overlay.
Overlay(map, over) == [s \in DOMAIN map |-> IF over[s] = Empty THEN map[s] ELSE over[s]]

\* The mutations whose code runs where a test comes by their locations. The arm of a mutation is chosen by its id in the
\* slot its location reads: in a body with a guard the one that the body was entered with (mk_subst_arm,
\* mk_guarded_body_expr, runs_mutation_at).
Running(mutations, slots, map) ==
    {i \in DOMAIN mutations : \E s \in slots : SetsSlot(mutations, s, i) /\ map[s] = i}
=============================================================================
