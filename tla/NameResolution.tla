--------------------------- MODULE NameResolution ---------------------------
(* External: what rustc says that a name of a program means, with the hygiene  *)
(* of macros, as far as the names that codegen/hygiene.rs has to keep. A       *)
(* program has the nodes of its syntax tree in preorder, those of its crate    *)
(* first; each has the node it is in (up), and the marks of the expansions its *)
(* span comes from (sp). A name is what is written and its marks, the outer    *)
(* expansion first. Names are in a namespace: types, values, macros, labels.   *)
EXTENDS Integers, FiniteSets, SequencesExt

CONSTANT
    Rounds      \* bound: after so many rounds all imports are resolved

Namespaces == {"T", "V", "M"}
Containers == {"Mod", "Enum", "Trait"}
Scopes == {"Mod", "Block"}
Ids(words) == [i \in DOMAIN words |-> [n |-> <<words[i]>>, m |-> <<>>]]
IsWord(id, word) == id.n = <<word>>

Kind(p, i) == p.nodes[i].k
Up(p, i) == p.nodes[i].up
Children(p, i) == {j \in DOMAIN p.nodes : p.nodes[j].up = i}

\* The nearest node of these kinds, the node itself or one around it; 0 if there is none.
RECURSIVE Nearest(_, _, _)
Nearest(p, i, kinds) == IF i = 0 \/ p.nodes[i].k \in kinds THEN i ELSE Nearest(p, Up(p, i), kinds)
ModOf(p, i) == Nearest(p, i, {"Mod"})
ParentMod(p, i) == IF Up(p, i) = 0 THEN i ELSE ModOf(p, Up(p, i))
ScopeOf(p, i) == Nearest(p, Up(p, i), Scopes)
RECURSIVE CrateOf(_, _)
CrateOf(p, i) == IF Up(p, i) = 0 THEN i ELSE CrateOf(p, Up(p, i))
RECURSIVE Inside(_, _, _)
Inside(p, i, j) == i # 0 /\ (i = j \/ Inside(p, Up(p, i), j))

-----------------------------------------------------------------------------
(* Marks *)

\* Items see the marks of macros 2.0 only; locals and labels those of macro_rules too.
Opaque(p, m) == SelectSeq(m, LAMBDA e : p.expns[e].opaque)

\* The expansion e is f, or came out of it.
RECURSIVE Within(_, _, _)
Within(p, e, f) == e # 0 /\ (e = f \/ Within(p, p.expns[e].up, f))

Expn(p, i) == LET sp == p.nodes[i].sp IN IF sp = <<>> THEN 0 ELSE Last(sp)

\* Marks are removed until the place e is within the last one.
Kept(p, m, e) == SubSeq(m, 1, Max({k \in 0..Len(m) : k = 0 \/ Within(p, e, m[k])}))
Removed(p, m, e) == SubSeq(m, Len(Kept(p, m, e)) + 1, Len(m))

\* Where the macro of an expansion is defined.
DefScope(p, e) == ScopeOf(p, p.expns[e].macro)

\* The same name, of a use and of a definition in the node parent.
SameName(p, used, def, parent) ==
    used.n = def.n /\ Kept(p, Opaque(p, used.m), Expn(p, parent)) = Opaque(p, def.m)

-----------------------------------------------------------------------------
(* Modules by keywords *)

\* resolve_self: the module of the code with these marks, and the marks that are left.
RECURSIVE SelfMod(_, _, _)
SelfMod(p, c, m) ==
    IF Opaque(p, p.nodes[c].sp) = m THEN [c |-> c, m |-> m]
    ELSE IF Up(p, c) # 0 THEN SelfMod(p, ParentMod(p, c), m)
    ELSE SelfMod(p, ModOf(p, DefScope(p, Last(m))), Front(m))

RECURSIVE Enter(_, _, _)
Enter(p, c, path) ==
    IF path # <<>> /\ IsWord(path[1], "super")
    THEN Enter(p, SelfMod(p, ParentMod(p, c), Opaque(p, path[1].m)).c, Tail(path))
    ELSE [c |-> c, rest |-> path]

\* What a path starts with: `self`, `super`, `crate` and `$crate` say a module. The others start with a name: c = 0.
Rooted(p, at, path) ==
    LET m == Opaque(p, path[1].m)
        own == SelfMod(p, ModOf(p, at), m)
    IN  CASE IsWord(path[1], "self") -> Enter(p, own.c, Tail(path))
          [] IsWord(path[1], "super") -> Enter(p, SelfMod(p, ParentMod(p, own.c), own.m).c, Tail(path))
          [] IsWord(path[1], "crate") ->
                [c |-> IF m = <<>> THEN CrateOf(p, at) ELSE CrateOf(p, p.expns[m[1]].macro), rest |-> Tail(path)]
          [] IsWord(path[1], "$crate") -> [c |-> CrateOf(p, p.expns[Last(path[1].m)].macro), rest |-> Tail(path)]
          [] OTHER -> [c |-> 0, rest |-> path]

\* The path of a visibility leads through modules around the node.
RECURSIVE VisMod(_, _, _)
VisMod(p, c, rest) ==
    IF rest = <<>> THEN c
    ELSE LET mods == {j \in Children(p, c) : Kind(p, j) = "Mod" /\ SameName(p, Head(rest), p.nodes[j].id, c)}
         IN  IF mods = {} THEN -1 ELSE VisMod(p, CHOOSE j \in mods : TRUE, Tail(rest))

\* The module that a node is visible in: 0 is everywhere, -1 is an error.
RECURSIVE Visibility(_, _)
Visibility(p, i) ==
    LET vis == p.nodes[i].vis
    IN  IF Up(p, i) = 0 \/ Kind(p, i) = "Impl" THEN 0
        ELSE IF Kind(p, i) = "Variant" \/ Kind(p, Up(p, i)) = "Trait" THEN Visibility(p, Up(p, i))
        ELSE IF vis = <<>> THEN ModOf(p, Up(p, i))
        ELSE IF IsWord(vis[1], "pub") THEN 0
        ELSE LET root == Rooted(p, Up(p, i), vis) IN IF root.c = 0 THEN -1 ELSE VisMod(p, root.c, root.rest)

Accessible(p, vis, from) == vis = 0 \/ (vis > 0 /\ Inside(p, from, vis))

-----------------------------------------------------------------------------
(* Names of modules. A binding is a name in a module; "via" says which imports it came through. *)

\* The constructor of a struct may be less visible than the struct.
BoundIn(p, i) ==
    CASE Kind(p, i) \in {"Mod", "Enum", "Trait", "TyAlias", "ExternCrate"} -> {"T"}
      [] Kind(p, i) = "Struct" -> IF \E j \in Children(p, i) : Kind(p, j) = "Field" THEN {"T"} ELSE {"T", "V"}
      [] Kind(p, i) = "Variant" -> {"T", "V"}
      [] Kind(p, i) = "Fn" \/ (Kind(p, i) = "AssocFn" /\ Kind(p, Up(p, i)) = "Trait") -> {"V"}
      [] Kind(p, i) = "MacroDef" -> {"M"}
      [] OTHER -> {}

Definitions(p, c) ==
    UNION {{[n |-> p.nodes[i].id.n, m |-> Opaque(p, p.nodes[i].id.m), ns |-> ns,
             to |-> IF Kind(p, i) = "ExternCrate" THEN p.nodes[i].of ELSE i,
             vis |-> IF ns = "V" /\ p.nodes[i].ctor THEN ModOf(p, i) ELSE p.vis[i],
             via |-> IF Kind(p, i) = "ExternCrate" THEN <<<<"crate", i, 1>>>> ELSE <<>>] : ns \in BoundIn(p, i)}
           : i \in Children(p, c)}

IsGlob(b) == b.via # <<>> /\ b.via[1][1] = "glob"

\* Definitions and imports of one name shadow globs.
Named(p, c, n, m, ns) ==
    LET bs == {b \in p.names[c] : b.n = n /\ b.m = m /\ b.ns = ns}
    IN  IF \E b \in bs : ~IsGlob(b) THEN {b \in bs : ~IsGlob(b)} ELSE bs

\* Where the code with these marks is from, as seen from the place "at" when it looks into c.
From(p, at, m, c) ==
    LET gone == Removed(p, m, Expn(p, c)) IN IF gone = <<>> THEN ModOf(p, at) ELSE ModOf(p, DefScope(p, gone[1]))

\* resolve_ident_in_module
InContainer(p, at, c, id, ns) ==
    LET m == Opaque(p, id.m)
    IN  {b \in Named(p, c, id.n, Kept(p, m, Expn(p, c)), ns) : Accessible(p, b.vis, From(p, at, m, c))}

\* hygienic_lexical_parent: a name that came out of a macro is looked up where the macro is defined.
RECURSIVE Chain(_, _, _)
Chain(p, c, m) ==
    <<[c |-> c, m |-> m]>> \o
        (IF m # <<>> /\ ~Within(p, Expn(p, c), Last(m)) THEN Chain(p, DefScope(p, Last(m)), Front(m))
         ELSE IF Kind(p, c) = "Block" THEN Chain(p, ScopeOf(p, c), m)
         ELSE <<>>)

ExternCrates(p, n) == {[n |-> n, m |-> <<>>, ns |-> "T", to |-> c, vis |-> 0, via |-> <<>>] : c \in {c \in p.externs : p.nodes[c].id.n = n}}

\* A name among the items around it, then the names of crates, then the prelude.
InModules(p, c, id, ns) ==
    LET chain == Chain(p, c, Opaque(p, id.m))
        here(k) == Named(p, chain[k].c, id.n, chain[k].m, ns)
        hits == {k \in DOMAIN chain : here(k) # {}}
    IN  IF hits # {} THEN here(Min(hits))
        ELSE IF ns = "T" /\ ExternCrates(p, id.n) # {} THEN ExternCrates(p, id.n)
        ELSE IF p.prelude # 0 THEN Named(p, p.prelude, id.n, <<>>, ns) ELSE {}

Itself(p, i, ns) == [n |-> p.nodes[i].id.n, m |-> Opaque(p, p.nodes[i].id.m), ns |-> ns, to |-> i, vis |-> 0, via |-> <<>>]

\* resolve_ident_in_lexical_scope: locals, parameters of items, items of blocks, then modules. Going out of the
\* scope of a macro takes its mark from what came out of it; a local of an outer function cannot be used.
RECURSIVE Ribs(_, _, _, _, _, _)
Ribs(p, at, id, orig, ns, crossed) ==
    LET around == Up(p, at)
        before == {j \in Children(p, around) : j < at}
        s == Max(before)
        same(i) == p.nodes[i].id.n = id.n /\ p.nodes[i].id.m = id.m
        local(i) == IF crossed THEN {} ELSE {Itself(p, i, ns)}
    IN  IF Kind(p, around) = "Mod" THEN IF ns = "L" THEN {} ELSE InModules(p, around, orig, ns)
        ELSE IF before # {} THEN
            CASE Kind(p, s) = "Let" /\ ns = "V" /\ same(s) -> local(s)
              [] Kind(p, s) = "TyParam" /\ ns = "T" /\ p.nodes[s].id.n = id.n /\ Opaque(p, p.nodes[s].id.m) = Opaque(p, id.m) -> local(s)
              [] Kind(p, s) = "MacroDef" /\ ns \in {"V", "L"} /\ id.m # <<>> /\ p.expns[Last(id.m)].macro = s ->
                    Ribs(p, s, [id EXCEPT !.m = Front(id.m)], orig, ns, crossed)
              [] OTHER -> Ribs(p, s, id, orig, ns, crossed)
        ELSE IF Kind(p, around) = "Block" /\ ns # "L" /\ Named(p, around, id.n, Opaque(p, id.m), ns) # {}
        THEN Named(p, around, id.n, Opaque(p, id.m), ns)
        ELSE IF Kind(p, around) = "Loop" /\ ns = "L" /\ same(around) THEN local(around)
        ELSE Ribs(p, around, id, orig, ns, crossed \/ Kind(p, around) \in {"Fn", "Struct", "Enum", "Impl", "Trait"})

-----------------------------------------------------------------------------
(* Associated items *)

TraitInScope(p, at, t, m) ==
    LET chain == Chain(p, ScopeOf(p, at), Opaque(p, m))
    IN  \E k \in DOMAIN chain : \E b \in p.names[chain[k].c] : b.to = t /\ b.ns = "T"

ImplsOf(p, ty) == {i \in DOMAIN p.nodes : Kind(p, i) = "Impl" /\ p.nodes[i].of = ty}
AssocIn(p, at, id, parent) ==
    {j \in Children(p, parent) : /\ Kind(p, j) \in {"AssocFn", "Variant"}
                                 /\ SameName(p, id, p.nodes[j].id, parent)
                                 /\ Accessible(p, p.vis[j], From(p, at, Opaque(p, id.m), parent))}

\* The item of a type: its own, or that of a trait in scope. The type is a struct, an enum, an alias of one, or a
\* parameter with a trait as its bound.
RECURSIVE Assoc(_, _, _, _)
Assoc(p, at, ty, id) ==
    CASE Kind(p, ty) = "TyAlias" -> Assoc(p, at, p.nodes[ty].of, id)
      [] Kind(p, ty) = "TyParam" -> AssocIn(p, at, id, p.nodes[ty].of)
      [] OTHER ->
            LET own == AssocIn(p, at, id, ty) \union UNION {AssocIn(p, at, id, i) : i \in {i \in ImplsOf(p, ty) : p.nodes[i].to = 0}}
                traits == {p.nodes[i].to : i \in ImplsOf(p, ty)} \ {0}
            IN  IF own # {} THEN own
                ELSE UNION {AssocIn(p, at, id, t) : t \in {t \in traits : TraitInScope(p, at, t, id.m)}}

-----------------------------------------------------------------------------
(* Paths *)

RECURSIVE Walk(_, _, _, _, _)
Walk(p, at, c, rest, ns) ==
    IF rest = <<>> THEN IF ns = "T" THEN {Itself(p, c, "T")} ELSE {}
    ELSE IF Kind(p, c) \notin Containers
    THEN IF Len(rest) = 1 /\ Kind(p, c) \in {"Struct", "TyAlias", "TyParam"}
         THEN {Itself(p, i, ns) : i \in Assoc(p, at, c, rest[1])} ELSE {}
    ELSE IF Len(rest) = 1 THEN InContainer(p, at, c, rest[1], ns)
    ELSE UNION {Walk(p, at, b.to, Tail(rest), ns) : b \in InContainer(p, at, c, rest[1], "T")}

PathBindings(p, at, path, ns, ribs) ==
    LET root == Rooted(p, at, path)
        first(space) == IF ribs THEN Ribs(p, at, path[1], path[1], space, FALSE)
                        ELSE InModules(p, ScopeOf(p, at), path[1], space)
    IN  IF root.c > 0 THEN Walk(p, at, root.c, root.rest, ns)
        ELSE IF IsWord(path[1], "{{root}}")
        THEN UNION {Walk(p, at, b.to, Tail(Tail(path)), ns) : b \in IF Len(path) = 1 THEN {} ELSE ExternCrates(p, path[2].n)}
        ELSE IF Len(path) = 1 THEN first(ns)
        ELSE UNION {Walk(p, at, b.to, Tail(path), ns) : b \in first("T")}

BoundTo(bs) == {b.to : b \in bs}
PathTargets(p, at, path, ns) == BoundTo(PathBindings(p, at, path, ns, TRUE))

\* The type that a path is relative to, if it is: that before `::f`, written as a path or in `<>`.
RelativeTo(p, i) ==
    LET path == p.nodes[i].path
        self == p.nodes[i].self
        before == IF self # <<>> THEN self ELSE Front(path)
    IN  IF (self # <<>> /\ Len(path) > 1) \/ before = <<>> THEN {}
        ELSE {t \in PathTargets(p, i, before, "T") : self # <<>> \/ Kind(p, t) \notin Containers}

\* What a reference refers to: one node, if the program is right.
Resolve(p, i) ==
    LET node == p.nodes[i]
    IN  CASE node.k = "MethodCall" -> {j \in Assoc(p, i, node.of, node.id) : Kind(p, j) = "AssocFn"}
          [] node.k = "FieldRef" ->
                {j \in Children(p, node.of) : /\ Kind(p, j) = "Field" /\ SameName(p, node.id, p.nodes[j].id, node.of)
                                              /\ Accessible(p, p.vis[j], From(p, i, Opaque(p, node.id.m), node.of))}
          [] node.k = "LabelRef" -> BoundTo(Ribs(p, i, node.id, node.id, "L", FALSE))
          [] node.self # <<>> /\ Len(node.path) = 1 ->
                UNION {Assoc(p, i, ty, node.path[1]) : ty \in RelativeTo(p, i)}
          [] OTHER -> PathTargets(p, i, node.path, node.ns)

-----------------------------------------------------------------------------
(* Imports. `use a::{self}` is a leaf with the path a::self. *)

OfSelf(leaf) == Len(leaf.path) > 1 /\ IsWord(Last(leaf.path), "self")
ItemPath(leaf) == IF OfSelf(leaf) THEN Front(leaf.path) ELSE leaf.path
ImportedAs(leaf) == IF leaf.as # <<>> THEN leaf.as[1] ELSE Last(ItemPath(leaf))

\* An import does not resolve to what it imports itself.
Without(p, u, l) == [p EXCEPT !.names = [c \in DOMAIN @ |-> {b \in @[c] : b.via = <<>> \/ Tail(b.via[1]) # <<u, l>>}]]
LeafBindings(p, u, l, ns) ==
    LET leaf == p.nodes[u].leaves[l]
    IN  IF OfSelf(leaf) /\ ns # "T" THEN {} ELSE PathBindings(Without(p, u, l), u, ItemPath(leaf), ns, FALSE)

Narrower(p, a, b) == IF a = 0 \/ (b > 0 /\ Inside(p, b, a)) THEN b ELSE a

SingleImport(p, u, l) ==
    LET as == ImportedAs(p.nodes[u].leaves[l])
    IN  UNION {{[b EXCEPT !.n = as.n, !.m = Opaque(p, as.m), !.ns = ns, !.vis = Narrower(p, p.vis[u], b.vis), !.via = <<<<"single", u, l>>>> \o b.via]
                : b \in LeafBindings(p, u, l, ns)} : ns \in Namespaces}

\* resolve_glob_import: the names that the code of the import can say.
GlobImport(p, u, l) ==
    UNION {LET extra == Removed(p, Opaque(p, p.nodes[u].sp), Expn(p, c))
               from == From(p, u, Opaque(p, p.nodes[u].sp), c)
           IN  {[b EXCEPT !.m = b.m \o extra, !.vis = Narrower(p, p.vis[u], b.vis), !.via = <<<<"glob", u, l>>>> \o b.via]
                : b \in {b \in p.names[c] : /\ b \in Named(p, c, b.n, b.m, b.ns)
                                          /\ Removed(p, b.m, Expn(p, c)) = <<>>
                                          /\ Accessible(p, b.vis, from)
                                          /\ \A v \in DOMAIN b.via : Tail(b.via[v]) # <<u, l>>}}
           : c \in BoundTo(LeafBindings(p, u, l, "T"))}

\* The names of all modules, blocks, enums and traits.
RECURSIVE Imported(_, _)
Imported(p, rounds) ==
    IF rounds = 0 THEN p
    ELSE Imported([p EXCEPT !.names = [c \in DOMAIN @ |-> Definitions(p, c) \union
            UNION {UNION {IF p.nodes[u].leaves[l].glob THEN GlobImport(p, u, l) ELSE SingleImport(p, u, l) : l \in DOMAIN p.nodes[u].leaves}
                   : u \in {u \in Children(p, c) : Kind(p, u) = "Use"}}]], rounds - 1)

-----------------------------------------------------------------------------
(* What the compiler knows of a program *)

References(p) == {i \in DOMAIN p.nodes : Kind(p, i) \in {"Ref", "MethodCall", "FieldRef", "LabelRef"}}

\* What a prefix of an import path was resolved to; nothing is recorded for keywords.
Keywords == {"crate", "self", "super", "Self", "_", "{{root}}", "$crate"}
IsKeyword(id) == \E word \in Keywords : IsWord(id, word)
PrefixTargets(p, u, l, path) ==
    IF path = <<>> \/ IsKeyword(Last(path)) THEN {} ELSE BoundTo(PathBindings(Without(p, u, l), u, path, "T", FALSE))

WithVisibilities(p) == [p EXCEPT !.vis = [i \in DOMAIN p.nodes |-> Visibility(p, i)]]
WithNames(p) ==
    Imported([p EXCEPT !.names = [c \in {i \in DOMAIN p.nodes : Kind(p, i) \in Containers \union Scopes} |-> Definitions(p, c)]], Rounds)
WithResolutions(p) ==
    [p EXCEPT !.res = [i \in References(p) |-> Resolve(p, i)],
              !.selfTy = [i \in References(p) |-> RelativeTo(p, i)],
              !.imports = [u \in DOMAIN p.nodes |-> [l \in DOMAIN p.nodes[u].leaves |-> [ns \in Namespaces |-> BoundTo(LeafBindings(p, u, l, ns))]]],
              !.prefixes = [u \in DOMAIN p.nodes |-> [l \in DOMAIN p.nodes[u].leaves |->
                                [k \in 1..Len(p.nodes[u].leaves[l].path) |-> PrefixTargets(p, u, l, SubSeq(p.nodes[u].leaves[l].path, 1, k))]]]]
Compiled(p) == WithResolutions(WithNames(WithVisibilities(p)))
=============================================================================
