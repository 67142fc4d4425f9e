---------------------------- MODULE VisiblePaths ----------------------------
(* Paths to definitions, mutest-emit/src/analysis/res.rs and                   *)
(* codegen/hygiene/scope.rs: how the code that is written out can name a       *)
(* definition from a scope. A path has a root (a crate, a module some `super`s *)
(* up, the scope itself, or a type) and segments; a segment is a definition,   *)
(* the name it goes by, and whether that is the name of a re-export.           *)
EXTENDS NameResolution, TLC

LocalCrate == 1
NoPath == [root |-> "none", of |-> 0, segs |-> <<>>]
PathFrom(root, of, segs) == [root |-> root, of |-> of, segs |-> segs]

-----------------------------------------------------------------------------
(* Definitions *)

DefKinds == {"Mod", "Fn", "Struct", "Enum", "Variant", "Field", "Trait", "Impl", "AssocFn", "TyAlias", "TyParam", "MacroDef", "Use", "ExternCrate"}
DefParent(p, i) == IF i = 0 THEN 0 ELSE Nearest(p, Up(p, i), DefKinds)
RECURSIVE DefIdPath(_, _)
DefIdPath(p, i) == IF i = 0 THEN <<>> ELSE Append(DefIdPath(p, DefParent(p, i)), i)
IsLocal(p, i) == CrateOf(p, i) = LocalCrate
Inherent(p, i) == Kind(p, i) = "Impl" /\ p.nodes[i].to = 0

\* module_children, in source order, what globs import last.
ChildOrder(b) == (IF b.via = <<>> THEN b.to ELSE IF IsGlob(b) THEN 1000 + b.to ELSE b.via[1][2])
RECURSIVE InOrder(_)
InOrder(bs) ==
    IF bs = {} THEN <<>>
    ELSE LET first == CHOOSE b \in bs : \A other \in bs :
                        ChildOrder(b) < ChildOrder(other) \/ (ChildOrder(b) = ChildOrder(other) /\ (b.ns = "T" \/ other.ns # "T"))
         IN  <<first>> \o InOrder(bs \ {first})
ItemChildren(p, c) == InOrder({b \in p.names[c] : b \in Named(p, c, b.n, b.m, b.ns)})

\* lookup_mod_child: a child is found by what it is and the name that is written, whatever marks the name has.
LookupModChild(p, c, to, ns, n) == SelectSeq(ItemChildren(p, c), LAMBDA b : b.to = to /\ b.ns = ns /\ b.n = n)

\* The first import of the chain that can give the item another name.
Reexport(b) == SelectSeq(b.via, LAMBDA link : link[1] # "glob")

-----------------------------------------------------------------------------
(* Paths down from a scope *)

Segment(p, i) == [to |-> i, id |-> p.nodes[i].id, re |-> FALSE]

\* descendant_def_path: what is in an impl is named by its type.
Below(p, def, ancestor) == SubSeq(DefIdPath(p, def), Len(DefIdPath(p, ancestor)) + 1, Len(DefIdPath(p, def)))
LastImpl(p, down) == Max({0} \union {k \in DOMAIN down : Inherent(p, down[k])})
NamedFrom(p, down, impl, ancestor) ==
    IF \E k \in (impl + 1)..Len(down) : ~Accessible(p, p.vis[down[k]], ancestor) THEN NoPath
    ELSE PathFrom(IF impl = 0 THEN "local" ELSE "type", IF impl = 0 THEN 0 ELSE p.nodes[down[impl]].of,
                  [k \in 1..(Len(down) - impl) |-> Segment(p, down[impl + k])])
DescendantDefPath(p, def, ancestor) ==
    CASE ~Inside(p, def, ancestor) -> NoPath
      [] def = ancestor /\ Up(p, def) = 0 -> PathFrom("global", def, <<>>)
      [] def = ancestor /\ Up(p, def) # 0 -> PathFrom("local", 0, <<Segment(p, def)>>)
      [] OTHER -> LET down == Below(p, def, ancestor) IN NamedFrom(p, down, LastImpl(p, down), ancestor)

\* Items are looked up around these, too.
Transparent == {"Struct", "Enum", "Variant", "TyAlias", "Trait", "Impl", "Fn", "AssocFn"}
RECURSIVE ScopeAround(_, _, _)
ScopeAround(p, def, scope) ==
    IF Inside(p, def, scope) THEN scope
    ELSE IF Kind(p, scope) \in Transparent THEN ScopeAround(p, def, DefParent(p, scope)) ELSE 0

PathInScope(p, def, around) ==
    IF around = 0 THEN NoPath
    ELSE DescendantDefPath(p, def, IF Kind(p, around) \in {"Trait", "Impl"} THEN DefParent(p, around) ELSE around)
LexicalDefPath(p, def, scope) == PathInScope(p, def, ScopeAround(p, def, scope))

-----------------------------------------------------------------------------
(* Other crates *)

\* visible_parent_map: for what a crate without a name of its own defines, a public module that names it;
\* breadth first from the crates that the program depends on itself, what is hidden from the documentation only if there is nothing else.
AddChild(p, search, child, parent) ==
    LET fallback == \/ child.n = <<"_">> \/ parent \in p.hidden
                    \/ child.via # <<>> /\ child.via[1][2] \in p.hidden
        queue == IF Kind(p, child.to) \in Containers THEN Append(search.queue, child.to) ELSE search.queue
    IN  IF child.vis # 0 \/ child.to \in DOMAIN search.map THEN search
        ELSE IF fallback THEN [search EXCEPT !.queue = queue, !.fallback = IF child.to \in DOMAIN @ THEN @ ELSE (child.to :> parent) @@ @]
        ELSE [search EXCEPT !.queue = queue, !.map = (child.to :> parent) @@ @]

RECURSIVE AddChildren(_, _, _, _), ParentMap(_, _)
AddChildren(p, search, children, parent) ==
    IF children = <<>> THEN search ELSE AddChildren(p, AddChild(p, search, children[1], parent), Tail(children), parent)
ParentMap(p, search) ==
    IF search.queue = <<>> THEN search.map @@ search.fallback
    ELSE ParentMap(p, AddChildren(p, [search EXCEPT !.queue = Tail(@)], ItemChildren(p, search.queue[1]), search.queue[1]))
DirectCrates(p) == p.externs \union {p.nodes[i].of : i \in {i \in DOMAIN p.nodes : Kind(p, i) = "ExternCrate" /\ IsLocal(p, i)}}
VisibleParentMap(p) ==
    ParentMap(p, [queue |-> SelectSeq([i \in DOMAIN p.nodes |-> i], LAMBDA i : i \in DirectCrates(p)), map |-> <<>>, fallback |-> <<>>])

\* crate_to_def_path: a crate has a name, or an `extern crate` item that the scope may use.
NamedByItem(p, crate, scope, items) ==
    LET path == DefIdPath(p, Min(items))
        local == Inside(p, Min(items), scope)
        above == IF local THEN Len(DefIdPath(p, scope)) ELSE 1
    IN  IF crate \in p.externs THEN PathFrom("global", crate, <<>>)
        ELSE IF items = {} THEN NoPath
        ELSE PathFrom(IF local THEN "local" ELSE "global", LocalCrate, [k \in 1..(Len(path) - above) |-> Segment(p, path[above + k])])
CrateToDefPath(p, crate, scope) ==
    NamedByItem(p, crate, scope, {i \in DOMAIN p.nodes : /\ Kind(p, i) = "ExternCrate" /\ IsLocal(p, i) /\ p.nodes[i].of = crate
                                                         /\ Accessible(p, p.vis[i], ModOf(p, scope))})

RECURSIVE ClimbToCrate(_, _, _, _)
ClimbFrom(p, map, i, scope, path) ==
    IF path # NoPath THEN <<i, path>>
    ELSE IF i \in DOMAIN map THEN ClimbToCrate(p, map, map[i], scope) ELSE <<0, NoPath>>
ClimbToCrate(p, map, i, scope) ==
    ClimbFrom(p, map, i, scope, IF Up(p, i) = 0 THEN CrateToDefPath(p, i, scope) ELSE NoPath)

\* Where the search for an absolute path starts.
AbsoluteRoot(p, def, scope) ==
    LET crate == CrateOf(p, def)
    IN  IF crate = LocalCrate \/ crate \in p.externs THEN <<crate, PathFrom("global", crate, <<>>)>>
        ELSE ClimbToCrate(p, VisibleParentMap(p), def, scope)

-----------------------------------------------------------------------------
(* Absolute paths *)

\* A constructor is not what a path is asked for, but its struct or variant.
IsNamedBy(p, def, b) == b.to = def /\ (Kind(p, def) \in {"Struct", "Variant"} => b.ns = "T")

VisibleChild(p, b, scope, ignore) ==
    /\ b.vis \in {0, LocalCrate} \/ Accessible(p, b.vis, scope)
    /\ b.n # <<"_">>
    /\ Reexport(b) # <<>> => Tail(Reexport(b)[1]) # ignore

\* absolute_def_paths, the first one: breadth first through modules and re-exports.
RECURSIVE Search(_, _, _, _, _, _)
SearchBelow(p, def, scope, ignore, queue, seen, children, new) ==
    LET extended(b) == [queue[1][2] EXCEPT !.segs = Append(@, [to |-> b.to, id |-> [n |-> b.n, m |-> b.m], re |-> Reexport(b) # <<>>])]
        hits == {k \in DOMAIN children : IsNamedBy(p, def, children[k])}
        next == SelectSeq([k \in DOMAIN children |-> k], LAMBDA k : k \in new)
    IN  IF hits # {} THEN extended(children[Min(hits)])
        ELSE Search(p, def, scope, ignore, Tail(queue) \o [i \in DOMAIN next |-> <<children[next[i]].to, extended(children[next[i]])>>],
                    seen \union {children[k].to : k \in new})
Unseen(p, children, seen) ==
    {k \in DOMAIN children : /\ Kind(p, children[k].to) \in Containers /\ children[k].ns = "T"
                             /\ children[k].to \notin seen \union {children[j].to : j \in 1..(k - 1)}}
SearchAmong(p, def, scope, ignore, queue, seen, children) ==
    SearchBelow(p, def, scope, ignore, queue, seen, children, Unseen(p, children, seen))
Search(p, def, scope, ignore, queue, seen) ==
    IF queue = <<>> THEN NoPath
    ELSE SearchAmong(p, def, scope, ignore, queue, seen,
                     SelectSeq(ItemChildren(p, queue[1][1]), LAMBDA b : VisibleChild(p, b, scope, ignore)))

AbsoluteFrom(p, def, scope, ignore, root, impls) ==
    IF impls # 0 /\ impls # DefParent(p, def) THEN NoPath
    ELSE IF impls # 0 THEN PathFrom("type", p.nodes[impls].of, <<Segment(p, def)>>)
    ELSE IF root[1] = 0 THEN NoPath
    ELSE IF root[1] = def THEN root[2]
    ELSE Search(p, def, scope, ignore, <<root>>, {})
AbsoluteDefPath(p, def, scope, ignore) ==
    AbsoluteFrom(p, def, scope, ignore, AbsoluteRoot(p, def, scope), Nearest(p, DefParent(p, def), {"Impl"}))

-----------------------------------------------------------------------------
(* The path that is taken *)

RECURSIVE Supers(_, _, _)
Supers(p, from, to) == IF from = to THEN 0 ELSE 1 + Supers(p, ParentMod(p, from), to)

OrElse(path, other) == IF path # NoPath THEN path ELSE other
BelowParent(supers, path) == IF path = NoPath THEN NoPath ELSE PathFrom("parent", supers, path.segs)

\* visible_def_path: among the names of the module, or those of a module around it; else an absolute path.
\* With "prefix", a module is asked for only to name an item in it.
NearDefPath(p, def, request, scope, containing, from) ==
    CASE def = scope \/ ~IsLocal(p, def) -> NoPath
      [] def # scope /\ IsLocal(p, def) /\ containing = from -> LexicalDefPath(p, def, scope)
      [] OTHER ->
            IF containing = LocalCrate \/ ~Inside(p, from, containing) THEN NoPath
            ELSE IF request = "prefix" THEN PathFrom("parent", Supers(p, from, containing), <<>>)
            ELSE BelowParent(Supers(p, from, containing), LexicalDefPath(p, def, containing))
VisibleDefPath(p, def, request, scope, ignore) ==
    OrElse(NearDefPath(p, def, request, scope, IF request = "prefix" THEN def ELSE ParentMod(p, def), ModOf(p, scope)),
           OrElse(AbsoluteDefPath(p, def, scope, ignore), LexicalDefPath(p, def, scope)))

\* super_path_through_common_mod
RECURSIVE CommonMod(_, _, _)
CommonMod(p, c, containing) == IF Inside(p, containing, c) THEN c ELSE CommonMod(p, ParentMod(p, c), containing)
ThroughMods(p, supers, path) ==
    IF supers # 0 /\ path.root = "local" /\ \A k \in 1..(Len(path.segs) - 1) : Kind(p, path.segs[k].to) = "Mod"
    THEN PathFrom("parent", supers, path.segs) ELSE NoPath
PathThrough(p, def, from, common) == ThroughMods(p, Supers(p, from, common), LexicalDefPath(p, def, common))
SuperPathThroughCommonMod(p, def, scope) ==
    IF IsLocal(p, def) THEN PathThrough(p, def, ModOf(p, scope), CommonMod(p, ModOf(p, scope), ParentMod(p, def))) ELSE NoPath

\* Mutant: without the path through a common module.
OnlyVisibleDefPath(p, def, request, scope, ignore) == VisibleDefPath(p, def, request, scope, ignore)

\* expect_visible_def_path; with NoPath it panics.
ExpectVisibleDefPath(p, def, request, scope, ignore) ==
    OrElse(VisibleDefPath(p, def, request, scope, ignore), SuperPathThroughCommonMod(p, def, scope))

IsNameableHere(p, def, scope) == ExpectVisibleDefPath(p, def, "def", scope, <<>>) # NoPath
=============================================================================
