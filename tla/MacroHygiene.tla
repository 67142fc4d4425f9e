---------------------------- MODULE MacroHygiene ----------------------------
(* The sanitizer of mutest-emit/src/codegen/hygiene.rs, with hygiene/scope.rs  *)
(* and hygiene/self_ty.rs: before the expanded program is printed, it writes   *)
(* what the compiler knows of macros into the names themselves. One step for   *)
(* each node of the syntax tree, in the order of the visit.                    *)
EXTENDS VisiblePaths

VARIABLES
    program,    \* what the compiler knows
    printed,    \* the syntax tree as far as it is rewritten
    at,         \* the node that is visited next
    hack,       \* macros_2_0_top_level_relative_path_res_hack
    outcome     \* "visiting", "printed" or "panicked"

vars == <<program, printed, at, hack, outcome>>

Items == {"Mod", "Fn", "Struct", "Enum", "Trait", "Impl", "TyAlias", "MacroDef", "Use", "ExternCrate"}
Visited == "visiting"
NotInMacros2_0 == [in |-> "no", of |-> 0]

-----------------------------------------------------------------------------
(* Names *)

Raw(id) == [n |-> id.n, m |-> <<>>]

\* sanitize_ident_if_from_expansion: the last expansion that the name is looked up in becomes part of it. Locals and
\* labels are hygienic in every macro.
Sanitized(id, kind) ==
    LET marks == IF kind \in {"Local", "Label"} THEN id.m ELSE Opaque(program, id.m)
    IN  IF IsKeyword(id) \/ marks = <<>> THEN Raw(id) ELSE [n |-> Append(id.n, Last(marks)), m |-> <<>>]

\* copy_def_span_ctxt
Copied(id, def) == [n |-> id.n, m |-> program.nodes[def].id.m]

-----------------------------------------------------------------------------
(* Scopes *)

\* current_scope: the item around the node.
CurrentScope(i) == Nearest(program, Up(program, i), (Items \ {"Use", "ExternCrate", "MacroDef"}) \union {"AssocFn"})

\* push_block_names, for all blocks around the node; a glob stands for any name.
AnyName == <<>>
UseNames(u) == {IF leaf.glob THEN AnyName ELSE IF leaf.as # <<>> THEN leaf.as[1].n ELSE Last(leaf.path).n
                : leaf \in ToSet(program.nodes[u].leaves)}
BlockNames(i) ==
    UNION {IF Kind(program, j) = "Use" THEN UseNames(j) ELSE {program.nodes[j].id.n}
           : j \in {j \in DOMAIN program.nodes : /\ Kind(program, j) \in Items \ {"Impl"}
                                                 /\ Up(program, j) # 0 /\ Kind(program, Up(program, j)) = "Block"
                                                 /\ Inside(program, i, Up(program, j))}}

\* Mutant: whatever the block brings into scope.
NeverShadowed(path, names) == FALSE

\* is_shadowed_in_block
IsShadowedInBlock(path, names) ==
    /\ path.segs # <<>>
    /\ path.segs[1].re \/ Kind(program, DefParent(program, path.segs[1].to)) = "Mod"
    /\ {AnyName, path.segs[1].id.n} \intersect names # {}

-----------------------------------------------------------------------------
(* Written paths; the empty one stands for a panic *)

\* overwrite_path_with_def_path
Written(path, names) ==
    LET segs == [k \in DOMAIN path.segs |->
                    Sanitized(IF path.segs[k].re THEN path.segs[k].id ELSE program.nodes[path.segs[k].to].id, "Def")]
    IN  CASE path.root = "none" -> <<>>
          [] path.root = "global" /\ path.of = LocalCrate -> Ids(<<"crate">>) \o segs
          [] path.root = "global" /\ path.of # LocalCrate -> Ids(<<"{{root}}">>) \o <<Raw(program.nodes[path.of].id)>> \o segs
          [] path.root = "parent" -> [k \in 1..path.of |-> Ids(<<"super">>)[1]] \o segs
          [] path.root = "local" /\ IsShadowedInBlock(path, names) -> Ids(<<"self">>) \o segs
          [] OTHER -> segs

\* adjust_path_from_expansion; with "type" it has a qualified self, that the caller has to add.
Adjusted(path, to, scope, names, ignore) ==
    CASE Kind(program, to) = "Let" -> [root |-> "local", path |-> <<Sanitized(Copied(path[1], to), "Local")>>]
      [] Kind(program, to) = "TyParam" -> [root |-> "local", path |-> <<Sanitized(path[1], "Def")>>]
      [] OTHER ->
            LET found == ExpectVisibleDefPath(program, to, "def", scope, ignore)
            IN  [root |-> found.root, path |-> Written(found, names)]

Unqualified(adjusted) == IF adjusted.root = "type" THEN <<>> ELSE adjusted.path

\* sanitize_ty: types that are printed know of no blocks.
SanitizedTy(ty, scope) ==
    IF Kind(program, ty) = "TyParam" THEN <<Sanitized(program.nodes[ty].id, "Def")>>
    ELSE IF VisibleDefPath(program, ty, "def", scope, <<>>) = NoPath THEN <<>>
    ELSE Unqualified(Adjusted(<<>>, ty, scope, {}, <<>>))

-----------------------------------------------------------------------------
(* Type-relative paths, hygiene/self_ty.rs. A reference has the type in <>, or nothing, and a path. *)

TheOnly(S) == CHOOSE x \in S : TRUE
RECURSIVE Unaliased(_)
Unaliased(ty) == IF Kind(program, ty) = "TyAlias" THEN Unaliased(program.nodes[ty].of) ELSE ty

\* written_alias_path
WrittenSelfTy(node) == IF node.self # <<>> THEN node.self ELSE Front(node.path)
WrittenAliasPath(i) ==
    LET written == WrittenSelfTy(program.nodes[i])
        scope == CurrentScope(i)
    IN  IF written # <<>> /\ \E t \in program.selfTy[i] : Kind(program, t) = "TyAlias" /\ IsNameableHere(program, t, scope)
        THEN Unqualified(Adjusted(written, TheOnly(program.selfTy[i]), scope, BlockNames(i), <<>>)) ELSE <<>>

FirstWritten(path, other) == IF path # <<>> THEN path ELSE other
QselfTy(i) == FirstWritten(WrittenAliasPath(i), SanitizedTy(Unaliased(TheOnly(program.selfTy[i])), CurrentScope(i)))

\* A path in a type; either of them may be what cannot be written.
InType(self, path) == IF self = <<>> \/ path = <<>> THEN [self |-> <<>>, path |-> <<>>] ELSE [self |-> self, path |-> path]
AliasForm(alias, name, path) == IF alias # <<>> THEN Append(alias, Raw(name)) ELSE path

\* make_type_relative, sanitize_inherent_assoc_path and sanitize_non_assoc_path.
QualifiedAs(i, to, parent, adjusted, nameable) ==
    IF Kind(program, parent) = "Trait" \/ Inherent(program, parent)
    THEN InType(QselfTy(i), CASE Inherent(program, parent) -> IF adjusted.path = <<>> THEN <<>> ELSE <<Last(adjusted.path)>>
                              [] ~Inherent(program, parent) /\ nameable -> adjusted.path
                              [] OTHER -> <<Raw(program.nodes[to].id)>>)
    ELSE [self |-> <<>>,
          path |-> IF nameable THEN Unqualified(adjusted) ELSE AliasForm(WrittenAliasPath(i), Last(program.nodes[i].path), Unqualified(adjusted))]

\* sanitize_qualified_path, for a path that types are needed for.
Qualified(i, to) ==
    QualifiedAs(i, to, DefParent(program, to),
                Adjusted(program.nodes[i].path, to, CurrentScope(i), BlockNames(i), <<>>), IsNameableHere(program, to, CurrentScope(i)))

-----------------------------------------------------------------------------
(* Imports *)

\* What a prefix of an import path was resolved to.
Prefix(u, l, path) == IF path = <<>> THEN {} ELSE program.prefixes[u][l][Len(path)]

\* import_path_names_mod_child
ImportPathNamesModChild(u, l, path, to) ==
    LET child == LookupModChild(program, ModOf(program, u), to, "T", Last(path).n)
    IN  /\ ~IsKeyword(Last(path))
        /\ IF Len(path) > 1 THEN \E c \in Prefix(u, l, Front(path)) : Kind(program, c) = "Mod"
           ELSE child # <<>> /\ child[1].via # <<>>

RECURSIVE SuperOf(_, _)
SuperOf(c, supers) == IF supers = 0 THEN c ELSE SuperOf(ParentMod(program, c), supers - 1)

\* import_path_mod_scopes: with none it panics.
ImportPathModScopes(u, l, mods, item, top) ==
    LET here == ModOf(program, u)
        overlay == IF top.in = "top" THEN <<top.of>> ELSE <<>>
        base == (overlay \o <<here>>)[1]
        supers == IF mods # <<>> /\ IsWord(mods[1], "self") THEN Tail(mods) ELSE mods
        prefix == Prefix(u, l, mods)
    IN  CASE prefix # {} -> SelectSeq(<<TheOnly(prefix)>>, LAMBDA c : Kind(program, c) = "Mod")
          [] prefix = {} /\ Len(mods) = 1 /\ IsWord(mods[1], "$crate") -> <<CrateOf(program, program.expns[Last(mods[1].m)].macro)>>
          [] prefix = {} /\ Len(mods) = 1 /\ IsWord(mods[1], "crate") -> <<LocalCrate, CrateOf(program, item)>>
          [] prefix = {} /\ supers # <<>> /\ \A k \in DOMAIN supers : IsWord(supers[k], "super") ->
                IF IsLocal(program, base) THEN <<SuperOf(base, Len(supers))>> ELSE <<>>
          [] prefix = {} /\ supers = <<>> -> overlay \o <<here>> \o (IF program.prelude = 0 THEN <<>> ELSE <<program.prelude>>)
          [] OTHER -> <<>>

\* sanitize_import_path: the item, or the enum whose variant it is, is a child of one of the modules.
WrittenFor(u, l, def, request) == Written(ExpectVisibleDefPath(program, def, request, CurrentScope(u), <<u, l>>), BlockNames(u))
Prefixed(prefix, names) == IF prefix = <<>> THEN <<>> ELSE prefix \o names
ChildName(c, item, ns, id) ==
    IF IsLocal(program, item) THEN LET b == LookupModChild(program, c, item, ns, id.n)[1] IN Sanitized([n |-> b.n, m |-> b.m], "Def") ELSE Raw(id)
NamesInMod(u, l, mod, names) ==
    IF mod = ModOf(program, u) THEN names ELSE Prefixed(WrittenFor(u, l, mod, "prefix"), names)
ThroughMod(u, l, to, ns, path, enum, top) ==
    LET ending == IF enum = {} THEN 1 ELSE 2
        item == IF enum = {} THEN to ELSE TheOnly(enum)
        itemNs == IF enum = {} THEN ns ELSE "T"
        mods == SubSeq(path, 1, Len(path) - ending)
        itemId == path[Len(path) - ending + 1]
        hits == SelectSeq(ImportPathModScopes(u, l, mods, item, top), LAMBDA c : LookupModChild(program, c, item, itemNs, itemId.n) # <<>>)
    IN  IF hits # <<>>
        THEN NamesInMod(u, l, Head(hits), <<ChildName(Head(hits), item, itemNs, itemId)>> \o (IF enum = {} THEN <<>> ELSE <<ChildName(item, to, ns, Last(path))>>))
        ELSE IF mods = <<>> /\ Kind(program, item) = "MacroDef" THEN <<Sanitized(Copied(itemId, item), "Def")>> ELSE <<>>
SanitizedImportPath(u, l, to, ns, path, top) ==
    IF Kind(program, to) = "Mod" /\ ~ImportPathNamesModChild(u, l, path, to) THEN WrittenFor(u, l, to, "def")
    ELSE ThroughMod(u, l, to, ns, path, {c \in Prefix(u, l, Front(path)) : Kind(program, c) = "Enum"}, top)

\* One import of a use tree: the name that it introduces, and how it is written.
ImportAs(leaf, ns, name, path) ==
    [path |-> path, glob |-> leaf.glob, ns |-> ns, self |-> OfSelf(leaf),
     id |-> IF leaf.glob \/ leaf.as # <<>> THEN ImportedAs(leaf) ELSE [n |-> name.n, m |-> ImportedAs(leaf).m],
     as |-> IF leaf.glob \/ (leaf.as = <<>> /\ path # <<>> /\ Last(path).n = name.n) THEN <<>> ELSE <<name>>]
ImportsOf(u, l, leaf, top) ==
    LET to == program.imports[u][l]
        spaces == SelectSeq(IF leaf.glob THEN <<"T">> ELSE <<"T", "V", "M">>, LAMBDA ns : to[ns] # {})
    IN  [k \in DOMAIN spaces |->
            ImportAs(leaf, spaces[k], Sanitized(ImportedAs(leaf), "Def"), SanitizedImportPath(u, l, TheOnly(to[spaces[k]]), spaces[k], ItemPath(leaf), top))]

\* Imports that introduce the same name are written once.
SameImport(a, b) ==
    /\ ~a.glob /\ ~b.glob /\ a.id = b.id
    /\ \/ a.ns = b.ns /\ ~IsWord(a.id, "_")
       \/ a.path = b.path

\* sanitize_use_tree
Deduped(imports) ==
    FoldLeft(LAMBDA kept, import : IF kept # <<>> /\ SameImport(Last(kept), import) THEN kept ELSE Append(kept, import), <<>>, imports)
AsLeaves(imports) ==
    [k \in DOMAIN imports |->
        [path |-> IF imports[k].self /\ imports[k].path # <<>> THEN imports[k].path \o Ids(<<"self">>) ELSE imports[k].path,
         glob |-> imports[k].glob, as |-> imports[k].as]]
SanitizedUseTree(u, top) ==
    AsLeaves(Deduped(FlattenSeq([l \in DOMAIN program.nodes[u].leaves |-> ImportsOf(u, l, program.nodes[u].leaves[l], top)])))

-----------------------------------------------------------------------------
(* The visit *)

Node == program.nodes[at]

\* visit_vis: the path of a visibility is relative to the module around.
Restricted == Node.vis # <<>> /\ ~IsWord(Node.vis[1], "pub")
SanitizedVis ==
    IF ~Restricted THEN Node.vis
    ELSE Unqualified(Adjusted(Node.vis, program.vis[at], ParentMod(program, at), BlockNames(at), <<>>))

Visiting(kinds) == outcome = Visited /\ at \in DOMAIN program.nodes /\ Node.k \in kinds /\ IsLocal(program, at)

\* The node is written; an empty path is a panic, and so is a visibility that cannot be written.
Write(node, paths) ==
    /\ UNCHANGED program
    /\ IF <<>> \in paths \/ (Restricted /\ node.vis = <<>>)
       THEN outcome' = "panicked" /\ UNCHANGED <<printed, at>>
       ELSE printed' = [printed EXCEPT !.nodes[at] = node] /\ at' = at + 1 /\ UNCHANGED outcome

WriteRef(node) == Write(node, {node.path})
WriteUse(node) == Write(node, {node.leaves[l].path : l \in DOMAIN node.leaves})

\* flat_map_item: the place that relative paths are resolved in, if the item came out of a macro 2.0.
HackAtItem ==
    LET marks == Opaque(program, Node.sp)
    IN  IF marks = <<>> \/ hack = [in |-> "nested", of |-> Last(marks)] THEN hack
        ELSE IF Node.k = "Mod" THEN [in |-> "nested", of |-> Last(marks)]
        ELSE [in |-> "top", of |-> ModOf(program, DefScope(program, Last(marks)))]

VisitItem ==
    /\ Visiting(Items \ {"Use", "ExternCrate"})
    /\ hack' = HackAtItem
    /\ Write([Node EXCEPT !.id = Sanitized(@, "Def"), !.vis = SanitizedVis], {})

VisitExternCrate ==
    /\ Visiting({"ExternCrate"})
    /\ hack' = HackAtItem
    /\ Write([Node EXCEPT !.id = Sanitized(@, "Def"), !.vis = SanitizedVis], {})

VisitUse ==
    /\ Visiting({"Use"})
    /\ hack' = HackAtItem
    /\ WriteUse([Node EXCEPT !.leaves = SanitizedUseTree(at, hack'), !.vis = SanitizedVis])

\* flat_map_assoc_item: an item of a trait's impl goes by the name that it has in the trait.
VisitAssocItem ==
    /\ Visiting({"AssocFn"})
    /\ LET of == IF Kind(program, Node.up) = "Impl" THEN Node.of ELSE 0
           id == IF of = 0 THEN Node.id ELSE Copied(Node.id, of)
       IN  Write([Node EXCEPT !.id = Sanitized(id, "Def"), !.vis = SanitizedVis], {})
    /\ UNCHANGED hack

\* flat_map_variant, visit_field_def, visit_ident
VisitMember ==
    /\ Visiting({"Variant", "Field", "TyParam"})
    /\ Write([Node EXCEPT !.id = Sanitized(@, "Def"), !.vis = SanitizedVis], {})
    /\ UNCHANGED hack

\* visit_pat
VisitLet ==
    /\ Visiting({"Let"})
    /\ Write([Node EXCEPT !.id = Sanitized(@, "Local")], {})
    /\ UNCHANGED hack

\* visit_block: what it brings into scope is BlockNames.
VisitBlock ==
    /\ Visiting({"Block"})
    /\ Write(Node, {})
    /\ UNCHANGED hack

\* visit_label
VisitLabel ==
    /\ Visiting({"Loop", "LabelRef"})
    /\ Write([Node EXCEPT !.id = Sanitized(@, "Label")], {})
    /\ UNCHANGED hack

\* visit_path, and sanitize_qualified_path for what name resolution alone resolved.
VisitPath ==
    /\ Visiting({"Ref"}) /\ program.selfTy[at] = {}
    /\ WriteRef([Node EXCEPT !.path = Unqualified(Adjusted(@, TheOnly(program.res[at]), CurrentScope(at), BlockNames(at), <<>>))])
    /\ UNCHANGED hack

VisitQualifiedPath ==
    /\ Visiting({"Ref"}) /\ program.selfTy[at] # {}
    /\ WriteRef(Qualified(at, TheOnly(program.res[at])) @@ Node)
    /\ UNCHANGED hack

\* visit_expr, visit_pat: fields and methods go by the name of their definition.
VisitTypeDependent ==
    /\ Visiting({"FieldRef", "MethodCall"})
    /\ Write([Node EXCEPT !.id = Sanitized(Copied(@, TheOnly(program.res[at])), "Def")], {})
    /\ UNCHANGED hack

\* The crate is printed, and the compiler reads it again without any marks.
AsRead == Compiled([printed EXCEPT !.nodes = [i \in DOMAIN @ |-> IF IsLocal(program, i) THEN [@[i] EXCEPT !.sp = <<>>] ELSE @[i]]])

Done ==
    /\ outcome = Visited
    /\ at \in DOMAIN program.nodes => ~IsLocal(program, at)
    /\ outcome' = "printed" /\ printed' = AsRead
    /\ UNCHANGED <<program, at, hack>>

Starts(p) ==
    /\ program = p
    /\ printed = program
    /\ at = 1
    /\ hack = NotInMacros2_0
    /\ outcome = Visited

Next ==
    \/ VisitItem \/ VisitExternCrate \/ VisitUse \/ VisitAssocItem \/ VisitMember \/ VisitLet \/ VisitBlock \/ VisitLabel
    \/ VisitPath \/ VisitQualifiedPath \/ VisitTypeDependent \/ Done

-----------------------------------------------------------------------------
(* What the printed program has to mean *)

LocalNodes == {i \in DOMAIN program.nodes : IsLocal(program, i)}
Singles(p, c) == {b \in p.names[c] : ~IsGlob(b) /\ b.n # <<"_">>}
SameBindings(c) ==
    LET key(b, n) == [n |-> n, ns |-> b.ns, to |-> b.to, vis |-> b.vis]
    IN  /\ {key(b, Sanitized([n |-> b.n, m |-> b.m], "Def").n) : b \in Singles(program, c)} \subseteq {key(b, b.n) : b \in Singles(printed, c)}
        /\ \A a, b \in Singles(printed, c) : a.n = b.n /\ a.ns = b.ns => a.to = b.to

\* What a node refers to, and whether a path could name that from the node.
Wanted(i) ==
    LET node == program.nodes[i]
    IN  (IF node.k = "Ref" THEN program.res[i] \union program.selfTy[i] ELSE {})
        \union (IF node.k = "Use" THEN UNION {program.imports[i][x[1]][x[2]] : x \in (DOMAIN node.leaves) \X Namespaces} ELSE {})
        \union (IF node.vis = <<>> THEN {} ELSE {program.vis[i]} \ {0})
SeenFrom(i, c) == {b \in program.names[c] : Accessible(program, b.vis, ModOf(program, i))}
RECURSIVE Reach(_, _)
Reach(i, cs) ==
    LET more == cs \union {b.to : b \in {b \in UNION {SeenFrom(i, c) : c \in cs} : b.to \in DOMAIN program.names}}
    IN  IF more = cs THEN cs ELSE Reach(i, more)
Nameable(i, t) ==
    \/ t \in {LocalCrate} \union program.externs \/ Kind(program, t) \in {"Let", "TyParam"}
    \/ \E c \in Reach(i, {c \in DOMAIN program.names : Inside(program, i, c)} \union {LocalCrate} \union program.externs) :
            \E b \in SeenFrom(i, c) : b.to = t

-----------------------------------------------------------------------------
(* What the sanitizer does not keep. A name is written with the last of its marks alone. *)

LastMark(i) ==
    LET m == program.nodes[i].id.m
        kept == IF Kind(program, i) \in {"Let", "Loop", "LabelRef"} THEN m ELSE Opaque(program, m)
    IN  SubSeq(kept, Max({1, Len(kept)}), Len(kept))
WrittenAlike(i, j) == program.nodes[i].id.n = program.nodes[j].id.n /\ LastMark(i) = LastMark(j)
Share(i, j) == BoundIn(program, i) \intersect BoundIn(program, j) # {}

InBlock(i) == Up(program, i) # 0 /\ Kind(program, Up(program, i)) = "Block"
BlockItems(i) == {j \in LocalNodes : Kind(program, j) \in Items \ {"Impl"} /\ InBlock(j) /\ Inside(program, i, Up(program, j))}
Binders(i) == {j \in 1..(i - 1) : Kind(program, j) \in {"Let", "TyParam"} /\ Inside(program, i, Up(program, j))}

\* What the written path to t starts with, if it starts with a bare name.
Heads(i, t) ==
    {h \in LocalNodes : /\ Inside(program, t, h) /\ Up(program, h) # 0 /\ Inside(program, i, Up(program, h))
                        /\ h = t \/ ~Inside(program, i, h)
                        /\ ParentMod(program, t) = ModOf(program, i) \/ InBlock(h)}

\* A variable or a type parameter of the same written name is nearer.
HiddenByBinder(i, h, ns) ==
    \E j \in Binders(i) \ {h} :
        /\ WrittenAlike(j, h) /\ ns = (IF Kind(program, j) = "Let" THEN "V" ELSE "T")
        /\ IF h \in Binders(i) THEN h < j ELSE Inside(program, Up(program, j), Up(program, h))

\* An item or import of a block further in has the same written name.
Introduces(j, h) ==
    IF Kind(program, j) = "Use" THEN {AnyName, program.nodes[h].id.n} \intersect UseNames(j) # {}
    ELSE WrittenAlike(j, h) /\ Share(j, h)
HiddenByBlock(i, h) ==
    \E j \in BlockItems(i) \ {h} :
        Up(program, j) # Up(program, h) /\ Inside(program, Up(program, j), Up(program, h)) /\ Introduces(j, h)

\* `use a::b::{self}` is not known to bring b into the scope of a block.
HiddenBySelfImport(i, h) ==
    \E u \in {j \in BlockItems(i) : Kind(program, j) = "Use"} : \E l \in DOMAIN program.nodes[u].leaves :
        LET leaf == program.nodes[u].leaves[l]
        IN  OfSelf(leaf) /\ leaf.as = <<>> /\ ImportedAs(leaf).n = program.nodes[h].id.n

\* Items of one scope that are written alike.
HasTwin(t) == \E j \in Children(program, Up(program, t)) \ {t} : WrittenAlike(j, t) /\ Share(j, t)

LabelNotKept(i, t) ==
    \/ LastMark(i) # LastMark(t)
    \/ \E j \in LocalNodes \ {t} : Kind(program, j) = "Loop" /\ WrittenAlike(j, t) /\ Inside(program, i, j) /\ Inside(program, j, t)

\* The item of a trait that is in scope only where the macro is defined.
TraitNotInScope(i, t) ==
    /\ Kind(program, Up(program, t)) = "Trait"
    /\ ~TraitInScope(program, i, Up(program, t), <<>>)
    /\ Kind(program, i) = "MethodCall" \/ ~Nameable(i, Up(program, t))

\* A variant that only an alias of its enum leads to is written without its mark.
VariantOfAlias(i, t) == Kind(program, t) = "Variant" /\ LastMark(t) # <<>> /\ ~Nameable(i, t)

RefNotKept(i) ==
    LET node == program.nodes[i]
    IN  \E t \in program.res[i] :
            \/ HasTwin(t) \/ TraitNotInScope(i, t) \/ VariantOfAlias(i, t)
            \/ node.k = "LabelRef" /\ LabelNotKept(i, t)
            \/ node.k = "Ref" /\ \E h \in Heads(i, t) :
                    \/ HiddenByBinder(i, h, IF h = t THEN node.ns ELSE "T")
                    \/ IF InBlock(h) THEN HiddenByBlock(i, h) ELSE HiddenBySelfImport(i, h)
            \* The type in <> is written as if no block were around.
            \/ node.k = "Ref" /\ \E ty \in program.selfTy[i] : \E h \in Heads(i, Unaliased(ty)) : HiddenByBlock(i, h)

\* `pub(self)` and the like, in a module of a block.
RestrictedInBlock(i) ==
    LET node == program.nodes[i]
    IN  node.vis # <<>> /\ ~IsWord(node.vis[1], "pub") /\ program.vis[i] > 0 /\ InBlock(program.vis[i])

\* Panics, although there are names for what is referred to: an import through an
\* item of a block, one by hand that follows an item of a macro 2.0 in its
\* module, one of a macro through a private module of another crate; and what is
\* in a crate that only an `extern crate` of another module names.
ImportsBlockItem(u) ==
    \E l \in DOMAIN program.nodes[u].leaves : \E ns \in Namespaces : \E t \in program.imports[u][l][ns] :
        LET item == IF Kind(program, t) = "Variant" THEN Up(program, t) ELSE t
        IN  InBlock(item) /\ Kind(program, item) \notin {"Mod", "MacroDef"}
ImportsThroughPrivate(u) ==
    \E l \in DOMAIN program.nodes[u].leaves : \E k \in DOMAIN program.prefixes[u][l] : \E c \in program.prefixes[u][l][k] :
        ~IsLocal(program, c) /\ ~Accessible(program, program.vis[c], u)
NamedElsewhere(i, t) ==
    LET items == {j \in LocalNodes : Kind(program, j) = "ExternCrate" /\ program.nodes[j].of = CrateOf(program, t)}
    IN  items # {} /\ CrateOf(program, t) \notin program.externs /\ \A j \in items : ~Accessible(program, program.vis[j], i)
PanicsAtNameable(i) ==
    \/ RestrictedInBlock(i)
    \/ Kind(program, i) = "Use" /\ (ImportsBlockItem(i) \/ ImportsThroughPrivate(i) \/ (hack.in = "top" /\ Opaque(program, program.nodes[i].sp) = <<>>))
    \/ \E t \in Wanted(i) : NamedElsewhere(i, t)

KeepsMeaning ==
    /\ \A i \in References(program) \intersect LocalNodes : printed.res[i] = program.res[i] <=> ~RefNotKept(i)
    /\ \A i \in LocalNodes : printed.vis[i] = program.vis[i] <=> ~RestrictedInBlock(i)
    /\ \A c \in DOMAIN program.names \intersect LocalNodes :
            SameBindings(c) \/ \E i \in Children(program, c) : HasTwin(i) \/ RestrictedInBlock(i)
=============================================================================
