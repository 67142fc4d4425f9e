-------------------------- MODULE MCHygienePrograms --------------------------
(* Small programs with macros for MacroHygiene, built as trees.                *)
EXTENDS VisiblePaths

-----------------------------------------------------------------------------
(* Trees *)

Id(word) == [n |-> <<word>>, m |-> <<>>, raw |-> FALSE]
Arg(id) == [id EXCEPT !.raw = TRUE]     \* an argument of the macro around it
P(words) == [i \in DOMAIN words |-> Id(words[i])]
Tree(kind, word, sub) ==
    [k |-> kind, id |-> Id(word), sp |-> <<>>, vis |-> <<>>, path |-> <<>>, self |-> <<>>, ns |-> "", of |-> "", to |-> "",
     ctor |-> FALSE, leaves |-> <<>>, tag |-> word, sub |-> sub, raw |-> FALSE]

Vised(words, t) == [t EXCEPT !.vis = P(words)]
Pub(t) == Vised(<<"pub">>, t)
Tagged(tag, t) == [t EXCEPT !.tag = tag]
Mod(name, sub) == Tree("Mod", name, sub)
Block(sub) == Tree("Block", "", sub)
Fn(name, sub) == Tree("Fn", name, <<Block(sub)>>)
FnOf(name, params, sub) == Tree("Fn", name, params \o <<Block(sub)>>)
Struct(name) == Tree("Struct", name, <<>>)
StructOf(name, fields) == Tree("Struct", name, fields)
Field(name) == Tree("Field", name, <<>>)
Enum(name, variants) == Tree("Enum", name, [i \in DOMAIN variants |-> Tree("Variant", variants[i], <<>>)])
Trait(name, sub) == Tree("Trait", name, sub)
AssocFn(name, sub) == Tree("AssocFn", name, IF sub = <<>> THEN <<>> ELSE <<Block(sub)>>)
Impl(of, to, sub) == [Tree("Impl", "impl", sub) EXCEPT !.of = of, !.to = to]
AssocFnOf(name, of, sub) == [AssocFn(name, sub) EXCEPT !.of = of, !.tag = ""]
TyAlias(name, of) == [Tree("TyAlias", name, <<>>) EXCEPT !.of = of]
TyParam(name, of) == [Tree("TyParam", name, <<>>) EXCEPT !.of = of]
MacroDef(name) == Tree("MacroDef", name, <<>>)
ExternCrate(name, of) == [Tree("ExternCrate", name, <<>>) EXCEPT !.of = of, !.tag = "extern"]
Let(name) == Tree("Let", name, <<>>)
Loop(name, sub) == Tree("Loop", name, sub)
RefOf(ns, path) == [Tree("Ref", "", <<>>) EXCEPT !.ns = ns, !.path = path]
Ref(words) == RefOf("V", P(words))
TyRef(words) == RefOf("T", P(words))
QRef(self, words) == [Ref(words) EXCEPT !.self = P(self)]
FieldRef(of, name) == [Tree("FieldRef", name, <<>>) EXCEPT !.of = of, !.tag = ""]
MethodCall(of, name) == [Tree("MethodCall", name, <<>>) EXCEPT !.of = of, !.tag = ""]
LabelRef(name) == Tagged("", Tree("LabelRef", name, <<>>))
Use(leaves) == [Tree("Use", "", <<>>) EXCEPT !.leaves = leaves]
Leaf(words) == [path |-> P(words), glob |-> FALSE, as |-> <<>>]
LeafAs(words, name) == [path |-> P(words), glob |-> FALSE, as |-> <<Id(name)>>]
Glob(words) == [path |-> P(words), glob |-> TRUE, as |-> <<>>]

\* What comes out of an expansion, except for its arguments.
MarkId(e, id) == IF id.raw THEN id ELSE [id EXCEPT !.m = <<e>> \o @]
MarkIds(e, ids) == [i \in DOMAIN ids |-> MarkId(e, ids[i])]
RECURSIVE By(_, _)
By(e, t) ==
    IF t.raw THEN t
    ELSE [t EXCEPT !.id = MarkId(e, @), !.sp = <<e>> \o @, !.vis = MarkIds(e, @), !.path = MarkIds(e, @), !.self = MarkIds(e, @),
                   !.leaves = [l \in DOMAIN @ |-> [@[l] EXCEPT !.path = MarkIds(e, @), !.as = MarkIds(e, @)]],
                   !.sub = [s \in DOMAIN @ |-> By(e, @[s])]]
AllBy(e, ts) == [i \in DOMAIN ts |-> By(e, ts[i])]
ArgOf(t) == [t EXCEPT !.raw = TRUE]
NamedBy(t, name) == [t EXCEPT !.id = Arg(Id(name))]

\* Preorder.
RECURSIVE Flat(_, _, _), FlatAll(_, _, _)
Flat(t, up, i) == <<[t |-> t, up |-> up]>> \o FlatAll(t.sub, i, i + 1)
FlatAll(ts, up, i) ==
    IF ts = <<>> THEN <<>>
    ELSE LET first == Flat(ts[1], up, i) IN first \o FlatAll(Tail(ts), up, i + Len(first))

Clean(ids) == [i \in DOMAIN ids |-> [n |-> ids[i].n, m |-> ids[i].m]]
Expansion(macro, opaque, up) == [macro |-> macro, opaque |-> opaque, up |-> up]

\* A program of crates, the own one first; externs are the crates that have a name, prelude a module or "".
Program(crates, expns, externs, prelude, hidden) ==
    LET flat == FlatAll(crates, 0, 1)
        index(tag) == IF tag = "" THEN 0 ELSE CHOOSE i \in DOMAIN flat : flat[i].t.tag = tag
    IN  [nodes |-> [i \in DOMAIN flat |->
                        LET t == flat[i].t
                        IN  [k |-> t.k, up |-> flat[i].up, id |-> Clean(<<t.id>>)[1], sp |-> t.sp, vis |-> Clean(t.vis), path |-> Clean(t.path),
                             self |-> Clean(t.self), ns |-> t.ns, of |-> index(t.of), to |-> index(t.to), ctor |-> t.ctor,
                             leaves |-> [l \in DOMAIN t.leaves |->
                                [path |-> Clean(t.leaves[l].path), glob |-> t.leaves[l].glob, as |-> Clean(t.leaves[l].as)]]]],
         expns |-> [e \in DOMAIN expns |-> [expns[e] EXCEPT !.macro = index(@)]],
         names |-> <<>>, vis |-> <<>>, res |-> <<>>, selfTy |-> <<>>, imports |-> <<>>, prefixes |-> <<>>,
         externs |-> {index(x) : x \in externs},
         prelude |-> index(prelude),
         hidden |-> {index(x) : x \in hidden}]

\* What the compiler accepts.
WellFormed(p) ==
    /\ \A i \in DOMAIN p.nodes : p.vis[i] # -1
    /\ \A i \in References(p) : Cardinality(p.res[i]) = 1
    /\ \A u \in DOMAIN p.nodes : \A l \in DOMAIN p.nodes[u].leaves : \E ns \in Namespaces : p.imports[u][l][ns] # {}
    /\ \A c \in DOMAIN p.names : \A a, b \in p.names[c] :
            (a.n = b.n /\ a.m = b.m /\ a.ns = b.ns /\ ~IsGlob(a) /\ ~IsGlob(b) /\ a.n # <<"_">>) => a = b

-----------------------------------------------------------------------------
(* Programs of one crate *)

M2 == MacroDef("m2")
M3 == MacroDef("m3")
Local(opaque, items) ==
    Program(<<Mod("crate", <<MacroDef("m")>> \o items)>>,
            <<Expansion("m", opaque, 0), Expansion("m", ~opaque, 0), Expansion("m2", opaque, 0), Expansion("m3", opaque, 0)>>, {}, "", {})
Marked(e, ts) == IF e = 0 THEN ts ELSE AllBy(e, ts)
If(holds, t) == IF holds THEN <<t>> ELSE <<>>
Called(name, vis, tag) == Vised(vis, Tagged(tag, Fn(name, <<>>)))

\* A path, from a macro that is defined in one module and used in another, to a function of a third.
PathProgram(place, vis, macro, call, opaque, words) ==
    LET f == Vised(vis, Fn("f", <<>>))
        m == MacroDef("m")
        user == Fn("user", <<By(1, Ref(words))>>)
    IN  Program(<<Mod("crate",
            If(place = "crate", f) \o If(macro = "crate", m) \o If(call = "crate", user) \o
            <<Mod("a", If(place = "a", f) \o If(macro = "a", m) \o If(call = "a", user) \o <<Pub(Mod("b", If(place = "b", f)))>>),
              Mod("c", <<Mod("d", If(macro = "d", m) \o If(call = "d", user))>>)>>)>>,
            <<Expansion("m", opaque, 0)>>, {}, "", {})
PathWords == [crate |-> {<<"f">>, <<"super", "f">>, <<"crate", "f">>}, a |-> {<<"f">>, <<"a", "f">>, <<"crate", "a", "f">>}, b |-> {<<"self", "b", "f">>, <<"$crate", "a", "b", "f">>}]
PathPrograms ==
    UNION {{PathProgram(place, vis, macro, call, opaque, words) :
                vis \in {<<"pub">>, <<"crate">>}, macro \in {"crate", "a", "d"}, call \in {"crate", "a", "d"}, opaque \in BOOLEAN, words \in PathWords[place]}
             : place \in {"crate", "a", "b"}}

\* An item that comes out of a macro, next to one of the same name.
TwinsProgram(opaque, e, vis, words) ==
    Local(opaque, <<
        Mod("a", <<M2, M3, Called("f", vis, "f0")>> \o AllBy(e, <<Called("f", <<"pub">>, "f1"), Fn("g", <<Ref(<<"f">>)>>)>>) \o <<Fn("h", <<Ref(<<"f">>)>>)>>),
        Mod("c", AllBy(3, <<Fn("k", <<Ref(words)>>)>>))>>)
TwinsPrograms ==
    {TwinsProgram(opaque, 1, vis, words) :
                opaque \in BOOLEAN, vis \in {<<>>, <<"super">>}, words \in {<<"f">>, <<"super", "a", "f">>, <<"crate", "a", "f">>}}

\* Variables of a function and of three macros, and labels.
Lets == <<Let("x"), By(1, Let("x")), By(2, Let("x")), By(4, Let("x"))>>
LocalsProgram(second, third) ==
    Local(TRUE, <<M2, FnOf("f", <<Let("x")>>, <<
        M3, Lets[second], Ref(<<"x">>), By(4, Ref(<<"x">>)),
        By(1, Block(<<Let("x"), ArgOf(Ref(<<"x">>)), Ref(<<"x">>), ArgOf(By(4, Ref(<<"x">>))), By(2, Block(<<Let("x"), Ref(<<"x">>), ArgOf(Ref(<<"x">>))>>))>>)),
        Lets[third], Ref(<<"x">>), By(4, Ref(<<"x">>))>>)>>)
LabelsProgram(e, f) ==
    Local(TRUE, <<M2, M3, Fn("f", <<
        Loop("l", <<LabelRef("l"), By(e, Loop("l", <<LabelRef("l"), ArgOf(LabelRef("l")), By(f, Loop("l", <<LabelRef("l"), ArgOf(LabelRef("l"))>>))>>))>>)>>)>>)
LocalsPrograms == {LocalsProgram(second, third) : second \in {2, 3, 4}, third \in {2, 3, 4}} \union {LabelsProgram(e, f) : e \in 1..2, f \in 1..2}

\* An import, by hand or out of a macro, of one or two items of one name.
ImportProgram(opaque, e, items, leaf, ref, more) ==
    Local(opaque, <<
        Mod("a", items \o <<Pub(Mod("b", <<Called("g", <<"pub">>, "f3"), Vised(<<"crate">>, Enum("E", <<"V", "W">>)), Pub(Use(<<LeafAs(<<"super", "f">>, "r")>>))>>))>>),
        Mod("c", <<M2, M3, Mod("d", <<>>)>> \o Marked(e, <<Use(<<leaf>> \o more), Fn("user", <<ref>>)>>))>>)
AFn == Pub(Fn("f", <<>>))
AMod == Pub(Tagged("f2", Mod("f", <<Pub(Fn("q", <<>>))>>)))
Leaves == {
    <<Leaf(<<"super", "a", "f">>), "f">>, <<LeafAs(<<"crate", "a", "f">>, "h"), "h">>, <<Leaf(<<"$crate", "a", "f">>), "f">>, <<Glob(<<"super", "a">>), "f">>,
    <<Leaf(<<"super", "a", "b", "r">>), "r">>, <<LeafAs(<<"super", "a", "b", "r">>, "f"), "f">>, <<Glob(<<"crate", "a", "b">>), "r">>,
    <<Glob(<<"crate", "a", "b", "E">>), "V">>, <<Leaf(<<"crate", "a", "b", "E", "V">>), "V">>, <<LeafAs(<<"crate", "a", "b", "E", "V">>, "W"), "W">>}
ModLeaves == {
    <<Leaf(<<"crate", "a", "b", "self">>), "b">>, <<LeafAs(<<"crate", "a", "b", "self">>, "f"), "f">>, <<Leaf(<<"crate", "a", "b">>), "b">>, <<LeafAs(<<"self", "d">>, "f"), "f">>}
Another == LeafAs(<<"super", "a", "b", "g">>, "_g")
ImportPrograms ==
    {ImportProgram(opaque, 1, <<AFn>>, leaf[1], RefOf("V", P(<<leaf[2]>>)), <<Another>>) : opaque \in BOOLEAN, leaf \in Leaves} \union
    {ImportProgram(TRUE, 0, <<AFn, AMod>>, leaf[1], RefOf("V", P(<<leaf[2]>>)), <<>>) : leaf \in {leaf \in Leaves : leaf[1].path[1].n # <<"$crate">>}} \union
    {ImportProgram(TRUE, e, <<AFn>>, leaf[1], RefOf("T", P(<<leaf[2]>>)), <<>>) : e \in {0, 1}, leaf \in ModLeaves} \union
    {ImportProgram(TRUE, 3, <<item, Pub(Tagged("f3", MacroDef("f")))>>, leaf[1], RefOf(ns, P(<<leaf[2]>>)), <<Another>>)
                : item \in {Vised(<<"super">>, Fn("f", <<>>)), Pub(Struct("f"))}, leaf \in Leaves, ns \in {"V", "M"}}

\* Items of a block, and what is used in it.
BlockProgram(items, ref) ==
    Local(TRUE, <<M2, Fn("f", <<>>), Mod("a", <<M3, Called("f", <<"pub">>, "f1"), Pub(Struct("S"))>>), Fn("user", items \o <<Block(<<ref, Let("y")>>)>>)>>)
BlockItems == {
    <<>>, <<Tagged("f2", Fn("f", <<>>))>>, <<By(1, Tagged("f2", Fn("f", <<>>)))>>, <<Use(<<Leaf(<<"a", "f">>)>>)>>, <<Use(<<Glob(<<"a">>)>>)>>,
    <<Use(<<Leaf(<<"a", "self">>)>>)>>, <<Use(<<LeafAs(<<"a", "S">>, "T")>>)>>, <<Use(<<LeafAs(<<"crate", "f">>, "g")>>)>>,
    <<By(1, Use(<<Leaf(<<"crate", "a", "f">>)>>)), By(1, Ref(<<"f">>))>>, <<By(3, Use(<<Leaf(<<"self", "f">>)>>)), By(3, Ref(<<"f">>))>>,
    <<Mod("n", <<Pub(Tagged("f3", Fn("f", <<Ref(<<"super", "f">>)>>))), Use(<<LeafAs(<<"super", "a", "f">>, "h")>>)>>)>>,
    <<Mod("n", <<Mod("o", <<Pub(Tagged("f3", Fn("f", <<>>)))>>), Mod("p", <<Fn("k", <<Ref(<<"super", "o", "f">>)>>)>>)>>)>>,
    <<Tagged("f2", Fn("k", <<By(1, Ref(<<"f">>)), Tagged("f4", Fn("f", <<>>))>>))>>,
    <<Tagged("f2", Fn("k", <<Mod("f", <<Tagged("S2", Struct("S")), Fn("l", <<TyRef(<<"S">>), By(1, TyRef(<<"a", "S">>))>>)>>)>>))>>}
BlockPrograms ==
    {BlockProgram(items, ref) : items \in BlockItems, ref \in {By(1, Ref(<<"f">>)), By(1, TyRef(<<"a", "S">>))}} \union
    {BlockProgram(items, ref) : items \in BlockItems, ref \in {Ref(<<"f">>), By(3, Ref(<<"f">>)), Ref(<<"T">>), Ref(<<"n", "f">>)}}

\* Types and what is associated with them.
TypeProgram(opaque, e, f, use, ref) ==
    Local(opaque, <<
        Mod("a", <<M2, M3>> \o Marked(e, <<
            Vised(<<"crate">>, StructOf("S", <<Pub(Field("x")), Field("z")>>)), Impl("S", "", <<Pub(AssocFn("new", <<FieldRef("S", "x"), FieldRef("S", "z")>>))>>),
            Pub(Trait("T", <<AssocFn("t", <<>>)>>)), Impl("S", "T", <<AssocFnOf("t", "t", <<MethodCall("S", "new")>>)>>),
            Vised(<<"crate">>, Enum("E", <<"V">>)), Pub(TyAlias("A", "S")), Pub(TyAlias("B", "E"))>>) \o <<Fn("home", <<By(IF f = 0 THEN 3 ELSE f, ref)>>)>>),
        Mod("c", Marked(f, <<Use(use), FnOf("user", <<TyParam("Q", "T")>>, <<ref>>)>>))>>)
GlobUse == <<Glob(<<"super", "a">>)>>
NamedUse == <<LeafAs(<<"super", "a", "T">>, "_"), Leaf(<<"super", "a", "S">>), Leaf(<<"super", "a", "A">>), Leaf(<<"super", "a", "B">>)>>
SwappedUse == <<LeafAs(<<"super", "a", "T">>, "S"), LeafAs(<<"super", "a", "S">>, "T"), LeafAs(<<"super", "a", "E">>, "B")>>
TypeRefs == {
    Ref(<<"S", "new">>), QRef(<<"S">>, <<"new">>), QRef(<<"S">>, <<"T", "t">>), Ref(<<"S", "t">>), Ref(<<"Q", "t">>), Ref(<<"A", "new">>), Ref(<<"B", "V">>),
    QRef(<<"A">>, <<"t">>), Ref(<<"T", "t">>), MethodCall("S", "t"), MethodCall("S", "new"), FieldRef("S", "x"), TyRef(<<"B">>)}
TypePrograms ==
    {TypeProgram(x[1], x[2], x[3], use, ref) :
                x \in {<<TRUE, 0, 0>>, <<TRUE, 1, 1>>, <<FALSE, 1, 0>>}, use \in {GlobUse, NamedUse, SwappedUse}, ref \in TypeRefs \union {By(1, ref) : ref \in TypeRefs}}

\* Modules, members and imports of restricted visibility, some out of macros.
VisibilityProgram(e, f, vis, inner) ==
    Local(TRUE, <<M2, Mod("a", <<M3, Called("f", <<"pub">>, "f0")>> \o
        Marked(e, <<Mod("b", <<Vised(vis, Fn("f", <<Ref(<<"super", "f">>)>>)), Use(<<LeafAs(<<"super", "f">>, "h")>>), Vised(inner, StructOf("S", <<Vised(vis, Field("x"))>>)),
            Pub(Mod("n", Marked(f, <<Vised(vis, Use(<<LeafAs(<<"super", "f">>, "i")>>)), Fn("k", <<FieldRef("S", "x")>>)>>))), Use(<<LeafAs(<<"self", "n">>, "nn")>>)>>)>>)
        \o Marked(e, <<Use(<<LeafAs(<<"self", "b">>, "bb")>>)>>) \o <<Fn("last", <<Ref(<<"f">>)>>), Use(<<LeafAs(<<"f">>, "ff")>>)>>)>>)
VisibilityPrograms ==
    {VisibilityProgram(e, f, vis, <<"crate">>) : e \in {0, 2, 4}, f \in {0, 2}, vis \in {<<"pub">>, <<"super">>, <<"self">>, <<"crate", "a">>, <<"super", "super">>}}

-----------------------------------------------------------------------------
(* Programs with other crates: std and dep have names, dep2 only where an item gives it one. *)

CratesProgram(items, item, hidden) ==
    Program(<<
        Mod("crate", <<MacroDef("m")>> \o items \o <<Mod("c", <<item>>)>>),
        Mod("dep", <<
            Pub(MacroDef("dm")), Pub(Mod("p", <<Pub(Fn("f", <<>>)), Pub(Use(<<LeafAs(<<"super", "q", "f">>, "h")>>))>>)),
            Mod("q", <<Called("f", <<"pub">>, "f1"), Pub(Struct("S")), [Pub(Struct("C")) EXCEPT !.ctor = TRUE], Fn("o", <<>>)>>),
            Pub(Tagged("doc", Mod("__", <<Pub(Use(<<LeafAs(<<"super", "dep2", "X">>, "S1")>>))>>))),
            Pub(Use(<<LeafAs(<<"self", "q", "S">>, "R")>>)), Pub(Use(<<Leaf(<<"self", "q", "C">>)>>)),
            Pub(Mod("z", <<Pub(Use(<<Leaf(<<"super", "dep2", "X">>), Leaf(<<"super", "dep2", "y">>)>>))>>)), ExternCrate("dep2", "d2")>>),
        Tagged("d2", Mod("dep2", <<Pub(Struct("X")), Pub(Mod("y", <<Called("f", <<"pub">>, "f2"), Pub(Enum("E", <<"V">>))>>))>>)),
        Mod("std", <<Pub(Mod("opt", <<Pub(Enum("O", <<"Some">>))>>)), Pub(Mod("pre", <<Pub(Use(<<Leaf(<<"super", "opt", "O">>), Leaf(<<"super", "opt", "O", "Some">>)>>))>>))>>)>>,
        <<Expansion("m", TRUE, 0), Expansion("dm", TRUE, 0), Expansion("dm", FALSE, 0)>>, {"dep", "std"}, "pre", hidden)
Using(ref) == Fn("u", <<ref>>)
CrateItems == {
    <<Tagged("ext", ExternCrate("dep2", "d2"))>>, <<Use(<<LeafAs(<<"dep", "z", "y">>, "y2")>>)>>, <<Tagged("depmod", Mod("dep", <<>>))>>, <<Use(<<LeafAs(<<"dep">>, "dd")>>)>>,
    <<Use(<<Glob(<<"dep", "z">>)>>)>>, <<By(1, Struct("O"))>>}
Uses == {
    Using(Ref(<<"dep", "p", "h">>)), Using(Ref(<<"dep", "R">>)), Using(Ref(<<"{{root}}", "dep", "z", "X">>)), Using(Ref(<<"dep", "z", "y", "E", "V">>)), Using(TyRef(<<"dep", "C">>)),
    Using(By(1, Ref(<<"Some">>))), Using(TyRef(<<"O">>)), Using(By(2, Ref(<<"q", "f">>))), Using(By(2, Ref(<<"$crate", "p", "f">>))), Using(By(3, Ref(<<"$crate", "p", "f">>))),
    Using(By(2, Ref(<<"q", "o">>))), Using(By(2, TyRef(<<"q", "C">>))), Using(By(2, Ref(<<"z", "y", "f">>))), Using(By(2, Ref(<<"q", "S">>)))}
Leafs == {
    Leaf(<<"dep", "R">>), Leaf(<<"dep", "p", "f">>), LeafAs(<<"dep", "z", "y", "E", "V">>, "f"), Leaf(<<"dep">>), Leaf(<<"dep", "z", "y", "self">>),
    Leaf(<<"{{root}}", "dep">>), Glob(<<"dep", "z", "y", "E">>), Leaf(<<"O", "Some">>), Glob(<<"dep", "p">>), Leaf(<<"O">>)}
MacroLeafs == {Leaf(<<"$crate", "p", "f">>), Leaf(<<"self", "p", "f">>), Leaf(<<"self", "R">>), Leaf(<<"crate", "R">>), LeafAs(<<"$crate", "z", "X">>, "T")}
CratesPrograms ==
    {CratesProgram(<<>>, item, {}) : item \in Uses \union {Use(<<leaf>>) : leaf \in Leafs} \union {By(2, Use(<<leaf>>)) : leaf \in MacroLeafs}} \union
    {CratesProgram(<<>>, item, {"doc"}) : item \in {Using(Ref(<<"dep", "__", "S1">>)), Using(Ref(<<"dep", "z", "X">>))}} \union
    {CratesProgram(items, item, {}) : items \in CrateItems, item \in {Using(Ref(<<"dep", "z", "y", "E", "V">>)), Using(TyRef(<<"O">>)), Use(<<Leaf(<<"dep", "R">>)>>)}}

-----------------------------------------------------------------------------
(* Programs that the sanitizer is known not to keep, and their neighbours that it keeps. *)

\* A variable of the same marks is bound after the macro, or a binding or type parameter of an item's name is nearer than the item.
ShadowingPrograms == {
    Local(TRUE, <<M3, Fn("f", <<Let("x"), M2, Let("x"), By(3, Ref(<<"x">>))>>)>>),
    Local(FALSE, <<M3, Fn("f", <<Let("x"), M2, Let("x"), By(3, Ref(<<"x">>))>>)>>),
    Local(TRUE, <<M3, Fn("f", <<Let("x"), M2, Block(<<Let("x"), By(3, Ref(<<"x">>))>>)>>)>>),
    Local(TRUE, <<M2, M3, Fn("g", <<>>), Fn("f", <<Let("g"), By(1, Ref(<<"g">>))>>)>>),
    Local(TRUE, <<M2, M3, Fn("g", <<>>), Fn("f", <<Let("g"), By(2, Ref(<<"g">>))>>)>>),
    Local(TRUE, <<M2, M3, Fn("f", <<Fn("g", <<>>), Let("g"), By(2, Ref(<<"g">>))>>)>>),
    Local(TRUE, <<M2, M3, Struct("Q"), Trait("T", <<>>), FnOf("user", <<Tagged("Q2", TyParam("Q", "T"))>>, <<By(1, TyRef(<<"Q">>))>>)>>),
    Local(TRUE, <<M2, M3, Mod("Q", <<Pub(Struct("S"))>>), Trait("T", <<>>), FnOf("user", <<Tagged("Q2", TyParam("Q", "T"))>>, <<By(1, TyRef(<<"Q", "S">>))>>)>>),
    Local(TRUE, <<M2, M3, Fn("g", <<>>), Fn("f", <<Let("g"), Block(<<Ref(<<"crate", "g">>)>>)>>)>>)}

\* Marks of which only the last differs, or all but the last.
MarksPrograms == {
    Local(TRUE, <<M3, Fn("f", <<Loop("l", <<M2, By(3, LabelRef("l"))>>)>>)>>),
    Local(TRUE, <<M2, M3, Fn("f", <<Loop("l", <<By(1, Loop("l", <<LabelRef("l")>>))>>)>>)>>),
    Local(TRUE, <<M2, M3, Fn("f", <<By(3, Let("x")), By(1, By(3, Let("x"))), By(3, Ref(<<"x">>))>>)>>),
    Local(TRUE, <<M2, M3, By(3, Tagged("g1", Fn("g", <<>>))), By(1, By(3, Tagged("g2", Fn("g", <<>>)))), By(3, Fn("user", <<Ref(<<"g">>)>>))>>),
    Local(TRUE, <<M2, M3, Fn("f", <<By(3, Loop("l", <<ArgOf(By(1, By(3, Loop("l", <<ArgOf(By(3, LabelRef("l")))>>))))>>))>>)>>),
    Local(TRUE, <<M2, M3, Fn("f", <<By(1, Fn("g", <<>>)), Block(<<By(2, By(1, Let("x")))>>)>>)>>)}

\* An item or import of a block further in than what the macro refers to.
InnerBlockPrograms == {
    Local(TRUE, <<M3, Fn("user", <<Tagged("f1", Fn("f", <<>>)), M2, Block(<<Tagged("f2", Fn("f", <<>>)), By(3, Ref(<<"f">>))>>)>>)>>),
    Local(TRUE, <<M3, Fn("user", <<Tagged("f1", Mod("n", <<Pub(Fn("g", <<>>))>>)), M2, Block(<<Tagged("f2", Mod("n", <<>>)), By(3, Ref(<<"n", "g">>))>>)>>)>>),
    Local(TRUE, <<M3, Fn("user", <<Fn("f", <<>>), M2, Block(<<Use(<<LeafAs(<<"crate", "m9">>, "f")>>), By(3, Ref(<<"f">>))>>)>>), Tagged("m9", Fn("m9", <<>>))>>),
    Local(TRUE, <<M2, M3, Mod("a", <<Pub(Mod("b", <<Called("g", <<"pub">>, "g1")>>))>>), Tagged("b2", Mod("b", <<Called("g", <<"pub">>, "g2")>>)), Fn("user", <<Use(<<Leaf(<<"a", "b", "self">>)>>), By(1, Ref(<<"b", "g">>))>>)>>),
    Local(TRUE, <<M2, M3, Mod("a", <<Pub(Mod("b", <<Called("g", <<"pub">>, "g1")>>))>>), Tagged("b2", Struct("b")), Fn("user", <<Use(<<Leaf(<<"a", "b", "self">>)>>), By(1, TyRef(<<"b">>))>>)>>),
    Local(TRUE, <<M2, M3, Struct("S"), Impl("S", "", <<Pub(AssocFn("new", <<>>))>>), Fn("user", <<Tagged("S2", Struct("S")), By(1, Ref(<<"S", "new">>))>>)>>),
    Local(TRUE, <<M2, M3, Struct("S"), Impl("S", "", <<Pub(AssocFn("new", <<>>))>>), Fn("user", <<Tagged("S2", Struct("S")), By(1, QRef(<<"S">>, <<"new">>))>>)>>),
    Local(TRUE, <<M2, M3, Struct("S"), Impl("S", "", <<Pub(AssocFn("new", <<>>))>>), Fn("user", <<Mod("n", <<Tagged("S2", Struct("S")), Fn("k", <<By(1, Ref(<<"S", "new">>))>>)>>)>>)>>)}

\* Imports of what a block defines, and visibilities inside a module of a block.
BlockImportPrograms == {
    Local(TRUE, <<M2, M3, Fn("user", <<Struct("X"), Use(<<LeafAs(<<"X">>, "Y")>>), TyRef(<<"Y">>)>>)>>),
    Local(TRUE, <<M2, M3, Fn("user", <<Enum("E", <<"V">>), Use(<<Glob(<<"E">>)>>), Ref(<<"V">>)>>)>>),
    Local(TRUE, <<M2, M3, Fn("user", <<Enum("E", <<"V">>), Use(<<Leaf(<<"E", "V">>)>>), Ref(<<"V">>)>>)>>),
    Local(TRUE, <<M2, M3, Fn("user", <<Mod("n", <<Pub(Fn("g", <<>>))>>), Use(<<Leaf(<<"n", "g">>)>>), Ref(<<"g">>)>>)>>),
    Local(TRUE, <<M2, M3, Fn("user", <<Mod("n", <<Pub(Fn("g", <<>>))>>), Use(<<LeafAs(<<"n">>, "o")>>), Ref(<<"o", "g">>)>>)>>),
    Local(TRUE, <<M2, M3, Fn("user", <<Mod("n", <<Pub(Fn("g", <<>>))>>), Use(<<Glob(<<"n">>)>>), Ref(<<"g">>)>>)>>),
    Local(TRUE, <<M2, M3, Fn("user", <<Struct("X"), Block(<<Use(<<LeafAs(<<"X">>, "Y")>>), TyRef(<<"Y">>)>>)>>)>>),
    Local(TRUE, <<M2, M3, Fn("user", <<Mod("n", <<Vised(<<"self">>, Fn("g", <<>>)), Fn("k", <<Ref(<<"g">>)>>)>>)>>)>>),
    Local(TRUE, <<M2, M3, Fn("user", <<Mod("n", <<Mod("o", <<Vised(<<"super">>, Fn("g", <<>>))>>), Fn("k", <<Ref(<<"o", "g">>)>>)>>)>>)>>),
    Local(TRUE, <<M2, M3, Mod("n", <<Vised(<<"self">>, Fn("g", <<>>)), Fn("k", <<Ref(<<"g">>)>>)>>)>>)}

\* Imports through private modules of another crate, a crate that is named elsewhere, and imports after an item of a macro 2.0.
PrivatePrograms == {
    CratesProgram(<<>>, By(2, Use(<<LeafAs(<<"q", "S">>, "T")>>)), {}),
    CratesProgram(<<>>, By(2, Use(<<Leaf(<<"q", "S">>)>>)), {}),
    CratesProgram(<<Mod("pv", <<Tagged("ext", ExternCrate("dep2", "d2"))>>)>>, Using(Ref(<<"dep", "z", "X">>)), {}),
    Local(TRUE, <<M3, Fn("f", <<>>), Mod("a", <<Mod("b", <<M2>>)>>), Mod("c", <<By(3, Fn("top", <<>>)), Use(<<LeafAs(<<"super", "f">>, "k")>>), Fn("u", <<Ref(<<"k">>)>>)>>)>>),
    Local(TRUE, <<M3, Fn("f", <<>>), Mod("a", <<Mod("b", <<M2>>)>>), Mod("c", <<Use(<<LeafAs(<<"super", "f">>, "k")>>), Fn("u", <<Ref(<<"k">>)>>)>>)>>),
    Local(TRUE, <<M3, Mod("a", <<Mod("b", <<M2, Vised(<<"crate">>, Use(<<LeafAs(<<"crate", "x", "f">>, "f")>>))>>)>>), Mod("x", <<Pub(Fn("f", <<>>))>>), Mod("c", <<By(3, Fn("top", <<>>)), Use(<<Leaf(<<"crate", "x", "f">>)>>), Fn("u", <<Ref(<<"f">>)>>), Mod("y", <<Use(<<LeafAs(<<"super", "f">>, "k")>>)>>)>>)>>)}

\* Items of a trait that is not in scope, and variants that only an alias leads to.
TraitPrograms == {
    Local(TRUE, <<M3, Mod("a", <<M2, Pub(Struct("S")), Trait("T", <<AssocFn("t", <<>>)>>), Impl("S", "T", <<AssocFnOf("t", "t", <<>>)>>)>>), Fn("u", <<By(3, Ref(<<"S", "t">>))>>)>>),
    Local(TRUE, <<M2, M3, Mod("a", <<Mod("p", <<Pub(By(1, Pub(Enum("E", <<"V">>))))>>), Pub(TyAlias("B", "E"))>>), Mod("c", <<Fn("u", <<By(1, Ref(<<"super", "a", "B", "V">>))>>)>>)>>),
    Local(TRUE, <<M2, M3, Mod("a", <<Mod("p", <<Pub(Enum("E", <<"V">>))>>), Pub(TyAlias("B", "E"))>>), Mod("c", <<Fn("u", <<Ref(<<"super", "a", "B", "V">>)>>)>>)>>),
    Local(TRUE, <<M2, M3, Mod("a", <<Pub(Struct("S")), Mod("p", <<Pub(Trait("T", <<AssocFn("t", <<>>)>>))>>), Pub(Use(<<LeafAs(<<"self", "p", "T">>, "_")>>)), Impl("S", "T", <<AssocFnOf("t", "t", <<>>)>>)>>), Mod("c", <<Use(<<Glob(<<"super", "a">>)>>), Fn("u", <<Ref(<<"super", "a", "S", "t">>)>>)>>)>>),
    Local(TRUE, <<M3, Mod("t", <<M2, Pub(Struct("S")), Pub(Trait("T", <<AssocFn("t", <<>>)>>)), Impl("S", "T", <<AssocFnOf("t", "t", <<>>)>>)>>), Fn("u", <<By(3, MethodCall("S", "t"))>>)>>)}

ExceptionPrograms ==
    ShadowingPrograms \union MarksPrograms \union InnerBlockPrograms \union BlockImportPrograms \union PrivatePrograms \union TraitPrograms

-----------------------------------------------------------------------------

HygienePrograms ==
    {p \in {Compiled(q) : q \in PathPrograms \union TwinsPrograms \union LocalsPrograms \union ImportPrograms \union BlockPrograms
                                \union TypePrograms \union VisibilityPrograms \union CratesPrograms \union ExceptionPrograms} : WellFormed(p)}
=============================================================================
