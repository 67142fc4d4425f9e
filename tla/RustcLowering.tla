---------------------------- MODULE RustcLowering ----------------------------
(* External: the syntax tree (AST) of a crate, and the tree (HIR) that rustc   *)
(* lowers it to, as mutest-emit/src/analysis/ast_lowering.rs relies on it.     *)
(*                                                                             *)
(* A node has a kind k, a label n (a name, a resolution or a count: whatever   *)
(* the lowering looks at), an id, and children c. The id of an AST node is its *)
(* path from the root. The id of a HIR node says what it stands for:           *)
(* <<"own", id>> for the node that an AST node as a whole is lowered to, and   *)
(* <<role, id>> for a node that the lowering of it makes up.                   *)
(* Node kinds without ids of their own (lists, bounds, paths) group others.    *)
EXTENDS Naturals, Sequences

Parens == {"Paren", "PatParen", "TyParen"}
Ranges == {"RangeFull", "RangeFrom", "RangeTo", "Range", "RangeToInclusive", "RangeInclusive"}
IdentPats == {"Ident", "RefIdent", "ConstIdent"}    \* by reference, or the name of a constant
Bodies == {"Fn", "AsyncFn", "Const", "Static"}
Items == Bodies \union {"Enum", "StructItem", "TyAlias", "Trait", "Impl", "Mod", "ForeignMod", "Use"}

\* AST nodes before they have ids.
A(kind, children) == [k |-> kind, n |-> "", c |-> children]
AL(kind, label, children) == [k |-> kind, n |-> label, c |-> children]

RECURSIVE Identified(_, _)
Identified(tree, id) ==
    [k |-> tree.k, n |-> tree.n, id |-> id,
     c |-> [i \in DOMAIN tree.c |-> Identified(tree.c[i], Append(id, i))]]

\* HIR nodes: the counterpart of an AST node, and those made up for it.
OwnId(id) == <<"own", id>>
Own(ast, kind, children) == [k |-> kind, n |-> ast.n, id |-> OwnId(ast.id), c |-> children]
Made(ast, role, kind, children) == [k |-> kind, n |-> "", id |-> <<role, ast.id>>, c |-> children]
Group(kind, children) == [k |-> kind, n |-> "", id |-> <<"none", <<>>>>, c |-> children]
Labelled(hir, label) == [hir EXCEPT !.n = label]

Without(nodes, kinds) == SelectSeq(nodes, LAMBDA node : node.k \notin kinds)
Only(nodes, kinds) == SelectSeq(nodes, LAMBDA node : node.k \in kinds)
\* The elements from `first` to `last` that there are.
Cut(nodes, first, last) == SubSeq(nodes, first, IF last < Len(nodes) THEN last ELSE Len(nodes))
IsRest(pat) == pat.k = "Rest"
\* `name @ ..`
IsNamedRest(pat) == pat.k \in IdentPats /\ pat.c # <<>> /\ IsRest(pat.c[1])

\* Ids are paths.
IsInside(node, outer) == Len(outer.id) < Len(node.id) /\ SubSeq(node.id, 1, Len(outer.id)) = outer.id

\* Items in the order in which a visitor of the syntax tree meets them.
RECURSIVE ItemsIn(_)
ItemsIn(ast) ==
    LET RECURSIVE Gather(_)
        Gather(i) == IF i > Len(ast.c) THEN <<>> ELSE ItemsIn(ast.c[i]) \o Gather(i + 1)
    IN  (IF ast.k \in Items THEN <<ast>> ELSE <<>>) \o Gather(1)

-----------------------------------------------------------------------------
(* Destructuring assignments *)

\* lower_expr_assign: what an assignment takes apart, with `(..)` as a pattern of its own.
RECURSIVE IsOrdinary(_)
IsOrdinary(lhs) ==
    CASE lhs.k = "Paren" -> lhs.c[1].k # "RangeFull" /\ IsOrdinary(lhs.c[1])
      [] lhs.k = "PathExpr" -> lhs.n # "unit"
      [] OTHER -> lhs.k \notin {"Underscore", "Array", "Tup", "Call", "Struct"}

\* destructure_assign: the places that are assigned one by one.
RECURSIVE Assigned(_)
Assigned(lhs) ==
    LET RECURSIVE Each(_)
        Each(i) == IF i > Len(lhs.c) THEN <<>> ELSE Assigned(lhs.c[i]) \o Each(i + 1)
    IN  CASE lhs.k \in {"Underscore", "RangeFull", "QPath"} -> <<>>
          [] lhs.k = "PathExpr" /\ lhs.n \in {"unit", "ctor"} -> <<>>
          [] lhs.k \in {"Paren", "Array", "Tup", "Call", "Struct", "ExprField"} -> Each(1)
          [] OTHER -> <<lhs>>

RECURSIVE HasLet(_)
HasLet(cond) == cond.k = "Let" \/ (cond.k = "Binary" /\ \E i \in DOMAIN cond.c : HasLet(cond.c[i]))

\* Simple parameters of an async function need one statement in its coroutine, others two.
RECURSIVE IsSimpleBinding(_)
IsSimpleBinding(pat) == IF pat.k = "PatParen" THEN IsSimpleBinding(pat.c[1]) ELSE pat.k = "Ident"

-----------------------------------------------------------------------------
(* The lowering *)

RECURSIVE Lower(_)
LowerAll(asts) == [i \in DOMAIN asts |-> Lower(asts[i])]

BlockExpr(block) == Made(block, "block expr", "Block", <<Lower(block)>>)
Condition(cond) == IF HasLet(cond) THEN Lower(cond) ELSE Made(cond, "cond", "DropTemps", <<Lower(cond)>>)
MadeBlk(ast, role, stmts, tail) == Made(ast, role, "Blk", <<Group("Stmts", stmts), Group("Tail", tail)>>)
LetStmt(pat, init) == Group("LetStmt", <<Group("Local", <<pat, init>>)>>)

LowerBlock(block) ==
    LET stmts == block.c
        tail == IF stmts # <<>> /\ stmts[Len(stmts)].k = "ExprStmt" THEN <<stmts[Len(stmts)]>> ELSE <<>>
        lowered == SubSeq(stmts, 1, Len(stmts) - Len(tail))
        Statement(stmt) ==
            IF stmt.k = "ItemStmt" THEN Made(stmt, "item", "ItemStmt", <<>>) ELSE Own(stmt, stmt.k, LowerAll(stmt.c))
        kept == Without(lowered, {"EmptyStmt"})
    IN  Own(block, "Blk", <<Group("Stmts", [i \in DOMAIN kept |-> Statement(kept[i])]),
                            Group("Tail", IF tail = <<>> THEN <<>> ELSE LowerAll(tail[1].c))>>)

\* `while`: loop { if <cond> <block> else { break } }
LowerWhile(ast) ==
    LET branch == Made(ast, "if", "If", <<Condition(ast.c[1]), BlockExpr(ast.c[2]), Made(ast, "else", "Block", <<>>)>>)
    IN  Own(ast, "WhileLoop", <<MadeBlk(ast, "loop", <<>>, <<branch>>)>>)

\* `for`: match into_iter(<iter>) { mut iter => loop { match next(&mut iter) { None => break, Some(<pat>) => <block> } } }
LowerFor(ast) ==
    LET none == Made(ast, "none", "Arm", <<>>)
        somePat == Made(ast, "some pat", "StructPat", <<Made(ast, "some field", "PatField", <<Lower(ast.c[1])>>)>>)
        some == Made(ast, "some", "Arm", <<somePat, BlockExpr(ast.c[3])>>)
        step == Made(ast, "step", "ForMatch", <<Made(ast, "next", "LangCall", <<>>), none, some>>)
        loop == Made(ast, "loop", "ForLoopLoop", <<MadeBlk(ast, "body", <<Made(ast, "stmt", "ExprStmt", <<step>>)>>, <<>>)>>)
    IN  Own(ast, "ForMatch", <<Labelled(Made(ast, "iter", "LangCall", <<Lower(ast.c[2])>>), "IntoIter"),
                               Made(ast, "arm", "Arm", <<Made(ast, "mut iter", "Ident", <<>>), loop>>)>>)

\* `.await` and `?`: a match on a call of a lang item.
LowerMatched(ast, kind, langItem) ==
    Own(ast, kind, <<Labelled(Made(ast, "call", "LangCall", <<Lower(ast.c[1])>>), langItem)>>)

LowerAssign(ast) ==
    LET places == Assigned(ast.c[1])
        Place(i) == Made(places[i], "assign", "Assign", <<Lower(places[i]), Made(places[i], "value", "PathExpr", <<>>)>>)
        assignments == [i \in DOMAIN places |-> Made(places[i], "stmt", "ExprStmt", <<Place(i)>>)]
        first == LetStmt(Made(ast, "lhs", "TuplePat", <<>>), Lower(ast.c[2]))
    IN  IF IsOrdinary(ast.c[1]) THEN Own(ast, "Assign", LowerAll(ast.c))
        ELSE Own(ast, "Block", <<MadeBlk(ast, "assignments", <<first>> \o assignments, <<>>)>>)

LowerRange(ast) ==
    IF ast.k = "RangeInclusive" THEN Labelled(Own(ast, "LangCall", LowerAll(ast.c)), "RangeInclusiveNew")
    ELSE Labelled(Own(ast, "LangStruct", [i \in DOMAIN ast.c |-> Made(ast.c[i], "field", "ExprField", <<Lower(ast.c[i])>>)]), ast.k)

\* format_args!: { let args = (&<arg>, ...); let args = [...]; new(args) }, or a call without arguments.
LowerFormat(ast) ==
    LET refs == Made(ast, "refs", "Tup", [i \in DOMAIN ast.c |-> Made(ast.c[i], "ref", "AddrOf", <<Lower(ast.c[i])>>)])
        Args(init) == LetStmt(Made(ast, "args", "Ident", <<>>), init)
    IN  IF ast.c = <<>> THEN Own(ast, "LangCall", <<>>)
        ELSE Own(ast, "Block", <<MadeBlk(ast, "args", <<Args(refs), Args(Made(ast, "new args", "Array", <<>>))>>,
                                     <<Made(ast, "new", "LangCall", <<>>)>>)>>)

-----------------------------------------------------------------------------
(* Functions and closures *)

\* The coroutine of an async body: the parameters are moved in by one or two statements each.
Coroutine(ast, params, value) ==
    LET Moves(p) == LET move == LetStmt(Made(p, "arg pat", "Ident", <<>>), Made(p, "arg", "PathExpr", <<>>))
                        bind == LetStmt(Lower(p.c[1]), Made(p, "moved", "PathExpr", <<>>))
                    IN  IF IsSimpleBinding(p.c[1]) THEN <<bind>> ELSE <<move, bind>>
        RECURSIVE MovesFrom(_)
        MovesFrom(i) == IF i > Len(params) THEN <<>> ELSE Moves(params[i]) \o MovesFrom(i + 1)
        inner == Made(ast, "coroutine block", "Block",
                      <<MadeBlk(ast, "coroutine", MovesFrom(1), <<Made(ast, "drop", "DropTemps", <<value>>)>>)>>)
    IN  Made(ast, "coroutine closure", "Closure", <<Group("Tys", <<>>), Group("Ret", <<>>), Group("HirBody", <<Group("Params", <<>>), inner>>)>>)

\* A function or closure: the types of its parameters, its return type and its body, if it has one.
LowerFnLike(ast, isAsync, params, ret, values) ==
    LET simple(p) == IF isAsync /\ ~IsSimpleBinding(p.c[1]) THEN Made(p, "arg name", "Ident", <<>>) ELSE Lower(p.c[1])
        hirParams == [i \in DOMAIN params |-> Own(params[i], "Param", <<simple(params[i])>>)]
        value == IF isAsync THEN Coroutine(ast, params, values[1]) ELSE values[1]
    IN  <<Group("Tys", [i \in DOMAIN params |-> Lower(params[i].c[2])]), Group("Ret", LowerAll(ret)),
          Group("Body", IF values = <<>> THEN <<>> ELSE <<Group("HirBody", <<Group("Params", hirParams), value>>)>>)>>

\* The `impl Trait` types of the parameters.
RECURSIVE ImplTraitsIn(_)
ImplTraitsIn(ast) ==
    LET RECURSIVE Gather(_)
        Gather(i) == IF i > Len(ast.c) THEN <<>> ELSE ImplTraitsIn(ast.c[i]) \o Gather(i + 1)
    IN  (IF ast.k = "ImplTrait" /\ ast.n = "param" THEN <<ast>> ELSE <<>>) \o Gather(1)

\* The predicates: bounds of the parameters, where clauses, then those of `impl Trait` parameters.
LowerGenerics(generics, params) ==
    LET bounded == SelectSeq(generics.c[1].c, LAMBDA p : p.c # <<>> /\ p.c[1].k = "Bounds" /\ p.c[1].c # <<>>)
        Bound(p) == Labelled(Made(p, "bounds", IF p.k = "LtParam" THEN "WhereRegion" ELSE "WhereBound",
                        <<Made(p, "bounded", "TyPath", <<>>)>> \o
                        (IF p.k = "LtParam" THEN <<>> ELSE <<Group("GParams", <<>>)>>) \o <<Lower(p.c[1])>>), "param")
        where == generics.c[2].c \o generics.c[3].c
        Where(w) == Labelled(Made(w, "where", w.k, LowerAll(w.c)), "where")
        impls == ImplTraitsIn(params)
        Impl(t) == Labelled(Own(t.c[1], "WhereBound", <<Made(t, "param", "TyPath", <<>>), Group("GParams", <<>>)>> \o LowerAll(t.c[1].c)), "impl")
        Param(p) == Own(p, p.k, LowerAll(Without(p.c, {"Bounds"})))
    IN  Group("Generics", <<Group("Params", [i \in DOMAIN generics.c[1].c |-> Param(generics.c[1].c[i])]),
                            Group("Preds", [i \in DOMAIN bounded |-> Bound(bounded[i])] \o [i \in DOMAIN where |-> Where(where[i])]
                                           \o [i \in DOMAIN impls |-> Impl(impls[i])])>>)

-----------------------------------------------------------------------------
(* Patterns, types and paths *)

\* The patterns before the rest of a slice, the rest, and those after it.
LowerSlice(ast) ==
    LET rests == {i \in DOMAIN ast.c : IsRest(ast.c[i]) \/ IsNamedRest(ast.c[i])}
        at == IF rests = {} THEN Len(ast.c) + 1 ELSE CHOOSE i \in rests : \A j \in rests : i <= j
    IN  Own(ast, "SlicePat", <<Group("Before", LowerAll(Cut(ast.c, 1, at - 1))), Group("Rest", LowerAll(Cut(ast.c, at, at))),
                               Group("After", LowerAll(SubSeq(ast.c, at + 1, Len(ast.c))))>>)

\* lower_qpath: label n counts the segments that name resolution left to the types.
LowerQPath(q) ==
    LET segs == q.c[1].c
        self == LowerAll(q.c[2].c)
        resolved == Len(segs) - q.n
        Resolved == Group("Resolved", <<Group("QSelf", self), Group("Segs", LowerAll(SubSeq(segs, 1, resolved)))>>)
        base == IF resolved = 0 THEN self[1] ELSE Made(q, "base", "TyPath", <<Resolved>>)
        RECURSIVE Project(_, _)
        Project(ty, i) ==
            LET qpath == Group("TypeRelative", <<ty, Lower(segs[i])>>)
            IN  IF i = Len(segs) THEN qpath ELSE Project(Made(segs[i], "projected", "TyPath", <<qpath>>), i + 1)
    IN  IF q.n = 0 THEN Resolved ELSE Project(base, resolved + 1)

\* Generic arguments come first, after lifetimes that were left out (n = "elided"); constraints have a list of their own.
LowerArgs(ast) ==
    LET constraints == {"EqConstraint", "BoundConstraint"}
        args == Without(ast.c, constraints)
        Arg(i) == IF args[i].k = "Infer" THEN Own(args[i], "InferArg", <<>>) ELSE Lower(args[i])
        elided == IF ast.n = "elided" THEN <<Made(ast, "elided", "Implicit", <<>>)>> ELSE <<>>
        unit == Made(ast, "unit", "TupTy", <<>>)
        inputs == Made(ast, "inputs", "TupTy", [i \in DOMAIN ast.c[1].c |-> Lower(ast.c[1].c[i].c[2])])
        output == IF ast.c[2].c = <<>> THEN unit ELSE Lower(ast.c[2].c[1])
    IN  IF ast.k = "ParenArgs" THEN Group("ParenArgs", <<Group("ArgList", <<inputs>>), Group("Constraints", <<output>>)>>)
        ELSE Group("Args", <<Group("ArgList", elided \o [i \in DOMAIN args |-> Arg(i)]),
                             Group("Constraints", LowerAll(Only(ast.c, constraints)))>>)

\* A constant argument: a path to a constant parameter, an inferred one, or an anonymous body.
LowerConstArg(ast, value) ==
    LET path == value.k \in {"PathExpr", "TyPath"}
    IN  Own(ast, "ConstArg",
            <<CASE value.n = "param" -> Group("PathArg", LowerAll(value.c))
                [] value.k = "Underscore" -> Group("InferArg", <<>>)
                [] value.k = "TyPath" -> Group("Anon", <<Made(value, "const", "PathExpr", LowerAll(value.c))>>)
                [] OTHER -> Group("Anon", <<Lower(value)>>)>>)

LowerTy(ast) ==
    CASE ast.k = "TyPath" /\ ast.n \in {"param", "const"} -> LowerConstArg(ast, ast)
      [] ast.k = "FnPtr" -> Own(ast, "FnPtr", <<Group("Tys", [i \in DOMAIN ast.c[1].c |-> Lower(ast.c[1].c[i].c[2])]), Lower(ast.c[2]), Lower(ast.c[3])>>)
      [] ast.k = "TraitObject" ->
            LET lifetimes == Only(ast.c, {"Outlives"})
            IN  Own(ast, "TraitObject", <<Group("Traits", LowerAll(Only(ast.c, {"TraitBound"}))),
                                          IF lifetimes = <<>> THEN Made(ast, "implied", "Lt", <<>>) ELSE Lower(lifetimes[1].c[1])>>)
      [] ast.k = "ImplTrait" /\ ast.n = "param" -> Own(ast, "TyPath", <<Labelled(Group("ParamOf", <<>>), ast.id)>>)
      [] ast.k = "ImplTrait" /\ ast.n # "param" -> Own(ast, "OpaqueTy", LowerAll(ast.c))
      [] OTHER -> Own(ast, ast.k, LowerAll(ast.c))

LowerPat(ast) ==
    CASE ast.k \in {"Ident", "RefIdent"} -> Own(ast, "Binding", LowerAll(ast.c))
      [] ast.k = "ConstIdent" -> Own(ast, "ExprPat", <<Made(ast, "const path", "PathExpr", <<>>)>>)
      [] ast.k = "PathPat" -> Own(ast, "ExprPat", <<Made(ast, "pat expr", "PathExpr", LowerAll(ast.c))>>)
      [] ast.k \in {"ExprPat", "RangePat"} ->
            \* A negative literal is a single node.
            LET Value(expr) == IF expr.k = "Unary" THEN Own(expr, "Unary", <<>>) ELSE Lower(expr)
            IN  Own(ast, ast.k, [i \in DOMAIN ast.c |-> Value(ast.c[i])])
      [] ast.k \in {"TuplePat", "TupleStructPat"} -> Own(ast, ast.k, LowerAll(Without(ast.c, {"Rest"})))
      [] ast.k = "SlicePat" -> LowerSlice(ast)

LowerItem(ast) ==
    CASE ast.k \in {"Fn", "AsyncFn"} ->
            Own(ast, ast.k, <<LowerGenerics(ast.c[1], ast.c[2])>> \o
                LowerFnLike(ast, ast.k = "AsyncFn", ast.c[2].c, ast.c[3].c,
                            IF ast.c[4].c = <<>> THEN <<>> ELSE <<BlockExpr(ast.c[4].c[1])>>))
      [] ast.k \in {"Mod", "ForeignMod", "Use"} -> Own(ast, ast.k, <<>>)
      [] OTHER -> Own(ast, ast.k, LowerAll(Without(ast.c, {"ItemList"})))

Lower(ast) ==
    CASE ast.k \in Parens -> Lower(ast.c[1])
      [] ast.k \in Items -> LowerItem(ast)
      [] ast.k \in {"Closure", "AsyncClosure"} ->
            Own(ast, ast.k, LowerFnLike(ast, ast.k = "AsyncClosure", ast.c[1].c, ast.c[2].c, <<Lower(ast.c[3])>>))
      [] ast.k = "Generics" -> LowerGenerics(ast, Group("Params", <<>>))
      [] ast.k = "Blk" -> LowerBlock(ast)
      [] ast.k = "If" -> Own(ast, "If", <<Condition(ast.c[1]), BlockExpr(ast.c[2])>> \o LowerAll(SubSeq(ast.c, 3, Len(ast.c))))
      [] ast.k = "While" -> LowerWhile(ast)
      [] ast.k = "For" -> LowerFor(ast)
      [] ast.k = "Gen" -> Own(ast, "Closure", <<Group("Tys", <<>>), Group("Ret", <<>>),
                                Group("Body", <<Group("HirBody", <<Group("Params", <<>>), BlockExpr(ast.c[1])>>)>>)>>)
      [] ast.k = "Await" -> LowerMatched(ast, "AwaitMatch", "IntoFuture")
      [] ast.k = "Try" -> LowerMatched(ast, "TryMatch", "Branch")
      [] ast.k = "Assign" -> LowerAssign(ast)
      [] ast.k \in Ranges -> LowerRange(ast)
      [] ast.k = "FormatArgs" -> LowerFormat(ast)
      [] ast.k = "Rest" -> Own(ast, "Wild", <<>>)
      [] ast.k \in IdentPats \union {"PathPat", "ExprPat", "RangePat", "TuplePat", "TupleStructPat", "SlicePat"} -> LowerPat(ast)
      [] ast.k \in {"TyPath", "FnPtr", "TraitObject", "ImplTrait"} -> LowerTy(ast)
      [] ast.k = "QPath" -> LowerQPath(ast)
      [] ast.k \in {"Args", "ParenArgs"} -> LowerArgs(ast)
      [] ast.k = "AnonConst" /\ ast.n # "body" -> LowerConstArg(ast, ast.c[1])
      [] OTHER -> Own(ast, ast.k, LowerAll(ast.c))
=============================================================================
