----------------------------- MODULE AstLowering -----------------------------
(* The matching of the syntax tree with the HIR of the same crate              *)
(* (mutest-emit/src/analysis/ast_lowering.rs). Operators are applied to the    *)
(* syntax tree, types and calls are known of the HIR: a node matched with the  *)
(* lowering of another one is mutated with the type of the other.              *)
(*                                                                             *)
(* The two trees are walked side by side: this module has, for each pair of    *)
(* nodes, the pairs that are visited next (the walk_* functions of             *)
(* AstHirVisitor). BodyResolutions is the collector that takes the walk.       *)
EXTENDS RustcLowering

-----------------------------------------------------------------------------
(* Pairs of nodes *)

\* Nodes that have no counterpart to visit.
Skipped == {"Underscore", "Rest", "MacCall"}
DestructuredRests == {"RangeFull"}

\* The kinds of nodes that have no id, or none that the collector inserts.
Idless == Items \union {"Params", "Preds", "Generics", "Bounds", "GParams", "Default", "Ret", "Body", "Variants", "Fields",
            "ItemList", "OfTrait", "Init", "Ty", "TraitBound", "Outlives", "UseBound", "WhereBound", "WhereRegion", "QPath",
            "QSelf", "Segs", "Args", "ParenArgs", "GenArgs", "Arg", "Where", "After"}

Pair(ast, hir) == [t |-> "pair", ast |-> ast, hir |-> hir]
Panic == <<[t |-> "panic"]>>
Warn == <<[t |-> "warn"]>>

\* visit_matching_expr, visit_matching_pat, visit_matching_ty; other nodes are visited as they are.
RECURSIVE Matching(_, _)
Matching(ast, hir) ==
    CASE hir.k = "DropTemps" -> Matching(ast, hir.c[1])
      [] hir.k # "DropTemps" /\ ast.k \in Parens -> Matching(ast.c[1], hir)
      [] hir.k # "DropTemps" /\ ast.k \in Skipped -> <<>>
      [] OTHER -> <<Pair(ast, hir)>>

\* iter::zip stops at the end of the shorter list.
RECURSIVE Zipped(_, _)
Zipped(asts, hirs) ==
    IF asts = <<>> \/ hirs = <<>> THEN <<>>
    ELSE Matching(Head(asts), Head(hirs)) \o Zipped(Tail(asts), Tail(hirs))

VisitBlockExpr(block, hir) == IF hir.k = "Block" THEN <<Pair(block, hir.c[1])>> ELSE <<>>

-----------------------------------------------------------------------------
(* Functions and closures *)

\* A parameter of the HIR with its pattern and its type, which a signature and a body keep apart.
ParamWith(hir, pat, ty) == [hir EXCEPT !.c = <<pat, ty>>]
ZippedParams(params, hirs, tys) ==
    Zipped(params, [i \in DOMAIN hirs |-> ParamWith(hirs[i], hirs[i].c[1], tys[i])])

\* coroutine_hir_body: the statements that move the parameters in, and the body proper.
CoroutineHirBody(value) ==
    LET block == value.c[3].c[2].c[1]
    IN  [stmts |-> block.c[1].c, value |-> block.c[2].c[1].c[1]]

IsSimpleParameter(param) == param.c[1].k = "Ident"

\* walk_coroutine_params: the statement that binds each parameter is the first or the second of its own.
WalkCoroutineParams(params, hirs, tys, stmts) ==
    LET RECURSIVE From(_, _)
        From(i, used) ==
            LET at == used + (IF IsSimpleParameter(params[i]) THEN 1 ELSE 2)
            IN  CASE i > Len(params) -> <<>>
                  [] i <= Len(params) /\ at > Len(stmts) -> Panic
                  [] i <= Len(params) /\ at <= Len(stmts) ->
                        <<Pair(params[i], ParamWith(hirs[i], stmts[at].c[1].c[1], tys[i]))>> \o From(i + 1, at)
    IN  From(1, 0)

ParamTypes(params) == [i \in DOMAIN params |-> params[i].c[2]]

\* walk_fn for functions: without a body there are only the types of the parameters, visited with their parentheses.
WalkFn(fn, hir) ==
    LET params == fn.c[2].c
        tys == hir.c[2].c
        hasBody == hir.c[4].c # <<>>
        body == hir.c[4].c[1]
        coroutine == CoroutineHirBody(body.c[2])
        Declared == [i \in DOMAIN tys |-> Pair(params[i].c[2], tys[i])]
    IN  <<Pair(fn.c[1], hir.c[1])>> \o
        (CASE ~hasBody -> Declared \o Zipped(fn.c[3].c, hir.c[3].c)
           [] hasBody /\ fn.k = "Fn" ->
                ZippedParams(params, body.c[1].c, tys) \o Zipped(fn.c[3].c, hir.c[3].c) \o VisitBlockExpr(fn.c[4].c[1], body.c[2])
           [] hasBody /\ fn.k = "AsyncFn" ->
                WalkCoroutineParams(params, body.c[1].c, tys, coroutine.stmts) \o Zipped(fn.c[3].c, hir.c[3].c)
                    \o VisitBlockExpr(fn.c[4].c[1], coroutine.value))

\* walk_fn for closures, whose return type stays a type of its own.
WalkClosure(closure, hir) ==
    LET params == closure.c[1].c
        body == hir.c[3].c[1]
        coroutine == CoroutineHirBody(body.c[2])
    IN  IF closure.k = "Closure"
        THEN ZippedParams(params, body.c[1].c, hir.c[1].c) \o Zipped(closure.c[2].c, hir.c[2].c) \o Matching(closure.c[3], body.c[2])
        ELSE WalkCoroutineParams(params, body.c[1].c, hir.c[1].c, coroutine.stmts) \o Zipped(closure.c[2].c, hir.c[2].c)
                \o Matching(closure.c[3], coroutine.value)

\* Mutant: the where clauses after a type alias are left out.
WherePredicatesBefore(generics) == generics.c[2].c

\* A type alias may have where clauses before and after it.
WherePredicates(generics) == generics.c[2].c \o generics.c[3].c

\* walk_generics: the predicates of the HIR are first those of the parameters that have bounds, then the where clauses.
WalkGenerics(generics, hir) ==
    LET params == generics.c[1].c
        preds == hir.c[2].c
        where == WherePredicates(generics)
        HasBounds(p) == p.c # <<>> /\ p.c[1].k = "Bounds" /\ p.c[1].c # <<>>
        BoundsOf(pred) == pred.c[Len(pred.c)]
        Fits(p, pred) == pred.n = "param" /\ pred.k = (IF p.k = "LtParam" THEN "WhereRegion" ELSE "WhereBound")
        FitsWhere(w, pred) == pred.n = "where" /\ pred.k = w.k
        RECURSIVE Params(_, _)
        Params(i, used) ==
            CASE i > Len(params) -> [walk |-> <<>>, used |-> used]
              [] i <= Len(params) /\ ~HasBounds(params[i]) ->
                    LET rest == Params(i + 1, used)
                    IN  [rest EXCEPT !.walk = Matching(params[i], hir.c[1].c[i]) \o @]
              [] i <= Len(params) /\ HasBounds(params[i]) ->
                    LET rest == Params(i + 1, used + 1)
                        bounds == IF used < Len(preds) /\ Fits(params[i], preds[used + 1])
                                  THEN Zipped(<<params[i].c[1]>>, <<BoundsOf(preds[used + 1])>>) ELSE Panic
                    IN  [rest EXCEPT !.walk = Matching(params[i], hir.c[1].c[i]) \o bounds \o @]
        own == Params(1, 0)
        left == SubSeq(preds, own.used + 1, Len(preds))
        RECURSIVE Wheres(_)
        Wheres(i) ==
            CASE i > Len(where) \/ i > Len(left) -> <<>>
              [] i <= Len(where) /\ i <= Len(left) ->
                    (IF FitsWhere(where[i], left[i]) THEN Zipped(where[i].c, left[i].c) ELSE Panic) \o Wheres(i + 1)
    IN  own.walk \o Wheres(1)

\* The bounds of a parameter are walked with its predicate.
WalkGenericParam(param, hir) == Zipped(Without(param.c, {"Bounds"}), hir.c)

-----------------------------------------------------------------------------
(* Blocks and expressions *)

\* Mutant: nested items stay in the list of the HIR, and shift the statements after them.
HirStmtsWithItems(block) == block.c[1].c

\* Nested items are left out in both trees.
HirStmts(block) == Without(block.c[1].c, {"ItemStmt"})

\* walk_block: statements that only one of the trees has are left out, then the trailing expression.
WalkBlock(block, hir) ==
    LET stmts == Without(block.c, {"EmptyStmt", "MacCall", "ItemStmt"})
        tail == hir.c[2].c
    IN  Zipped(stmts, HirStmts(hir)) \o
        (IF tail = <<>> \/ stmts = <<>> THEN <<>>
         ELSE IF stmts[Len(stmts)].k = "ExprStmt" THEN Matching(stmts[Len(stmts)].c[1], tail[1]) ELSE Panic)

WalkIf(ast, hir) ==
    Matching(ast.c[1], hir.c[1]) \o VisitBlockExpr(ast.c[2], hir.c[2]) \o Zipped(Cut(ast.c, 3, 3), Cut(hir.c, 3, 3))

WalkWhile(ast, hir) ==
    LET branch == hir.c[1].c[2].c[1]
    IN  IF branch.k # "If" THEN <<>> ELSE Matching(ast.c[1], branch.c[1]) \o VisitBlockExpr(ast.c[2], branch.c[2])

WalkFor(ast, hir) ==
    LET loop == hir.c[2].c[2]
        some == loop.c[1].c[1].c[1].c[1].c[3]
        field == some.c[1].c[1]
    IN  Matching(ast.c[1], field.c[1]) \o Matching(ast.c[2], hir.c[1].c[1]) \o VisitBlockExpr(ast.c[3], some.c[2])

\* Await and Try: the operand is the argument of a call of the lang item.
WalkMatched(ast, hir, langItem) ==
    IF hir.c[1].n = langItem THEN Matching(ast.c[1], hir.c[1].c[1]) ELSE <<>>

\* assigned_subexprs_in_expr_assign_lhs
RECURSIVE AssignedSubexprs(_)
AssignedSubexprs(lhs) ==
    LET RECURSIVE Each(_)
        Each(exprs) == IF exprs = <<>> THEN <<>> ELSE AssignedSubexprs(Head(exprs)) \o Each(Tail(exprs))
    IN  CASE lhs.k = "Underscore" \/ (lhs.k = "PathExpr" /\ lhs.n = "unit") -> <<>>
          [] lhs.k = "Paren" -> AssignedSubexprs(lhs.c[1])
          [] lhs.k \in {"Tup", "Array"} -> Each(Without(lhs.c, DestructuredRests))
          [] lhs.k = "Call" -> Each(Without(Tail(lhs.c), DestructuredRests))
          [] lhs.k = "Struct" -> Each([i \in 1..(Len(lhs.c) - 1) |-> lhs.c[i + 1].c[1]])
          [] OTHER -> <<lhs>>

\* A destructuring assignment: one `let` for the right-hand side, then an assignment for each place.
WalkDestructuring(ast, hir) ==
    LET stmts == hir.c[1].c[1].c
        Place(i) == stmts[i + 1].c[1].c[1]
    IN  Zipped(AssignedSubexprs(ast.c[1]), [i \in 1..(Len(stmts) - 1) |-> Place(i)])
            \o Matching(ast.c[2], stmts[1].c[1].c[2])

\* Ranges are lang item structs, but for `a..=b`.
WalkRange(ast, hir) ==
    CASE hir.n # (IF ast.k = "RangeInclusive" THEN "RangeInclusiveNew" ELSE ast.k) -> <<>>
      [] ast.k = "RangeInclusive" -> Zipped(ast.c, hir.c)
      [] OTHER -> Zipped(ast.c, [i \in DOMAIN hir.c |-> hir.c[i].c[1]])

\* format_args! without flattening: the arguments are behind references in the tuple of the first statement.
WalkFormatArgs(ast, hir) ==
    LET stmts == hir.c[1].c[1].c
        refs == stmts[1].c[1].c[2].c
    IN  IF hir.k # "Block" \/ Len(stmts) # 2 THEN <<>> ELSE Zipped(ast.c, [i \in DOMAIN refs |-> refs[i].c[1]])

-----------------------------------------------------------------------------
(* Patterns and types *)

\* walk_pat for slices: the lengths of the HIR's lists say where the rest is in the syntax tree's.
WalkSlice(ast, hir) ==
    LET before == hir.c[1].c
        rest == hir.c[2].c
        after == hir.c[3].c
        From(i) == SubSeq(ast.c, i, Len(ast.c))
    IN  Zipped(Cut(ast.c, 1, Len(before)), before) \o Zipped(From(Len(before) + 1), rest) \o Zipped(From(Len(before) + 2), after)

WalkPathPat(ast, hir) == IF hir.c[1].k = "PathExpr" THEN Zipped(ast.c, hir.c[1].c) ELSE <<>>

\* The types of the parameters, the return type, then the parameters of the binder.
WalkFnPtr(ast, hir) ==
    Zipped(ParamTypes(ast.c[1].c), hir.c[1].c) \o Zipped(<<ast.c[2], ast.c[3]>>, <<hir.c[2], hir.c[3]>>)

\* The trait bounds, then the one lifetime bound.
WalkTraitObject(ast, hir) ==
    LET lifetimes == Only(ast.c, {"Outlives"})
    IN  Zipped(Only(ast.c, {"TraitBound"}), hir.c[1].c) \o
        (IF lifetimes = <<>> THEN <<>>
         ELSE Matching(lifetimes[1].c[1], hir.c[2]))

\* An `impl Trait` parameter is a synthetic type parameter: its bounds are a predicate of the owner.
WalkImplTraitInParam(ast, hir, item) ==
    LET param == hir.c[1].n
        preds == item.c[1].c[2].c
        own == {i \in DOMAIN preds : preds[i].n = "impl" /\ preds[i].id = OwnId(param \o <<1>>)}
    IN  IF own = {} THEN Panic
        ELSE LET pred == preds[CHOOSE i \in own : \A j \in own : i <= j]
             IN  <<Pair(ast.c[1], [pred EXCEPT !.k = ast.c[1].k, !.c = <<pred.c[3]>>])>>

\* walk_qpath_impl
RECURSIVE WalkQPath(_, _, _)
WalkQPath(qself, segs, hir) ==
    IF hir.k = "Resolved"
    THEN LET self == hir.c[1].c
         IN  (CASE qself.c # <<>> /\ self # <<>> -> Matching(qself.c[1], self[1])
                [] qself.c # <<>> /\ self = <<>> -> IF qself.n = 0 THEN <<>> ELSE Panic
                [] qself.c = <<>> -> IF self = <<>> THEN <<>> ELSE Panic)
             \o Zipped(segs, hir.c[2].c)
    ELSE LET ty == hir.c[1]
             count == Len(segs)
             self == IF qself.c # <<>> /\ qself.n = count - 1 THEN Matching(qself.c[1], ty) ELSE <<>>
             base == IF ty.k = "TyPath" THEN WalkQPath(qself, SubSeq(segs, 1, count - 1), ty.c[1]) ELSE <<>>
         IN  \* The length is unsigned: without a segment, the subtraction or the slice panics.
             IF count = 0 THEN Panic ELSE self \o base \o Matching(segs[count], hir.c[2])

-----------------------------------------------------------------------------
(* Generic arguments *)

WalkGenericArg(ast, hir) ==
    CASE hir.k = "InferArg" -> <<>>
      [] hir.k # "InferArg" /\ (hir.k = "ConstArg" => ast.k \in {"AnonConst", "TyPath"}) -> Matching(ast, hir)
      [] OTHER -> Warn

\* walk_generic_args: lifetimes that were left out are skipped; arguments and constraints advance on their own.
WalkGenericArgs(ast, hir) ==
    LET constraints == {"EqConstraint", "BoundConstraint"}
        RECURSIVE From(_, _, _)
        From(asts, args, bounds) ==
            CASE asts = <<>> -> <<>>
              [] asts # <<>> /\ Head(asts).k \in constraints ->
                    IF bounds = <<>> THEN Panic ELSE Matching(Head(asts), Head(bounds)) \o From(Tail(asts), args, Tail(bounds))
              [] asts # <<>> /\ Head(asts).k \notin constraints ->
                    IF args = <<>> THEN Panic ELSE WalkGenericArg(Head(asts), Head(args)) \o From(Tail(asts), Tail(args), bounds)
    IN  From(ast.c, Without(hir.c[1].c, {"Implicit"}), hir.c[2].c)

\* `Fn(A) -> B`: the inputs are a tuple type, the output is the constraint.
WalkParenArgs(ast, hir) ==
    Zipped(ParamTypes(ast.c[1].c), hir.c[1].c[1].c) \o Zipped(ast.c[2].c, hir.c[2].c)

\* walk_const_arg and walk_path_anon_const: a path is matched with the path, anything else with the body.
WalkConstArg(ast, hir) ==
    LET value == IF ast.k = "TyPath" THEN ast ELSE ast.c[1]
        arg == hir.c[1]
    IN  CASE arg.k = "InferArg" -> IF value.k = "Underscore" THEN <<>> ELSE Panic
          [] arg.k = "PathArg" -> IF value.k \in {"PathExpr", "TyPath"} THEN Zipped(value.c, arg.c) ELSE Panic
          [] arg.k = "Anon" -> IF value.k = "TyPath" THEN Zipped(value.c, arg.c[1].c) ELSE Matching(value, arg.c[1])

-----------------------------------------------------------------------------
(* walk_*: what is visited after a pair *)

Unrecognized(ast, hir) ==
    CASE ast.k \in Parens -> FALSE
      [] ast.k \in IdentPats -> ~(hir.k = "Binding" \/ (hir.k = "ExprPat" /\ ast.c = <<>>))
      [] ast.k \in {"While"} -> hir.k # "WhileLoop"
      [] ast.k = "For" -> hir.k # "ForMatch"
      [] ast.k = "Gen" -> hir.k # "Closure"
      [] ast.k = "Await" -> hir.k # "AwaitMatch"
      [] ast.k = "Try" -> hir.k # "TryMatch"
      [] ast.k = "Assign" -> hir.k \notin {"Assign", "Block"}
      [] ast.k \in Ranges -> hir.k # (IF ast.k = "RangeInclusive" THEN "LangCall" ELSE "LangStruct")
      [] ast.k = "FormatArgs" -> hir.k \notin {"LangCall", "Block"}
      [] ast.k = "PathPat" -> hir.k # "ExprPat"
      [] ast.k = "ImplTrait" -> hir.k \notin {"OpaqueTy", "TyPath"}
      [] ast.k = "QPath" -> hir.k \notin {"Resolved", "TypeRelative"}
      [] ast.k \in {"AnonConst", "TyPath"} -> hir.k \notin {ast.k, "ConstArg"}
      [] OTHER -> hir.k # ast.k

\* The parts of an item, without the items in it: those are walked on their own.
WalkItem(ast, hir) ==
    IF ast.k \in {"Fn", "AsyncFn"} THEN WalkFn(ast, hir) ELSE Zipped(Without(ast.c, {"ItemList"}), hir.c)

WalkExpr(ast, hir) ==
    CASE ast.k \in {"Closure", "AsyncClosure"} -> WalkClosure(ast, hir)
      [] ast.k = "If" -> WalkIf(ast, hir)
      [] ast.k = "While" -> WalkWhile(ast, hir)
      [] ast.k = "For" -> WalkFor(ast, hir)
      [] ast.k = "Gen" -> VisitBlockExpr(ast.c[1], hir.c[3].c[1].c[2])
      [] ast.k = "Await" -> WalkMatched(ast, hir, "IntoFuture")
      [] ast.k = "Try" -> WalkMatched(ast, hir, "Branch")
      [] ast.k = "Assign" -> IF hir.k = "Block" THEN WalkDestructuring(ast, hir) ELSE Zipped(ast.c, hir.c)
      [] ast.k \in Ranges -> WalkRange(ast, hir)
      [] ast.k = "FormatArgs" -> WalkFormatArgs(ast, hir)
      [] OTHER -> Zipped(ast.c, hir.c)

WalkPat(ast, hir) ==
    CASE ast.k = "PathPat" -> WalkPathPat(ast, hir)
      [] ast.k \in {"TuplePat", "TupleStructPat"} -> Zipped(Without(ast.c, {"Rest"}), hir.c)
      [] ast.k = "SlicePat" -> WalkSlice(ast, hir)
      [] OTHER -> Zipped(ast.c, hir.c)

WalkTy(ast, hir, item) ==
    CASE ast.k = "FnPtr" -> WalkFnPtr(ast, hir)
      [] ast.k = "TraitObject" -> WalkTraitObject(ast, hir)
      [] ast.k = "ImplTrait" /\ hir.k = "TyPath" -> WalkImplTraitInParam(ast, hir, item)
      [] OTHER -> Zipped(ast.c, hir.c)

Pats == IdentPats \union {"PathPat", "TuplePat", "TupleStructPat", "SlicePat", "StructPat", "Or", "Ref", "ExprPat", "RangePat", "Wild"}
Tys == {"FnPtr", "TraitObject", "ImplTrait", "RefTy", "Ptr", "TupTy", "SliceTy", "ArrayTy"}

\* The walk_* function of a pair: what it visits, in its order.
Walk(ast, hir, item) ==
    CASE Unrecognized(ast, hir) -> Warn
      [] ast.k \in Parens -> Matching(ast, hir)
      [] ast.k \in Items -> WalkItem(ast, hir)
      [] ast.k = "Generics" -> WalkGenerics(ast, hir)
      [] ast.k \in {"TyParam", "LtParam", "ConstParam"} -> WalkGenericParam(ast, hir)
      [] ast.k = "Blk" -> WalkBlock(ast, hir)
      [] ast.k \in Pats -> WalkPat(ast, hir)
      [] ast.k \in Tys -> WalkTy(ast, hir, item)
      [] ast.k = "QPath" -> WalkQPath(ast.c[2], ast.c[1].c, hir)
      [] ast.k = "Args" -> WalkGenericArgs(ast, hir)
      [] ast.k = "ParenArgs" -> WalkParenArgs(ast, hir)
      [] hir.k = "ConstArg" -> WalkConstArg(ast, hir)
      [] OTHER -> WalkExpr(ast, hir)
=============================================================================
