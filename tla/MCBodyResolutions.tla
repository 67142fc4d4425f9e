-------------------------- MODULE MCBodyResolutions --------------------------
(* Small crates for BodyResolutions: every construct that ast_lowering.rs has  *)
(* a case for, in a function, an async function, a closure and a constant, and *)
(* the items that the definition finder has to tell apart.                     *)
EXTENDS BodyResolutions

-----------------------------------------------------------------------------
(* Paths, types, constants *)

QSelf(pos, ty) == AL("QSelf", pos, <<ty>>)
NoQSelf == AL("QSelf", 0, <<>>)
QPathOf(unresolved, segs, self) == AL("QPath", unresolved, <<A("Segs", segs), self>>)
Seg == A("Seg", <<>>)
SegWith(args) == A("Seg", <<args>>)
Path(segs) == QPathOf(0, segs, NoQSelf)
TyOf(qpath) == A("TyPath", <<qpath>>)
T == TyOf(Path(<<Seg>>))
Local == AL("PathExpr", "local", <<Path(<<Seg>>)>>)
ExprOf(qpath) == AL("PathExpr", "other", <<qpath>>)
Lit == A("Lit", <<>>)
Lt == A("Lt", <<>>)
Const(expr) == A("AnonConst", <<expr>>)
ConstParam == AL("PathExpr", "param", <<Path(<<Seg>>)>>)
Unit == AL("PathExpr", "unit", <<Path(<<Seg>>)>>)
Ctor == AL("PathExpr", "ctor", <<Path(<<Seg>>)>>)
Args(args) == AL("Args", "", args)
Elided(args) == AL("Args", "elided", args)
Bounds(bounds) == A("Bounds", bounds)
TraitBound == A("TraitBound", <<A("GParams", <<>>), A("TraitRef", <<A("Segs", <<Seg>>)>>)>>)
HigherRanked == A("TraitBound", <<A("GParams", <<A("LtParam", <<Bounds(<<>>)>>)>>), A("TraitRef", <<A("Segs", <<SegWith(Args(<<Lt>>))>>)>>)>>)
Outlives == A("Outlives", <<Lt>>)
Ident == A("Ident", <<>>)
Param(pat, ty) == A("Param", <<pat, ty>>)
Ret(tys) == A("Ret", tys)
NoWhere == A("After", <<>>)
Generics(params, where, after) == A("Generics", <<A("Params", params), A("Where", where), A("After", after)>>)
NoGenerics == Generics(<<>>, <<>>, <<>>)

Types == <<
    A("RefTy", <<Lt, A("Ptr", <<T>>)>>),
    A("TupTy", <<A("TyParen", <<T>>), A("SliceTy", <<T>>)>>),
    A("ArrayTy", <<T, Const(ConstParam)>>), A("ArrayTy", <<T, Const(Local)>>), A("ArrayTy", <<T, Const(A("Binary", <<Lit, Lit>>))>>),
    A("FnPtr", <<A("Params", <<Param(Ident, T), Param(A("Wild", <<>>), T)>>), Ret(<<T>>), A("GParams", <<A("LtParam", <<Bounds(<<>>)>>)>>)>>),
    A("TraitObject", <<TraitBound, Outlives, HigherRanked>>), A("TraitObject", <<TraitBound>>),
    TyOf(Path(<<Seg, SegWith(Elided(<<T, Const(Lit)>>))>>)),
    TyOf(Path(<<SegWith(Args(<<Lt, AL("TyPath", "param", <<Path(<<Seg>>)>>), AL("TyPath", "const", <<Path(<<Seg>>)>>)>>))>>)),
    TyOf(Path(<<SegWith(Args(<<T, A("EqConstraint", <<A("GenArgs", <<Args(<<Lt>>)>>), T>>),
                               A("BoundConstraint", <<A("GenArgs", <<>>), Bounds(<<TraitBound>>)>>)>>))>>)),
    TyOf(Path(<<SegWith(A("ParenArgs", <<A("Params", <<Param(Ident, T), Param(Ident, T)>>), Ret(<<T>>)>>))>>)),
    TyOf(Path(<<SegWith(A("ParenArgs", <<A("Params", <<>>), Ret(<<>>)>>))>>)),
    TyOf(QPathOf(1, <<Seg, Seg>>, NoQSelf)), TyOf(QPathOf(0, <<Seg, Seg>>, QSelf(1, T))),
    TyOf(QPathOf(1, <<Seg, Seg, Seg>>, QSelf(1, T))), TyOf(QPathOf(1, <<Seg>>, QSelf(0, A("SliceTy", <<T>>)))),
    TyOf(QPathOf(2, <<Seg, Seg, Seg>>, NoQSelf)), TyOf(QPathOf(1, <<Seg>>, QSelf(0, T))) >>

-----------------------------------------------------------------------------
(* Statements and expressions *)

Semi(expr) == A("Semi", <<expr>>)
Expr(expr) == A("ExprStmt", <<expr>>)
Empty == A("EmptyStmt", <<>>)
Let(children) == A("LetStmt", <<A("Local", children)>>)
ItemStmt(item) == A("ItemStmt", <<item>>)
Blk(stmts) == A("Blk", stmts)
Call(args) == A("Call", <<Local>> \o args)
Tup(exprs) == A("Tup", exprs)
Full == A("RangeFull", <<>>)
Paren(expr) == A("Paren", <<expr>>)
Underscore == A("Underscore", <<>>)
Field(expr) == A("ExprField", <<expr>>)
Assign(lhs) == A("Assign", <<lhs, Call(<<Local>>)>>)

Fn(kind, name, generics, params, ret, body) == AL(kind, name, <<generics, A("Params", params), Ret(ret), A("Body", body)>>)
Plain(name, stmts) == Fn("Fn", name, NoGenerics, <<>>, <<>>, <<Blk(stmts)>>)
Inner == Plain("inner", <<Expr(Local)>>)

Patterns == <<
    A("TuplePat", <<Ident, A("Rest", <<>>), A("RefIdent", <<>>)>>), A("PatParen", <<A("Ref", <<A("Wild", <<>>)>>)>>),
    A("TupleStructPat", <<Path(<<Seg>>), A("Rest", <<>>), A("PatParen", <<Ident>>)>>),
    A("StructPat", <<Path(<<Seg>>), A("PatField", <<Ident>>), A("PatField", <<A("ConstIdent", <<>>)>>)>>),
    A("SlicePat", <<Ident, A("Ident", <<A("Rest", <<>>)>>), A("PatParen", <<Ident>>), A("Wild", <<>>)>>),
    A("SlicePat", <<A("Rest", <<>>), Ident>>), A("SlicePat", <<Ident, Ident>>), A("SlicePat", <<Ident, A("Rest", <<>>)>>),
    A("Or", <<A("PathPat", <<Path(<<Seg, Seg>>)>>), A("ExprPat", <<Lit>>)>>), A("RangePat", <<Lit, ExprOf(QPathOf(1, <<Seg, Seg>>, NoQSelf))>>),
    A("Ident", <<A("TuplePat", <<>>)>>) >>

Exprs == <<
    A("MethodCall", <<SegWith(Args(<<T>>)), Paren(Local), A("Await", <<Call(<<>>)>>)>>),
    A("Cast", <<A("Unary", <<A("Index", <<Local, A("Range", <<Lit, Local>>)>>)>>), T>>),
    A("If", <<A("Binary", <<A("Let", <<Patterns[1], Local>>), Paren(Local)>>), Blk(<<Expr(Lit)>>), A("If", <<Local, Blk(<<Expr(Lit)>>), A("Block", <<Blk(<<Expr(Local)>>)>>)>>)>>),
    A("While", <<A("Let", <<Ident, A("Try", <<Local>>)>>), Blk(<<Semi(A("Break", <<>>)), Expr(A("While", <<Local, Blk(<<Semi(Local)>>)>>)), Empty>>)>>),
    A("For", <<A("TuplePat", <<Ident, Ident>>), A("MethodCall", <<Seg, Local>>), Blk(<<Expr(A("For", <<Ident, A("RangeInclusive", <<Lit, Local>>), Blk(<<Semi(Local)>>)>>))>>)>>),
    A("Match", <<Local, A("Arm", <<Patterns[3], Local>>), A("Arm", <<A("Wild", <<>>), A("Binary", <<Local, Lit>>), A("Block", <<Blk(<<Semi(Local), Expr(Local)>>)>>)>>)>>),
    A("Loop", <<Blk(<<ItemStmt(Plain("other", <<Semi(Local)>>)), Expr(A("If", <<Local, Blk(<<Semi(A("Break", <<Lit>>))>>)>>)), Empty, Semi(Local)>>)>>),
    A("Closure", <<A("Params", <<Param(Patterns[1], T), Param(Ident, A("Infer", <<>>))>>), Ret(<<T>>), A("Block", <<Blk(<<Expr(Local)>>)>>)>>),
    A("AsyncClosure", <<A("Params", <<Param(Ident, T), Param(Patterns[1], T), Param(A("RefIdent", <<>>), T), Param(A("Wild", <<>>), T)>>), Ret(<<>>), A("Await", <<Local>>)>>),
    A("Gen", <<Blk(<<Let(<<Ident, A("Await", <<Call(<<Local>>)>>)>>), Expr(A("Try", <<Local>>))>>)>>),
    A("Struct", <<Path(<<Seg>>), Field(Local), Field(A("AddrOf", <<Local>>)), Call(<<Local>>)>>),
    A("FormatArgs", <<>>), A("FormatArgs", <<Local, A("Binary", <<Local, Lit>>)>>),
    A("Array", <<A("RangeTo", <<Local>>), A("RangeFrom", <<Lit>>), A("RangeToInclusive", <<Local>>), Full>>),
    A("Repeat", <<Lit, Const(A("Block", <<Blk(<<Expr(Lit)>>)>>))>>), A("Repeat", <<Local, Const(Underscore)>>),
    A("AssignOp", <<A("Field", <<Local>>), Lit>>), Assign(A("Index", <<Local, Lit>>)),
    Assign(Tup(<<Paren(Local), Underscore, A("Field", <<Local>>)>>)), Assign(Tup(<<Full, Unit, Local>>)),
    Assign(A("Call", <<Ctor, Local, Full, A("Array", <<Local, Local>>)>>)), Assign(Underscore),
    Assign(A("Struct", <<Path(<<Seg>>), Field(Local), Field(Tup(<<Local, Full>>))>>)),
    A("Ret", <<ExprOf(QPathOf(1, <<Seg>>, QSelf(0, T)))>>), Call(<<A("ConstBlock", <<AL("AnonConst", "body", <<Local>>)>>)>>) >>

\* Statements with a type or a pattern of each kind.
Lets ==
    [i \in DOMAIN Types |-> Let(<<Ident, Types[i], Local>>)] \o
    [i \in DOMAIN Patterns |-> Let(<<Patterns[i], Local, Blk(<<Semi(A("Ret", <<>>))>>)>>)] \o
    [i \in DOMAIN Exprs |-> Let(<<Ident, Exprs[i]>>)]

-----------------------------------------------------------------------------
(* Crates *)

Crate(its) == A("Crate", its)
Params == <<Param(Patterns[1], T), Param(Ident, A("RefTy", <<Types[9]>>))>>

\* Each statement stands in a function with parameters, among other statements and a nested item.
InFn(stmt) == Crate(<<Fn("Fn", "f", NoGenerics, Params, <<T>>, <<Blk(<<Empty, ItemStmt(Inner), stmt, Semi(Local), Expr(Local)>>)>>)>>)
InAsyncFn(stmt) == Crate(<<Fn("AsyncFn", "f", NoGenerics, <<Param(Ident, T)>> \o Params, <<A("RetImpl", <<T>>)>>, <<Blk(<<stmt, Expr(Call(<<>>))>>)>>)>>)
InConst(stmt) == Crate(<<AL("Const", "c", <<T, NoGenerics, A("Init", <<A("Block", <<Blk(<<ItemStmt(Inner), stmt, Expr(Lit)>>)>>)>>)>>)>>)
Tails == [i \in DOMAIN Exprs |-> Crate(<<Plain("f", <<Expr(Exprs[i])>>)>>)]

TyParam(bounds, default) == A("TyParam", <<Bounds(bounds), A("Default", default)>>)
LtParam(bounds) == A("LtParam", <<Bounds(bounds)>>)
ConstParamOf(default) == A("ConstParam", <<T, A("Default", default)>>)
WhereBound(bounds) == A("WhereBound", <<T, A("GParams", <<LtParam(<<>>)>>), Bounds(bounds)>>)
WhereRegion == A("WhereRegion", <<Lt, Bounds(<<Outlives>>)>>)
Bounded == Generics(<<LtParam(<<Outlives>>), LtParam(<<>>), TyParam(<<>>, <<T>>), TyParam(<<TraitBound, Outlives>>, <<>>), ConstParamOf(<<Const(Lit)>>), TyParam(<<HigherRanked>>, <<>>)>>,
                    <<WhereRegion, WhereBound(<<TraitBound>>)>>, <<WhereBound(<<Outlives>>)>>)
NoAfter == [Bounded EXCEPT !.c[3].c = <<>>]
ImplTrait(kind, bounds) == AL("ImplTrait", kind, <<A("ImplBounds", <<Bounds(bounds)>>)>>)
UseBound == A("UseBound", <<Lt, A("UseArg", <<>>)>>)
Method(kind, params, body) == Fn(kind, "m", NoGenerics, <<Param(Ident, A("RefTy", <<A("ImplicitSelf", <<>>)>>))>> \o params, <<>>, body)
Alias(name, tys, generics, bounds) == AL("TyAlias", name, <<A("Ty", tys), generics, Bounds(bounds)>>)
Impl(traits, its) == AL("Impl", "", <<A("OfTrait", traits), T, NoAfter, A("ItemList", its)>>)
TraitRef == A("TraitRef", <<A("Segs", <<Seg>>)>>)
Mod(name, its) == AL("Mod", name, <<A("ItemList", its)>>)
Foreign(name) == AL("ForeignMod", "", <<A("ItemList", <<Fn("Fn", name, NoGenerics, <<>>, <<>>, <<>>)>>)>>)

ItemCrates == <<
    Crate(<<Fn("Fn", "g", NoAfter, <<Param(Ident, ImplTrait("param", <<TraitBound>>)), Param(Ident, A("RefTy", <<ImplTrait("param", <<HigherRanked, TraitBound>>)>>))>>,
               <<ImplTrait("ret", <<TraitBound, UseBound>>)>>, <<Blk(<<Expr(Local)>>)>>)>>),
    Crate(<<AL("Enum", "E", <<NoAfter, A("Variants", <<A("Variant", <<A("Fields", <<A("FieldDef", <<T>>)>>), AL("AnonConst", "body", <<Lit>>)>>),
                                                        A("Variant", <<A("Fields", <<>>)>>)>>)>>),
            AL("StructItem", "S", <<NoAfter, A("Fields", <<A("FieldDef", <<Types[1]>>), A("FieldDef", <<T>>)>>)>>),
            AL("Static", "E", <<Types[2], A("Init", <<Tup(<<Local, Lit>>)>>)>>), AL("Use", "", <<>>)>>),
    Crate(<<Alias("A", <<T>>, Bounded, <<>>),
            AL("Trait", "Tr", <<NoAfter, Bounds(<<TraitBound, Outlives>>), A("ItemList", <<Alias("m", <<>>, Bounded, <<TraitBound>>),
                Method("Fn", <<Param(A("Wild", <<>>), T)>>, <<>>), Fn("AsyncFn", "a", NoGenerics, <<Param(Ident, T)>>, <<A("RetImpl", <<>>)>>, <<>>)>>)>>)>>),
    Crate(<<Impl(<<>>, <<Method("Fn", <<>>, <<Blk(<<ItemStmt(Inner), Expr(Local)>>)>>)>>), Impl(<<TraitRef>>, <<Method("AsyncFn", Params, <<Blk(<<ItemStmt(Inner), Semi(Local)>>)>>)>>),
            Mod("m", <<Impl(<<>>, <<>>), Inner, Impl(<<TraitRef>>, <<Alias("m", <<T>>, NoGenerics, <<>>)>>)>>)>>),
    Crate(<<Foreign("p"), Foreign("q"), Plain("f", <<ItemStmt(Plain("g", <<ItemStmt(Inner), Expr(A("Block", <<Blk(<<ItemStmt(Foreign("p")), Expr(Local)>>)>>))>>)), ItemStmt(Impl(<<>>, <<>>)),
                                                           Semi(A("Closure", <<A("Params", <<>>), Ret(<<>>), A("Block", <<Blk(<<ItemStmt(Impl(<<TraitRef>>, <<Method("Fn", <<>>, <<Blk(<<Expr(Lit)>>)>>)>>)), Expr(Lit)>>)>>)>>))>>),
            Mod("f", <<Plain("f", <<ItemStmt(Inner), Semi(Lit)>>), AL("Use", "", <<>>), AL("StructItem", "f", <<NoGenerics, A("Fields", <<>>)>>)>>)>>) >>

-----------------------------------------------------------------------------
(* Crates with what the walk, the validator or the lookup cannot take *)

Value(expr) == Crate(<<Plain("f", <<Semi(Local), Expr(expr)>>)>>)
OfType(ty) == Crate(<<Plain("f", <<Let(<<Ident, ty, Local>>), Semi(Local)>>)>>)
ProjectedTy == TyOf(QPathOf(1, <<Seg, Seg>>, NoQSelf))

OtherCrates == <<
    \* <T::Item>::default() and <<T as Tr>::Item>::default()
    Value(ExprOf(QPathOf(1, <<Seg>>, QSelf(0, ProjectedTy)))), Value(ExprOf(QPathOf(1, <<Seg>>, QSelf(0, TyOf(QPathOf(0, <<Seg, Seg>>, QSelf(1, T))))))),
    \* An empty block, where arithmetic is checked
    Value(A("Block", <<Blk(<<>>)>>)),
    \* Vec<_>, and a match on -1
    OfType(TyOf(Path(<<SegWith(Args(<<A("Infer", <<>>)>>))>>))), Value(A("Match", <<Local, A("Arm", <<A("ExprPat", <<A("Unary", <<Lit>>)>>), Local>>)>>)),
    \* async fn f((x): u32)
    Crate(<<Fn("AsyncFn", "f", NoGenerics, <<Param(A("PatParen", <<Ident>>), T)>>, <<A("RetImpl", <<>>)>>, <<Blk(<<Semi(Local)>>)>>)>>),
    \* trait Tr { fn m(x: (u32)); }
    Crate(<<AL("Trait", "Tr", <<NoGenerics, Bounds(<<>>), A("ItemList", <<Fn("Fn", "m", NoGenerics, <<Param(Ident, A("TyParen", <<T>>))>>, <<>>, <<>>)>>)>>)>>),
    \* Functions of the same name in two blocks, and a foreign function with types
    Crate(<<Plain("f", <<Semi(A("Block", <<Blk(<<ItemStmt(Inner)>>)>>)), Semi(A("Block", <<Blk(<<ItemStmt(Inner)>>)>>))>>)>>),
    Crate(<<AL("ForeignMod", "", <<A("ItemList", <<Fn("Fn", "p", NoGenerics, <<Param(Ident, T)>>, <<T>>, <<>>)>>)>>)>>) >>

-----------------------------------------------------------------------------

\* The empty crate is the first.
MCCrates ==
    <<Crate(<<>>)>> \o [i \in DOMAIN Lets |-> InFn(Lets[i])] \o
    [i \in DOMAIN Exprs |-> InAsyncFn(Let(<<Ident, Exprs[i]>>))] \o
    [i \in DOMAIN Patterns |-> InConst(Let(<<Patterns[i], Local>>))] \o Tails \o ItemCrates \o OtherCrates
=============================================================================
