-------------------------- MODULE MutationOperators --------------------------
(* What each mutation operator (mutest-operators/src) proposes for a place of  *)
(* a function: the function itself, a parameter, or an expression.             *)
(*                                                                             *)
(* A type is the sequence of its constructors from the outermost inwards, as   *)
(* <<"Option", "Vec", "int">>. A place is a record whose kind says which other *)
(* fields it has. A proposal is <<operator, code>>, where code is what stands  *)
(* in the place, or before the first statement of the body, while the mutation *)
(* is active. The operators never look at the names or values in a place.      *)
EXTENDS Integers, Sequences, FiniteSets, SequencesExt, FiniteSetsExt

CONSTANTS
    OutputOf,       \* <<trait of an operator, left type, right type>> |-> the type of the result
    DefaultHeads,   \* the outermost constructors of the types with a default value
    CopyTypes       \* the types that are copied rather than moved

HasDefault(ty) == ty[1] \in DefaultHeads

-----------------------------------------------------------------------------
(* Operators of two operands, and of one *)

Both(operator, a, b) == {<<operator, a, b>>, <<operator, b, a>>}

\* define_op_swap_operator.
Swaps ==
    Both("math_op_add_sub_swap", "Add", "Sub") \cup Both("math_op_add_mul_swap", "Add", "Mul")
    \cup Both("math_op_mul_div_swap", "Mul", "Div") \cup Both("math_op_div_rem_swap", "Div", "Rem")
    \cup Both("bit_op_or_xor_swap", "BitOr", "BitXor") \cup Both("bit_op_or_and_swap", "BitOr", "BitAnd")
    \cup Both("bit_op_xor_and_swap", "BitXor", "BitAnd") \cup Both("bit_op_shift_dir_swap", "Shl", "Shr")

\* Operators that need no trait of their operands beyond that of the original.
PlainSwaps ==
    Both("logical_op_and_or_swap", "And", "Or") \cup Both("eq_op_invert", "Eq", "Ne")
    \cup Both("relational_op_eq_swap", "Lt", "Le") \cup Both("relational_op_eq_swap", "Gt", "Ge")
    \cup Both("relational_op_invert", "Lt", "Ge") \cup Both("relational_op_invert", "Le", "Gt")

\* impls_matching_op: the left operand implements the trait for the right one, with the same result.
ImplsMatchingOp(p, op) ==
    /\ <<op, p.assign, p.lhs, p.rhs>> \in DOMAIN OutputOf
    /\ p.assign \/ OutputOf[<<op, p.assign, p.lhs, p.rhs>>] = p.ty

OpSwaps(p) ==
    IF p.kind # "binary" THEN {}
    ELSE {<<s[1], <<"binary", s[3]>>>> : s \in {s \in Swaps : s[2] = p.op /\ ImplsMatchingOp(p, s[3])}}
         \cup (IF p.assign THEN {} ELSE {<<s[1], <<"binary", s[3]>>>> : s \in {s \in PlainSwaps : s[2] = p.op}})

\* An overloaded operator may give a type other than its operand's.
UnaryOpDelete(p) ==
    IF p.kind = "unary" /\ p.op \in {"Not", "Neg"} /\ p.operand = p.ty
    THEN {<<"unary_op_delete", <<"operand">>>>} ELSE {}

\* A call is first bound to a name of type bool, which gives inference what a negation would not.
BoolExprNegate(p) ==
    IF p.kind \notin {"fn", "param", "let"} /\ p.ty = <<"bool">> /\ ~p.discarded
    THEN {<<"bool_expr_negate", <<IF p.kind = "call" THEN "notBound" ELSE "not">>>>} ELSE {}

\* Other limits would be another type, so the end of the range moves by one instead.
RangeLimitSwap(p) ==
    IF p.kind = "range" /\ p.end /\ p.bound \in {<<"int">>, <<"uint">>}
    THEN {<<"range_limit_swap", <<"end", IF p.closed THEN -1 ELSE 1>>>>} ELSE {}

-----------------------------------------------------------------------------
(* Calls *)

\* may_contain_borrow.
MayContainBorrow(ty) == Range(ty) \cap {"ref", "dyn", "param", "alias", "lifetime"} # {}

\* borrows_stable_place: nodes are the argument and what it is taken from, down to its root.
BorrowsStablePlace(nodes) ==
    /\ Last(nodes) = "path"
    /\ Range(Front(nodes)) \subseteq {"address", "field", "index", "deref"}

\* produces_temporary, of the node at i.
ProducesTemporary(nodes, i) ==
    \E j \in i..Len(nodes) : nodes[j] = "call" /\ \A k \in i..(j - 1) : nodes[k] \in {"try", "await", "paren"}

\* borrows_own_temporary: what the receiver or base of the expression is read through.
BorrowsOwnTemporary(p) ==
    \E i \in DOMAIN p.base :
        ProducesTemporary(p.base, i) /\ \A k \in 1..(i - 1) : p.base[k] \in {"call", "field", "index", "address"}

\* default_fits_in_place.
DefaultFitsInPlace(p) ==
    /\ HasDefault(p.ty)
    /\ MayContainBorrow(p.ty) => \A arg \in Range(p.args) : MayContainBorrow(arg.ty) => BorrowsStablePlace(arg.nodes)
    /\ p.adjusted = p.ty \/ HasDefault(p.adjusted)

\* non_default_call. refersBack: the default of the type is this function, or calls it.
NonDefaultCall(p, refersBack, localOnly) ==
    /\ p.args # <<>>
    /\ p.ty \notin {<<"unit">>, <<"never">>}
    /\ DefaultFitsInPlace(p)
    /\ p.callee \notin {"default", "pointer"}
    /\ localOnly => p.callee = "local"
    /\ ~refersBack

\* CallDelete and CallValueDefaultShadow; the second writes the type of the call, where it has a name.
CallOperators(p, refersBack, localOnly) ==
    IF p.kind = "call" /\ ~p.borrowed /\ ~BorrowsOwnTemporary(p) /\ NonDefaultCall(p, refersBack, localOnly)
    THEN {<<"call_delete", <<"default">>>>}
         \cup (IF p.named THEN {<<"call_value_default_shadow", <<"shadowedDefault">>>>} ELSE {})
    ELSE {}

-----------------------------------------------------------------------------
(* Control flow *)

\* loop_may_become_unit.
LoopMayBecomeUnit(p) ==
    \/ p.adjusted = <<"unit">>
    \/ p.stands = "statement"
    \/ p.stands = "lastStatement" /\ p.block = <<"unit">>

ContinueBreakSwap(p) ==
    IF p.kind # "jump" \/ ~p.loop \/ p.valued THEN {}
    ELSE LET fits == CASE p.word = "continue" /\ p.target = <<"never">> -> LoopMayBecomeUnit(p)
                       [] p.word = "break" /\ p.moves -> FALSE
                       [] OTHER -> p.target \in {<<"unit">>, <<"never">>}
         IN IF fits THEN {<<"continue_break_swap", <<IF p.word = "break" THEN "continue" ELSE "break">>>>} ELSE {}

\* is_irrefutable: by its syntax, whatever it covers.
IsIrrefutable(arm) == arm.pat \in {"wild", "binding"}

\* Arms before any catch-all arm, guarded or not.
ArmsBeforeAnyCatchAll(arms) ==
    LET catchAlls == {i \in DOMAIN arms : IsIrrefutable(arms[i])}
    IN IF catchAlls = {} THEN {} ELSE 1..(Max(catchAlls) - 1)

\* Arms before the last catch-all arm without a guard.
DeletableArms(arms) ==
    LET catchAlls == {i \in DOMAIN arms : arms[i].guard = "none" /\ IsIrrefutable(arms[i])}
    IN IF catchAlls = {} THEN {} ELSE 1..(Max(catchAlls) - 1)

MatchArmDelete(p) ==
    IF p.kind # "match" THEN {}
    ELSE {<<"match_arm_delete", <<"noArm", i>>>> : i \in {i \in DeletableArms(p.arms) : p.arms[i].pat # "never"}}

\* A guard that binds names stays, as the arm uses them.
MatchGuardValue(p) ==
    IF p.kind # "match" THEN {}
    ELSE {<<"match_guard_value", <<"guard", i, value>>>> :
            i \in {i \in DOMAIN p.arms : p.arms[i].guard = "condition"}, value \in BOOLEAN}

\* The base of a struct expression takes over a field, unless that would move it out of the base.
StructFieldDelete(p) ==
    IF p.kind # "struct" \/ ~p.base THEN {}
    ELSE {<<"struct_field_delete", <<"noField", i>>>> :
            i \in {i \in DOMAIN p.fields : p.fields[i].given = p.fields[i].inBase /\ p.fields[i].inBase \in CopyTypes}}

-----------------------------------------------------------------------------
(* Parameters and return values *)

ArgDefaultShadow(p) ==
    IF p.kind # "param" \/ p.self \/ ~p.statements THEN {}
    ELSE {<<"arg_default_shadow", <<"let", i>>>> :
            i \in {i \in DOMAIN p.names : HasDefault(p.names[i].ty) /\ p.names[i].written \notin {"impl", "nameless"}}}

\* MAX_TY_DEPTH.
MaxTyDepth == 3

Literals ==
    [bool |-> {"false", "true"}, int |-> {"0", "1", "-1"}, uint |-> {"0", "1"}, float |-> {"0.0", "1.0", "-1.0"},
     unit |-> {"()"}, String |-> {"String::new()", "String::from(xyzzy)"}]

\* Replacements::of, the values of the type from its constructor at i inwards.
Replacements(ty) ==
    LET DefaultValue(i) == IF ty[i] \in DefaultHeads THEN {<<"default">>} ELSE {}
        of[i \in 1..(Len(ty) + 1)] ==
            LET Wrapped(constructor) == {<<constructor>> \o v : v \in of[i + 1]}
            IN IF i > Len(ty) THEN {}
               ELSE IF i - 1 > MaxTyDepth THEN DefaultValue(i)
               ELSE CASE ty[i] \in DOMAIN Literals -> {<<v>> : v \in Literals[ty[i]]}
                      [] ty[i] = "ref" /\ i < Len(ty) /\ ty[i + 1] = "str" -> {<<"empty">>, <<"xyzzy">>}
                      [] ty[i] = "Result" -> Wrapped("Ok")
                      [] ty[i] = "Option" -> {<<"None">>} \cup Wrapped("Some")
                      [] ty[i] = "Vec" -> {<<"Vec::new()">>} \cup Wrapped("Vec::from")
                      [] OTHER -> DefaultValue(i)
    IN of[1]

FnReturnDefault(p) ==
    IF p.kind # "fn" \/ ~p.statements THEN {}
    ELSE {<<"fn_return_default", <<"return", v>>>> : v \in Replacements(p.ret)}

\* register_mutations: all the operators over one place.
Proposals(p, refersBack, localOnly) ==
    OpSwaps(p) \cup UnaryOpDelete(p) \cup BoolExprNegate(p) \cup RangeLimitSwap(p)
    \cup CallOperators(p, refersBack, localOnly)
    \cup ContinueBreakSwap(p) \cup MatchArmDelete(p) \cup MatchGuardValue(p) \cup StructFieldDelete(p)
    \cup ArgDefaultShadow(p) \cup FnReturnDefault(p)

-----------------------------------------------------------------------------
(* What the compiler makes of the code in a place. All mutations of a crate    *)
(* are compiled together, the original beside them.                            *)

\* The type of a value of fn_return_default, checked from the outside inwards.
IsValueOf(v, ty) ==
    \A i \in DOMAIN v :
        /\ i <= Len(ty)
        /\ CASE v[i] \in {"None", "Some"} -> ty[i] = "Option"
             [] v[i] = "Ok" -> ty[i] = "Result"
             [] v[i] \in {"Vec::new()", "Vec::from"} -> ty[i] = "Vec"
             [] v[i] \in {"empty", "xyzzy"} -> SubSeq(ty, i, Len(ty)) = <<"ref", "str">>
             [] v[i] = "default" -> ty[i] \in DefaultHeads
             [] OTHER -> ty[i] \in DOMAIN Literals /\ v[i] \in Literals[ty[i]]
        /\ (i = Len(v)) <=> v[i] \notin {"Some", "Ok", "Vec::from"}

\* A value that may borrow from a temporary does not leave the match arm that a substitution puts it in. What a call gives
\* back borrows through its arguments, of which the receiver is the first, as it is passed.
BorrowsATemporary(p) ==
    MayContainBorrow(p.ty) /\ \E arg \in Range(p.args) : MayContainBorrow(arg.ty) /\ Last(arg.nodes) # "path"

\* The values no arm without a guard covers.
Uncovered(p, arms) == p.values \ UNION {p.arms[i].covers : i \in {i \in arms : p.arms[i].guard = "none"}}

\* What the position of a loop asks of its type.
Asked(p) == CASE p.stands = "statement" -> <<"unit">> [] p.stands = "lastStatement" -> p.block [] OTHER -> p.adjusted

\* What the compiler has made sure of in the places of a program that compiles: a binding or a wildcard covers every value,
\* a loop that ends its block gives it its type, and a str, which has no parameters, stands last in a type.
CompiledPlace(p) ==
    /\ p.kind = "jump" =>
        /\ p.word \in {"break", "continue"}
        /\ p.stands = "lastStatement" /\ p.adjusted = <<"unit">> => p.block = <<"unit">>
    /\ p.kind = "match" =>
        /\ p.arms \in Seq(Range(p.arms))
        /\ \A arm \in Range(p.arms) : IsIrrefutable(arm) => p.values \subseteq arm.covers
    /\ p.kind = "fn" =>
        /\ p.ret \in Seq(Range(p.ret)) /\ p.ret # <<>>
        /\ \A i \in DOMAIN p.ret : p.ret[i] = "str" => i = Len(p.ret)

Compiles(p, code) ==
    CASE code[1] = "binary" ->
            IF code[2] \in {"And", "Or"} THEN ~p.lets
            ELSE IF code[2] \in {"Eq", "Ne"} THEN p.op \in {"Eq", "Ne"}
            ELSE IF code[2] \in {"Lt", "Le", "Gt", "Ge"} THEN p.op \in {"Lt", "Le", "Gt", "Ge"}
            ELSE /\ <<code[2], p.assign, p.lhs, p.rhs>> \in DOMAIN OutputOf
                 /\ p.assign \/ OutputOf[<<code[2], p.assign, p.lhs, p.rhs>>] = p.ty
      [] code[1] = "not" -> p.kind # "call" /\ ~(p.kind = "binary" /\ p.lets)
      [] code[1] = "notBound" -> TRUE
      [] code[1] = "operand" -> p.operand = p.ty
      [] code[1] = "end" -> p.bound \in {<<"int">>, <<"uint">>}
      [] code[1] \in {"default", "shadowedDefault"} -> HasDefault(p.adjusted) /\ ~p.borrowed /\ ~BorrowsATemporary(p)
      [] code[1] = "break" -> IF p.target = <<"never">> THEN Asked(p) = <<"unit">> ELSE p.target = <<"unit">>
      [] code[1] = "continue" -> p.loop /\ ~p.moves
      [] code[1] = "noArm" -> Uncovered(p, DOMAIN p.arms \ {code[2]}) = {}
      [] code[1] = "guard" -> p.arms[code[2]].guard # "let"
      [] code[1] = "noField" -> p.fields[code[2]].inBase = p.fields[code[2]].given /\ p.fields[code[2]].given \in CopyTypes
      [] code[1] = "let" -> HasDefault(p.names[code[2]].ty) /\ p.names[code[2]].written \notin {"impl", "nameless"}
      [] code[1] = "return" -> IsValueOf(code[2], p.ret)

\* What differs while the mutation is active: a negated value that nothing reads changes nothing.
HasEffect(p, code) == code[1] \in {"not", "notBound"} => ~p.discarded
=============================================================================
