----------------------- MODULE MCMutationGeneration -----------------------
EXTENDS MutationGeneration

CONSTANTS test1, test2, test3

MCTests == {test1, test2, test3}
\* 1, 2 and 3 are functions of the crate; 4 is one of a library, which may call 2 and 3.
MCFns == 1..4
Crate == 1..3

\* What the types of the programs have.
Integer == {<<"int">>, <<"uint">>}
Arithmetic == {"Add", "Sub", "Mul", "Div", "Rem", "BitOr", "BitXor", "BitAnd", "Shl", "Shr"}
Matrix == <<"Matrix">>
Vector == <<"Vector">>
MCOutputOf ==
    [x \in {<<op, assign, ty, ty>> : op \in Arithmetic, assign \in BOOLEAN, ty \in Integer} |-> IF x[2] THEN <<"unit">> ELSE x[3]]
    @@ [x \in {<<op, FALSE, <<"bool">>, <<"bool">>>> : op \in {"BitOr", "BitXor", "BitAnd"}} |-> <<"bool">>]
    @@ (<<"Mul", FALSE, Matrix, Vector>> :> Vector) @@ (<<"Div", FALSE, Matrix, Vector>> :> Matrix)
    @@ (<<"Add", FALSE, Matrix, Matrix>> :> Matrix) @@ (<<"Sub", FALSE, Matrix, Matrix>> :> Matrix)
    @@ (<<"Add", FALSE, <<"String">>, <<"ref", "str">>>> :> <<"String">>)
    @@ (<<"Add", TRUE, <<"String">>, <<"ref", "str">>>> :> <<"unit">>)
MCDefaultHeads == {"bool", "int", "uint", "float", "unit", "String", "Option", "Vec", "ref", "Matrix", "lifetime"}
MCCopyTypes == {<<"bool">>, <<"int">>, <<"uint">>}

\* The places that the operators are applied to.
Value(ty, discarded) == [kind |-> "value", ty |-> ty, discarded |-> discarded]
Binary(op, lhs, rhs, ty) == [kind |-> "binary", op |-> op, assign |-> FALSE, lhs |-> lhs, rhs |-> rhs, ty |-> ty, discarded |-> FALSE, lets |-> FALSE]
AssignOp(op, lhs, rhs) == [Binary(op, lhs, rhs, <<"unit">>) EXCEPT !.assign = TRUE]
Unary(op, operand, ty) == [kind |-> "unary", op |-> op, operand |-> operand, ty |-> ty, discarded |-> FALSE]
Interval(end, closed, bound) == [kind |-> "range", end |-> end, closed |-> closed, bound |-> bound, ty |-> <<"Range">>, discarded |-> FALSE]
CallOf(callee, ty, adjusted, args, base) ==
    [kind |-> "call", callee |-> callee, ty |-> ty, adjusted |-> adjusted, args |-> args, base |-> base, borrowed |-> FALSE,
     named |-> TRUE, defaultImpl |-> 0, discarded |-> FALSE]
Arg(ty, nodes) == [ty |-> ty, nodes |-> nodes]
Jump(word, loop, target, adjusted, stands, block, moves) ==
    [kind |-> "jump", word |-> word, valued |-> FALSE, loop |-> loop, target |-> target, adjusted |-> adjusted, stands |-> stands,
     block |-> block, moves |-> moves, ty |-> <<"never">>, discarded |-> FALSE]
Arm(pat, covers, guard) == [pat |-> pat, covers |-> covers, guard |-> guard]
MatchOf(values, arms) == [kind |-> "match", values |-> values, arms |-> arms, ty |-> <<"unit">>, discarded |-> FALSE]

Operations == <<
    Binary("Add", <<"int">>, <<"int">>, <<"int">>), AssignOp("BitOr", <<"uint">>, <<"uint">>),
    Binary("Add", <<"String">>, <<"ref", "str">>, <<"String">>), AssignOp("Add", <<"String">>, <<"ref", "str">>),
    Binary("Mul", Matrix, Vector, Vector), Binary("Add", Matrix, Matrix, Matrix),
    Binary("And", <<"bool">>, <<"bool">>, <<"bool">>), Binary("Lt", <<"String">>, <<"String">>, <<"bool">>),
    Binary("BitXor", <<"bool">>, <<"bool">>, <<"bool">>),
    Unary("Not", <<"bool">>, <<"bool">>), Unary("Neg", Matrix, Vector), Unary("Deref", <<"bool">>, <<"bool">>),
    Interval(TRUE, FALSE, <<"uint">>), Interval(TRUE, TRUE, <<"int">>), Interval(TRUE, FALSE, <<"float">>), Interval(FALSE, FALSE, <<"int">>),
    Value(<<"bool">>, TRUE), [kind |-> "let", ty |-> <<"bool">>, discarded |-> FALSE]>>

Borrowed == <<"lifetime", "Option", "ref", "str">>
Calls == <<
    CallOf("local", <<"bool">>, <<"bool">>, <<Arg(<<"int">>, <<"path">>)>>, <<>>),
    CallOf("other", <<"int">>, <<"int">>, <<Arg(<<"String">>, <<"path">>)>>, <<>>),
    CallOf("local", <<"int">>, <<"int">>, <<>>, <<>>),
    CallOf("default", Matrix, Matrix, <<Arg(<<"int">>, <<"path">>)>>, <<>>),
    CallOf("local", <<"unit">>, <<"unit">>, <<Arg(<<"int">>, <<"path">>)>>, <<>>),
    CallOf("local", <<"Result", "int">>, <<"Result", "int">>, <<Arg(<<"int">>, <<"path">>)>>, <<>>),
    CallOf("local", <<"Vec", "int">>, <<"dyn">>, <<Arg(<<"int">>, <<"path">>)>>, <<>>),
    \* What a call gives back may borrow from an argument: of a name, or of a value made for the call.
    CallOf("local", Borrowed, Borrowed, <<Arg(<<"ref", "String">>, <<"address", "field", "path">>)>>, <<>>),
    CallOf("local", Borrowed, Borrowed, <<Arg(<<"ref", "String">>, <<"address", "call">>)>>, <<>>),
    CallOf("local", <<"ref", "str">>, <<"ref", "str">>, <<Arg(<<"ref", "String">>, <<"try", "call">>)>>, <<"try", "call">>),
    CallOf("local", <<"uint">>, <<"uint">>, <<Arg(<<"ref", "str">>, <<"call">>)>>, <<"call", "path">>),
    [CallOf("local", <<"String">>, <<"String">>, <<Arg(<<"int">>, <<"path">>)>>, <<>>) EXCEPT !.borrowed = TRUE],
    [CallOf("local", Matrix, Matrix, <<Arg(<<"int">>, <<"path">>)>>, <<>>) EXCEPT !.defaultImpl = 1],
    [CallOf("local", <<"int">>, <<"int">>, <<Arg(<<"int">>, <<"path">>)>>, <<>>) EXCEPT !.named = FALSE]>>

Values == {"A", "B", "C"}
Control == <<
    Jump("continue", TRUE, <<"unit">>, <<"unit">>, "expression", <<"unit">>, FALSE),
    Jump("break", TRUE, <<"unit">>, <<"unit">>, "expression", <<"unit">>, FALSE),
    Jump("break", TRUE, <<"unit">>, <<"unit">>, "expression", <<"unit">>, TRUE),
    Jump("break", FALSE, <<"unit">>, <<"unit">>, "expression", <<"unit">>, FALSE),
    Jump("continue", TRUE, <<"int">>, <<"int">>, "expression", <<"int">>, FALSE),
    Jump("continue", TRUE, <<"never">>, <<"int">>, "expression", <<"int">>, FALSE),
    Jump("continue", TRUE, <<"never">>, <<"never">>, "statement", <<"int">>, FALSE),
    Jump("continue", TRUE, <<"never">>, <<"never">>, "lastStatement", <<"int">>, FALSE),
    Jump("continue", TRUE, <<"never">>, <<"never">>, "lastStatement", <<"unit">>, FALSE),
    MatchOf(Values, <<Arm("variant", {"A"}, "none"), Arm("variant", {"B"}, "none"), Arm("variant", {"C"}, "none")>>),
    MatchOf(Values, <<Arm("variant", {"A"}, "condition"), Arm("binding", Values, "none"), Arm("wild", Values, "condition")>>),
    MatchOf(Values, <<Arm("variant", {"A"}, "let"), Arm("variant", {"B"}, "none"), Arm("wild", Values, "none")>>),
    MatchOf(Values, <<Arm("variant", {"A", "B"}, "none"), Arm("variant", {"C"}, "none"), Arm("wild", Values, "condition")>>),
    [kind |-> "struct", base |-> TRUE, ty |-> Matrix, discarded |-> FALSE,
     fields |-> <<[given |-> <<"int">>, inBase |-> <<"int">>], [given |-> <<"String">>, inBase |-> <<"String">>],
                  [given |-> <<"int">>, inBase |-> <<"param">>]>>],
    [kind |-> "struct", base |-> FALSE, ty |-> Matrix, discarded |-> FALSE, fields |-> <<[given |-> <<"int">>, inBase |-> <<"int">>]>>]>>

Returns(ty) == [kind |-> "fn", ret |-> ty, statements |-> TRUE]
Param(self, names) == [kind |-> "param", self |-> self, names |-> names, statements |-> TRUE]
Headers == <<
    Returns(<<"Result", "Option", "Vec", "bool">>), Returns(<<"Option", "Option", "Option", "Option", "int">>), Returns(<<"ref", "str">>),
    Returns(<<"Vec", "Result", "Matrix">>), Returns(<<"Option", "Vector">>), Returns(<<"ref", "String">>), [Returns(<<"int">>) EXCEPT !.statements = FALSE],
    Param(TRUE, <<>>),
    Param(FALSE, <<[ty |-> <<"int">>, written |-> "top"], [ty |-> Matrix, written |-> "impl"], [ty |-> Vector, written |-> "nested"],
                   [ty |-> <<"String">>, written |-> "nested"], [ty |-> <<"Option", "alias">>, written |-> "nameless"]>>)>>

Kinds == <<Operations, Calls, Control, Headers>>
MCPlaces == FlattenSeq(Kinds) \o <<Value(<<"bool">>, FALSE), [Binary("And", <<"bool">>, <<"bool">>, <<"bool">>) EXCEPT !.lets = TRUE]>>

Site(path, node, place) == [path |-> path, node |-> node, place |-> place]
Plain == Site(<<>>, "expression", Len(MCPlaces) - 1)
\* A place inside an unsafe block, which is the else block of an operand of a let chain, and places the collector never offers.
Deep == Site(<<"let chain operator", "else block", "unsafe block">>, "expression", Len(MCPlaces) - 1)
Hidden == Site(<<"closure">>, "expression", Len(MCPlaces) - 1)
Chained == Site(<<>>, "let chain operator", Len(MCPlaces))

Safeties == {[i \in MCTests \cup MCFns |-> 0],
             [i \in MCTests \cup MCFns |-> IF i = 2 THEN 1 ELSE 0],
             [i \in MCTests \cup MCFns |-> IF i = 1 THEN 1 ELSE IF i = 2 THEN 2 ELSE 0],
             [i \in MCTests \cup MCFns |-> IF i = 3 THEN 2 ELSE IF i \in {2, test2} THEN 1 ELSE 0]}

\* The calls that may or may not be there, beside the calls of 1 by test1 and of 3 by test3. A call of 2 by 1, and of an unsafe function, stands in
\* an unsafe block where the caller has one.
Edges == {<<test2, 4>>, <<1, 2>>, <<1, 4>>, <<2, 3>>, <<4, 2>>, <<4, 3>>}
Call(e, safety) == <<e[1], e[2], safety[e[1]] = 1 /\ (safety[e[2]] = 2 \/ e = <<1, 2>>)>>

\* Only unsafe code calls an unsafe function.
Consistent(p) == \A c \in p.calls : p.safety[c[2]] = 2 => c[3] \/ p.safety[c[1]] = 2

\* The body of 2 holds an item, so it does not keep its original code.
Shapes == [f \in Crate |-> [plain |-> TRUE, items |-> f = 2, closures |-> f = 3, opaque |-> FALSE]]

GraphPrograms ==
    {p \in {[calls |-> {Call(e, safety) : e \in edges \cup {<<test1, 1>>, <<test3, 3>>}}, safety |-> safety, counted |-> Crate, mutable |-> Crate,
             sites |-> [f \in Crate |-> IF safety[f] = 1 THEN <<Plain, Deep>> ELSE <<Plain, Hidden, Chained>>],
             shapes |-> Shapes, localOnly |-> FALSE] :
        edges \in SUBSET Edges, safety \in Safeties} : Consistent(p)}

\* Programs of one function that holds all places of a kind; in the second program of the calls, 1 is also the default of
\* Matrix, and calls the function.
SitesOf(k) ==
    LET before == Len(FlattenSeq(SubSeq(Kinds, 1, k - 1)))
    IN [i \in DOMAIN Kinds[k] |-> Site(<<>>, IF Kinds[k] = Headers THEN Headers[i].kind ELSE "expression", before + i)]
OperatorProgram(k, calls, localOnly) ==
    [calls |-> calls, safety |-> [i \in MCTests \cup MCFns |-> 0], counted |-> Crate, mutable |-> {2},
     sites |-> [f \in Crate |-> IF f = 2 THEN SitesOf(k) ELSE <<>>], shapes |-> Shapes, localOnly |-> localOnly]
OperatorPrograms ==
    {OperatorProgram(k, {<<test1, 2, FALSE>>}, FALSE) : k \in DOMAIN Kinds}
    \cup {OperatorProgram(2, {<<test1, 2, FALSE>>, <<1, 2, FALSE>>}, localOnly) : localOnly \in BOOLEAN}

MCPrograms == GraphPrograms \cup OperatorPrograms

Limit(d, l, m) == [depth |-> d, trace |-> l, mutation |-> m]
MCLimits == {Limit(NoLimit, NoLimit, 2), Limit(2, NoLimit, 1), Limit(2, NoLimit, 2), Limit(NoLimit, 2, 2)}
MCFilters == {Crate, {2, 3}}

Greedy(ordering, epsilon, size) == [algorithm |-> "Greedy", ordering |-> ordering, epsilon |-> epsilon, size |-> size]
Other(algorithm, size) == [algorithm |-> algorithm, ordering |-> "None", epsilon |-> FALSE, size |-> size]
\* A graph of many mutations, all of one function, is batched in one way only.
MCBatchOptions(n) ==
    IF n > 6 THEN {Greedy("None", FALSE, 3)}
    ELSE {Greedy("None", FALSE, 3), Greedy("ConflictsAsc", TRUE, 2), Greedy("ConflictsDesc", FALSE, 1),
          Greedy("Random", FALSE, 2), Other("Random", 2), Other("SimulatedAnnealing", 2)}
=============================================================================
