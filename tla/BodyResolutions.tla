--------------------------- MODULE BodyResolutions ---------------------------
(* The collector of mutest-emit/src/analysis/ast_lowering.rs: BodyMetaVisitor  *)
(* goes through the items of the crate; in each, BodyResolutionsCollector      *)
(* walks the syntax tree and the HIR side by side and records every pair of    *)
(* nodes. The validator then looks for nodes without a match, and definitions  *)
(* of the HIR are looked up in the syntax tree.                                *)
EXTENDS AstLowering, DefFinder, FiniteSets, SequencesExt, TLC

CONSTANTS
    Crates,         \* the syntax trees of the crates, a sequence
    OverflowChecks, \* whether the build checks arithmetic
    NoItem

VARIABLES
    krate,          \* the syntax tree
    items,          \* the items that are still to be visited
    owner,          \* the HIR of the item that is visited, or NoItem
    work,           \* what is left to visit in it: pairs of nodes, and where the walk panics or warns
    nodeIdToHirId,  \* the matches of the nodes of the syntax tree
    hirIdToNodeId,
    warned,         \* a pair of nodes was not recognised
    unmatched,      \* the nodes that the validator warns of
    found,          \* what was found for the definitions looked up so far
    phase           \* "resolving", "resolved", "validated" or "panicked"

resolvingVars == <<krate, items, owner, work, nodeIdToHirId, hirIdToNodeId, warned, unmatched, found, phase>>

-----------------------------------------------------------------------------
(* Collecting *)

\* BodyMetaVisitor goes to all items but the foreign ones.
VisitedItems(ast) ==
    LET foreign == Only(ItemsIn(ast), {"ForeignMod"})
    IN  SelectSeq(ItemsIn(ast), LAMBDA item : \A i \in DOMAIN foreign : ~IsInside(item, foreign[i]))

\* BodyMetaVisitor::visit_item, visit_assoc_item: modules, foreign modules and imports have nothing to match.
VisitItem ==
    /\ phase = "resolving" /\ work = <<>> /\ items # <<>>
    /\ LET hir == Lower(Head(items))
       IN  /\ owner' = hir
           /\ work' = IF Head(items).k \in {"Mod", "ForeignMod", "Use"} THEN <<>> ELSE Walk(Head(items), hir, hir)
    /\ items' = Tail(items)
    /\ UNCHANGED <<krate, nodeIdToHirId, hirIdToNodeId, warned, unmatched, found, phase>>

\* insert_ids: insert_same panics when one of the two ids is known to belong to another.
SameOrNew(map, key, value) == key \in DOMAIN map => map[key] = value

Stop ==
    /\ phase' = "panicked"
    /\ UNCHANGED <<krate, items, owner, work, nodeIdToHirId, hirIdToNodeId, warned, unmatched, found>>

\* The visit_* functions of the collector: record the ids, then walk on.
VisitNode ==
    /\ phase = "resolving" /\ work # <<>> /\ Head(work).t = "pair"
    /\ LET ast == Head(work).ast
           hir == Head(work).hir
       IN  IF ast.k \in Idless
           THEN /\ work' = Walk(ast, hir, owner) \o Tail(work)
                /\ UNCHANGED <<krate, items, owner, nodeIdToHirId, hirIdToNodeId, warned, unmatched, found, phase>>
           ELSE IF SameOrNew(nodeIdToHirId, ast.id, hir.id) /\ SameOrNew(hirIdToNodeId, hir.id, ast.id)
           THEN /\ nodeIdToHirId' = (ast.id :> hir.id) @@ nodeIdToHirId
                /\ hirIdToNodeId' = (hir.id :> ast.id) @@ hirIdToNodeId
                /\ work' = Walk(ast, hir, owner) \o Tail(work)
                /\ UNCHANGED <<krate, items, owner, warned, unmatched, found, phase>>
           ELSE Stop

\* A mismatch that the code does not expect panics (unreachable!(), or an index out of range);
\* one that it has no case for gets a warning, "unrecognized AST-HIR node pair".
Mismatch ==
    /\ phase = "resolving" /\ work # <<>> /\ Head(work).t # "pair"
    /\ IF Head(work).t = "panic" THEN Stop
       ELSE /\ warned' = TRUE
            /\ work' = Tail(work)
            /\ UNCHANGED <<krate, items, owner, nodeIdToHirId, hirIdToNodeId, unmatched, found, phase>>

Finalize ==
    /\ phase = "resolving" /\ work = <<>> /\ items = <<>>
    /\ phase' = "resolved"
    /\ owner' = NoItem
    /\ UNCHANGED <<krate, items, work, nodeIdToHirId, hirIdToNodeId, warned, unmatched, found>>

-----------------------------------------------------------------------------
(* Validation *)

\* What the validator goes on to from a node.
ValidatedChildren(ast) ==
    CASE ast.k \in {"Fn", "AsyncFn"} /\ ast.c[4].c = <<>> -> <<ast.c[1], ast.c[3]>> \o ParamTypes(ast.c[2].c)
      [] ast.k = "FnPtr" -> ParamTypes(ast.c[1].c) \o <<ast.c[2], ast.c[3]>>
      [] ast.k = "ParenArgs" -> ParamTypes(ast.c[1].c) \o <<ast.c[2]>>
      [] ast.k = "AnonConst" /\ ast.c[1].k = "PathExpr" -> ast.c[1].c
      [] ast.k = "Assign" -> AssignedSubexprs(ast.c[1]) \o <<ast.c[2]>>
      [] ast.k = "Blk" /\ ast.c # <<>> /\ ast.c[Len(ast.c)].k = "ExprStmt" ->
            \* The trailing expression is no statement in the HIR.
            SubSeq(ast.c, 1, Len(ast.c) - 1) \o ast.c[Len(ast.c)].c
      [] OTHER -> ast.c

\* Nodes without a check of their own.
Unchecked == Idless \union Parens \union Skipped \union {"Crate", "RetImpl", "ItemStmt", "EmptyStmt"}

\* The nodes that check_node_id is called for.
RECURSIVE CheckedIn(_)
CheckedIn(ast) ==
    LET children == ValidatedChildren(ast)
    IN  (IF ast.k \in Unchecked THEN {} ELSE {ast.id}) \union UNION {CheckedIn(children[i]) : i \in DOMAIN children}

\* `block.stmts.len() - 1` on an empty block.
RECURSIVE HasEmptyBlock(_)
HasEmptyBlock(ast) == (ast.k = "Blk" /\ ast.c = <<>>) \/ \E i \in DOMAIN ast.c : HasEmptyBlock(ast.c[i])

\* validate_body_resolutions, with --verify-ast-lowering.
Validate ==
    /\ phase = "resolved"
    /\ IF OverflowChecks /\ HasEmptyBlock(krate)
       THEN phase' = "panicked" /\ UNCHANGED unmatched
       ELSE phase' = "validated" /\ unmatched' = CheckedIn(krate) \ DOMAIN nodeIdToHirId
    /\ UNCHANGED <<krate, items, owner, work, nodeIdToHirId, hirIdToNodeId, warned, found>>

-----------------------------------------------------------------------------
(* Looking up definitions *)

Definitions == ItemsIn(krate)

\* find_def_in_ast, for one definition after the other: finding another one than was asked for is a bug, span_bug! panics.
FindDef ==
    /\ phase = "validated" /\ Len(found) < Len(Definitions)
    /\ LET def == Definitions[Len(found) + 1]
           item == FindDefInAst(krate, def)
       IN  IF item # NotFound /\ item[1].id # def.id THEN Stop
           ELSE /\ found' = Append(found, item)
                /\ UNCHANGED <<krate, items, owner, work, nodeIdToHirId, hirIdToNodeId, warned, unmatched, phase>>

-----------------------------------------------------------------------------

ResolvingInit ==
    /\ \E i \in DOMAIN Crates : krate = Identified(Crates[i], <<>>)
    /\ items = VisitedItems(krate)
    /\ owner = NoItem
    /\ work = <<>>
    /\ nodeIdToHirId = <<>>
    /\ hirIdToNodeId = <<>>
    /\ warned = FALSE
    /\ unmatched = {}
    /\ found = <<>>
    /\ phase = "resolving"

ResolvingNext ==
    \/ VisitItem
    \/ VisitNode
    \/ Mismatch
    \/ Finalize
    \/ Validate
    \/ FindDef

ResolvingSpec == ResolvingInit /\ [][ResolvingNext]_resolvingVars

-----------------------------------------------------------------------------
(* Properties *)

RECURSIVE NodeAt(_, _)
NodeAt(tree, path) == IF path = <<>> THEN tree ELSE NodeAt(tree.c[Head(path)], Tail(path))

\* What a node is lowered to; parentheses are lowered to what is in them.
RECURSIVE LoweredTo(_)
LoweredTo(node) == IF NodeAt(krate, node).k \in Parens THEN LoweredTo(Append(node, 1)) ELSE OwnId(node)

RECURSIVE NodesIn(_)
NodesIn(ast) == {ast.id} \union UNION {NodesIn(ast.c[i]) : i \in DOMAIN ast.c}

Node(node) == NodeAt(krate, node)
Around(node) == Node(Front(node))
IsForeign(node) == \E i \in DOMAIN node : Node(SubSeq(node, 1, i - 1)).k = "ForeignMod"

\* What the walk cannot take: a path on a type that is itself a projection
\* (`<T::Item>::default()`), a parenthesised name as a parameter of an async
\* function or closure, and a parenthesised type of a parameter of a function
\* without a body.
StopsWalk(node) ==
    LET ast == Node(node)
    IN  \/ /\ ast.k = "QPath" /\ ast.c[2].c # <<>> /\ ast.c[2].n = 0 /\ ast.c[2].c[1].k = "TyPath"
           /\ LET qself == ast.c[2].c[1].c[1] IN qself.n > 0 \/ qself.c[2].c # <<>>
        \/ /\ ast.k = "PatParen" /\ IsSimpleBinding(ast)
           /\ node[Len(node)] = 1 /\ Around(node).k = "Param"
           /\ Node(SubSeq(node, 1, Len(node) - 3)).k \in {"AsyncFn", "AsyncClosure"}
        \/ /\ ast.k = "TyParen"
           /\ node[Len(node)] = 2 /\ Around(node).k = "Param"
           /\ LET fn == Node(SubSeq(node, 1, Len(node) - 3)) IN fn.k \in {"Fn", "AsyncFn"} /\ fn.c[4].c = <<>>

WalkStopped == phase = "panicked" /\ work # <<>>

\* Nodes that the walk does not visit and the validator asks for: `_` as a
\* generic argument, the literal of a negative literal in a pattern, and what is
\* in foreign modules.
NeverMatched(node) ==
    \/ Node(node).k = "Infer" /\ Around(node).k = "Args"
    \/ Around(node).k = "Unary" /\ Around(Front(node)).k \in {"ExprPat", "RangePat"}
    \/ IsForeign(node)

\* Every match is a node with its own lowering (ast_lowering.rs:1774): two
\* lists of different lengths are zipped without an error, so a statement, an
\* argument or a predicate that only one of the trees has would shift all
\* matches after it, and mutations would use the types of other nodes. The walk
\* recognises all pairs, and it ends with every node that the validator asks for
\* matched (ast_lowering.rs:2039), except in exactly these cases: it stops at
\* an unreachable!() or another panic for the three constructs of StopsWalk, and
\* the three kinds of nodes of NeverMatched have no match. The validator itself
\* panics at an empty block where arithmetic is checked (HasEmptyBlock), and
\* then says nothing of the matches.
EveryNodeMatched ==
    /\ \A node \in DOMAIN nodeIdToHirId :
        /\ nodeIdToHirId[node] = LoweredTo(node)
        /\ hirIdToNodeId[LoweredTo(node)] = node
    /\ ~warned
    /\ phase # "resolving" /\ found = <<>> =>
        /\ WalkStopped <=> \E node \in NodesIn(krate) : StopsWalk(node) /\ ~IsForeign(node)
        /\ phase = "validated" => unmatched = {node \in CheckedIn(krate) : NeverMatched(node)}

\* A definition, or one that it is nested in, has an earlier namesake of its kind
\* in another block of the same function.
HasNamesake(def) ==
    LET path == PathTo(krate, def)
    IN  \E i \in DOMAIN path :
            /\ path[i].k \notin Nameless \union {"Use"}
            /\ Position(path[i], Alike(path[i], ChildItems(IF i = 1 THEN krate ELSE path[i - 1]))) > 1

\* The panic of a lookup, not that of the validator at an empty block.
LookupStopped == phase = "panicked" /\ work = <<>> /\ ~(OverflowChecks /\ HasEmptyBlock(krate))

\* Looking a definition up finds that definition, or nothing: nothing only for
\* imports, which have no name of their own, and for what is defined in the body
\* of a constant, which is not searched (ast_lowering.rs:2692). Where a block of
\* a function has an item that is named as one of an earlier block, and only
\* there, the lookup ends the compiler with span_bug! (ast_lowering.rs:2752).
FoundIsAsked ==
    /\ \A i \in DOMAIN found :
        \/ found[i] # NotFound /\ found[i][1].id = Definitions[i].id
        \/ /\ found[i] = NotFound
           /\ \/ Definitions[i].k = "Use"
              \/ \E j \in DOMAIN Definitions :
                    /\ Definitions[j].k \in {"Const", "Static"}
                    /\ IsInside(Definitions[i], Definitions[j])
    /\ LookupStopped => HasNamesake(Definitions[Len(found) + 1])
    /\ \A i \in DOMAIN found : found[i] # NotFound => ~HasNamesake(Definitions[i])

\* As is said of the lookup by the item-like components of a path, "it is
\* sufficient to only look at" these "to resolve definitions"
\* (ast_lowering.rs:2733): no lookup comes upon another definition than the one
\* that was asked for.
ItemsOfPathSuffice == ~LookupStopped
=============================================================================
