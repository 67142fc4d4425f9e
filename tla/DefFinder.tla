------------------------------ MODULE DefFinder ------------------------------
(* Looking up a definition of the HIR in the syntax tree: find_def_in_ast      *)
(* follows the item-like components of its path, by kind and name, or by its   *)
(* number among the nameless items of a kind.                                  *)
(*                                                                             *)
(* An item stands for itself in both trees: the HIR has the same items, in the *)
(* same order, and nothing of what surrounds them is looked at.                *)
EXTENDS RustcLowering

NotFound == <<>>
Found(item) == <<item>>
Nameless == {"Impl", "ForeignMod"}

ItemKind(item) == IF item.k = "AsyncFn" THEN "Fn" ELSE item.k

\* The items right inside an item, not those inside of them (AstBodyChildItemCollector).
ChildItems(item) ==
    LET RECURSIVE Under(_)
        Under(children) ==
            IF children = <<>> THEN <<>>
            ELSE (IF Head(children).k \in Items THEN <<Head(children)>> ELSE Under(Head(children).c)) \o Under(Tail(children))
    IN  Under(item.c)

\* The path to a definition from the crate: the items that it is nested in, and itself.
RECURSIVE PathTo(_, _)
PathTo(parent, def) ==
    LET children == ChildItems(parent)
        next == {i \in DOMAIN children : children[i].id = def.id \/ IsInside(def, children[i])}
    IN  IF next = {} THEN <<>> ELSE LET child == children[CHOOSE i \in next : TRUE] IN <<child>> \o PathTo(child, def)

Alike(def, children) ==
    SelectSeq(children, LAMBDA item : ItemKind(item) = ItemKind(def) /\ (def.k \in Nameless \/ item.n = def.n))
Position(def, items) == CHOOSE i \in DOMAIN items : items[i].id = def.id

\* Mutant: the positions count from one.
DisambiguatedFromOne(def, children) == Position(def, Alike(def, children))

\* disambiguate_child_item: the position among the children of the same kind, which for named items includes the name.
Disambiguated(def, children) == Position(def, Alike(def, children)) - 1

\* find_hir_def_item_in_ast: the number is used for nameless items alone.
FindItem(def, disambiguator, children) ==
    LET ofKind == SelectSeq(children, LAMBDA item : ItemKind(item) = ItemKind(def))
        named == SelectSeq(ofKind, LAMBDA item : item.n = def.n)
    IN  CASE def.k = "Use" -> NotFound
          [] def.k \in Nameless -> Cut(ofKind, disambiguator + 1, disambiguator + 1)
          [] OTHER -> Cut(named, 1, 1)

\* visit_crate, visit_item, visit_assoc_item: bodies of constants and statics are not searched.
Searched(item) == item.k \in {"Crate", "Mod", "ForeignMod", "Trait", "Impl", "Fn", "AsyncFn"}

RECURSIVE Descend(_, _, _)
Descend(ast, hir, path) ==
    IF path = <<>> THEN Found(ast)
    ELSE IF ~Searched(ast) THEN NotFound
    ELSE LET found == FindItem(Head(path), Disambiguated(Head(path), ChildItems(hir)), ChildItems(ast))
         IN  IF found = NotFound THEN NotFound ELSE Descend(found[1], Head(path), Tail(path))

FindDefInAst(krate, def) == Descend(krate, krate, PathTo(krate, def))
=============================================================================
