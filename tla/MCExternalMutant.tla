--------------------------- MODULE MCExternalMutant ---------------------------
(* Small workspaces for ExternalMutant, and what goes wrong in them.           *)
EXTENDS FiniteSets, Sequences, TLC

Plainly(fn) == [fn |-> fn, unsafety |-> [is |-> "None"], reachability |-> [is |-> "DirectEntry"],
                entries |-> {[fn |-> "t", distance |-> 0, unsafeCallPath |-> "None"]}]
Unsafely(fn) == [fn |-> fn, unsafety |-> [is |-> "Unsafe", by |-> "EnclosingUnsafe"], reachability |-> [is |-> "NestedCallee", distance |-> 2],
                 entries |-> {[fn |-> "t", distance |-> 2, unsafeCallPath |-> "Unsafe"],
                              [fn |-> "u", distance |-> 3, unsafeCallPath |-> "EnclosingUnsafe"]}]
Tainted(fn) == [Unsafely(fn) EXCEPT !.unsafety = [is |-> "Tainted", by |-> "Unsafe"]]

T(package, externs, names, targets) ==
    [crate |-> "it", extra |-> package, package |-> package, externs |-> externs, names |-> names, targets |-> targets,
     kind |-> "test", dir |-> "tests"]

\* Every library is asked for, is in the package of its name, and is compiled from nothing.
Workspace(libs, deps, tests) ==
    [libs |-> libs, deps |-> deps, tests |-> tests, types |-> [c \in DOMAIN deps |-> "lib"], packages |-> [c \in DOMAIN deps |-> c],
     primary |-> DOMAIN deps, env |-> [c \in DOMAIN deps |-> "now"], cargo |-> TRUE, marker |-> TRUE, emit |-> TRUE,
     runtime |-> {}, fresh |-> {}, changed |-> {}, stale |-> {}, missing |-> {}, leftover |-> {}, faults |-> {}]
UpToDate(s) == [s EXCEPT !.fresh = DOMAIN s.deps, !.runtime = {"now"}]

\* low <- mid <- top, with tests in the packages of low and of top.
Chain == [low |-> {}, mid |-> {"low"}, top |-> {"mid"}]
Of(low, mid, top) == [low |-> low, mid |-> mid, top |-> top]
Layers == Workspace(<<"low", "mid", "top">>, Chain,
    [inLow |-> T("low", {"low", "top"}, {"low", "top"}, Of({Plainly("f")}, {}, {})),
     inTop |-> T("top", {"low", "top"}, {"low", "top"}, Of({Unsafely("f")}, {}, {Tainted("h")}))])
Alone(s, t) == [s EXCEPT !.tests = t :> @[t]]
OneLayer == Alone(Layers, "inLow")

Faults == {<<"publish", "low">>, <<"publish", "mid">>, <<"exchange", "inLow">>, <<"child", "inLow">>, <<"report", "inLow">>, <<"edited", "low">>,
           <<"rebuild", <<"inLow", "mid">>>>, <<"rebuild", <<"inLow", "top">>>>}
Elsewhere(s) == [s EXCEPT !.tests = [t \in DOMAIN @ |-> [@[t] EXCEPT !.package = "elsewhere"]]]
Named(s, names) == [s EXCEPT !.tests = [t \in DOMAIN @ |-> [@[t] EXCEPT !.names = names]]]
Given(s, externs) == [s EXCEPT !.tests = [t \in DOMAIN @ |-> [@[t] EXCEPT !.externs = externs, !.names = externs]]]
Asked(s, cs) == [s EXCEPT !.primary = cs]
As(s, kind, dir) == [s EXCEPT !.tests = [t \in DOMAIN @ |-> [@[t] EXCEPT !.kind = kind, !.dir = dir]]]

\* two libraries side by side, and one built on both
Sides == Workspace(<<"a", "b", "over">>, [a |-> {}, b |-> {}, over |-> {"a", "b"}],
    [it |-> T("over", {"a", "b", "over"}, {"a", "b"}, [a |-> {Plainly("f")}, b |-> {Plainly("g")}, over |-> {}])])
\* a library, a macro beside it or built on it, and a probe of a build script
WithMacro(on) ==
    [Workspace(<<"a", "macro", "probe">>, [a |-> {}, macro |-> on, probe |-> {}],
        [it |-> T("a", {"a", "macro"}, {"a", "macro"}, [a |-> {Plainly("f")}, macro |-> {}, probe |-> {}])])
     EXCEPT !.types = [a |-> "lib", macro |-> "proc-macro", probe |-> "probe"]]

\* one way of each in which a build goes
Ways == {
    Layers, UpToDate(Layers), [UpToDate(Layers) EXCEPT !.runtime = {"before"}], [UpToDate(Layers) EXCEPT !.emit = FALSE],
    [Layers EXCEPT !.fresh = {"low"}, !.changed = {"mid", "top"}],
    [UpToDate(Layers) EXCEPT !.leftover = {"inLow", "inTop"}],
    [Layers EXCEPT !.cargo = FALSE],
    [OneLayer EXCEPT !.emit = FALSE, !.changed = {"low"}],
    [As(UpToDate(Layers), "lib", "src") EXCEPT !.runtime = {"before"}] }
    \union {[UpToDate(Layers) EXCEPT !.faults = {f}, !.marker = marker] : f \in Faults, marker \in BOOLEAN}
    \union {[OneLayer EXCEPT !.faults = {f}] : f \in Faults}
    \union {[UpToDate(OneLayer) EXCEPT !.faults = {f, <<"edited", "low">>}, !.leftover = {"inLow"}] : f \in Faults}
    \union {[UpToDate(OneLayer) EXCEPT !.emit = FALSE, !.faults = {f}] : f \in Faults}
    \union {[UpToDate(OneLayer) EXCEPT !.stale = {c}] : c \in {"low", "mid", "top"}}
    \union {[UpToDate(Elsewhere(OneLayer)) EXCEPT !.missing = {c}] : c \in {"low", "mid", "top"}}
    \union {Asked(Elsewhere(UpToDate(OneLayer)), cs) : cs \in SUBSET {"low", "mid", "top"}}
    \union {Asked(Named(UpToDate(OneLayer), {"top"}), cs) : cs \in {{"low"}, {"low", "mid"}}}
    \union {Asked(Given(UpToDate(OneLayer), {"top"}), cs) : cs \in {{"low"}, {"mid"}, {"top"}, {"low", "top"}}}
    \union {As(UpToDate(OneLayer), kind, dir) : kind \in {"test", "lib", "bench"}, dir \in {"tests", "src"}}
    \union {[As(UpToDate(OneLayer), "lib", dir) EXCEPT !.cargo = FALSE] : dir \in {"tests", "src"}}
    \union {UpToDate(Sides), UpToDate(Elsewhere(Sides)), Asked(UpToDate(Elsewhere(Sides)), {"b", "over"}),
            Named(UpToDate(Elsewhere(Sides)), {"a", "over"}), Named(UpToDate(Sides), {"over"}), Named(UpToDate(Elsewhere(Sides)), {"over"}),
            Named(UpToDate(Elsewhere(Sides)), {}) }
    \union {WithMacro(on) : on \in {{}, {"a"}}}


=============================================================================
