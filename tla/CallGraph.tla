------------------------------ MODULE CallGraph ------------------------------
(* Which functions the tests reach (mutest-emit/src/analysis/call_graph.rs):   *)
(* the calls of every function are recorded distance by distance, then each    *)
(* test walks the recorded calls with a 0-1 breadth-first search and leaves on *)
(* every mutable function how far it is, by which unsafe path it is reached,   *)
(* and whether a limit may have hidden a test that reaches it.                 *)
(*                                                                             *)
(* A program is a record: calls, a set of <<caller, callee, block>> where      *)
(* block says that the call stands in an unsafe block; safety of each body;    *)
(* counted, the functions of the targeted crates; mutable, those of them that  *)
(* can be mutated. Generic instances are functions of their own; calls through *)
(* pointers are not part of the graph, as the place that makes the pointer     *)
(* counts as the call.                                                         *)
EXTENDS Integers, Sequences, FiniteSets, SequencesExt, FiniteSetsExt

CONSTANTS
    Tests,      \* the tests that are not ignored
    Fns,        \* the functions, numbered in the order of their spans
    Programs,   \* the programs to analyse
    Limits,     \* records depth, trace (the explicit limits) and mutation (the mutation depth)
    NoLimit, NoTest

\* The order of UnsafeSource, with 0 for no unsafe source on the path.
NoSource == 0
Enclosing == 1
UnsafeCode == 2

\* The order of Unsafety: None, Tainted(source), Unsafe(source).
Tainted(source) == source
Unsafe(source) == 2 + source

ASSUME FnsAssumption == Fns \subseteq Nat /\ IsFiniteSet(Fns) /\ IsFiniteSet(Tests) /\ NoTest \notin Tests

\* A call is of a function, by a test or a function, in an unsafe block or not.
ASSUME ProgramsAssumption ==
    \A p \in Programs :
        /\ p.calls \subseteq (Tests \cup Fns) \X Fns \X BOOLEAN
        /\ p.safety \in [Tests \cup Fns -> 0..2]
        /\ p.counted \cup p.mutable \subseteq Fns

\* The driver refuses a limit below the mutation depth.
ASSUME LimitsAssumption ==
    \A l \in Limits : l.mutation \in Nat /\ \A bound \in {l.depth, l.trace} : bound = NoLimit \/ (bound \in Nat /\ bound >= l.mutation)

VARIABLES
    program,    \* the program under analysis
    limits,     \* the limits of this compilation
    phase,      \* "graph", "walk", then the phases of the modules that extend this one
    distance,   \* the distance whose callers are recorded
    callers,    \* the functions found at this distance that are still to be recorded
    found,      \* the functions found at the next distance
    recorded,   \* already_recorded_callers: the functions whose calls are in the graph
    cutCallers, \* truncated_callers
    toWalk,     \* the tests that have not walked the graph yet
    walker,     \* the test that walks, or NoTest
    queue,      \* the queue of the walk: <<function, unsafe source, distance>>
    reached,    \* closest and most unsafe reach of each function by the walk
    targets,    \* the targets found so far
    truncated   \* the tests a limit cut a trace of

graphVars == <<program, limits, distance, callers, found, recorded, cutCallers, toWalk, walker, queue, reached, targets, truncated>>

-----------------------------------------------------------------------------
(* The program *)

CallsOf(f) == {c \in program.calls : c[1] = f}
CalleesOf(f) == {c[2] : c \in CallsOf(f)}

\* mir_callees: a call is unsafe in an unsafe function or block, or when the callee is an unsafe function.
IsUnsafeCall(c) == program.safety[c[1]] = UnsafeCode \/ c[3] \/ program.safety[c[2]] = UnsafeCode

\* check_item_unsafety.
ItemUnsafety(f) == IF program.safety[f] = NoSource THEN NoSource ELSE Unsafe(program.safety[f])

-----------------------------------------------------------------------------
(* The graph, distance by distance *)

AtDepthLimit == limits.depth # NoLimit /\ distance + 1 >= limits.depth

\* One round of record_calls_at_distance over the callers at hand.
RecordCallers ==
    LET new == callers \ recorded
        cut == IF AtDepthLimit THEN new \cap program.counted ELSE {}
        walked == new \ cut
    IN /\ phase = "graph" /\ callers # {}
       /\ recorded' = recorded \cup walked
       /\ cutCallers' = cutCallers \cup {f \in cut : CallsOf(f) # {}}
       /\ callers' = UNION {CalleesOf(f) : f \in walked \ program.counted}
       /\ found' = found \cup UNION {CalleesOf(f) : f \in walked \cap program.counted}
       /\ UNCHANGED <<program, limits, phase, distance, toWalk, walker, queue, reached, targets, truncated>>

\* The loop over the distances of reachable_fns.
NextDistance ==
    /\ phase = "graph" /\ callers = {}
    /\ IF found = {} \/ AtDepthLimit
       THEN phase' = "walk" /\ UNCHANGED <<distance, callers, found>>
       ELSE phase' = phase /\ distance' = distance + 1 /\ callers' = found /\ found' = {}
    /\ UNCHANGED <<program, limits, recorded, cutCallers, toWalk, walker, queue, reached, targets, truncated>>

-----------------------------------------------------------------------------
(* The walk of one test *)

\* A search that takes a function again only when it is closer.
ImprovesIfCloser(known, f, source, at) == f \in DOMAIN known => at < known[f].distance

\* reaches_closer_or_more_unsafely.
Improves(known, f, source, at) ==
    f \in DOMAIN known => at < known[f].distance \/ source > known[f].source

Improve(known, f, source, at) ==
    LET best == IF f \in DOMAIN known
                THEN [distance |-> Min({at, known[f].distance}), source |-> Max({source, known[f].source})]
                ELSE [distance |-> at, source |-> source]
    IN [g \in DOMAIN known \cup {f} |-> IF g = f THEN best ELSE known[g]]

\* One call found by the walk: it is queued if it improves what is known of the callee.
Follow(walk, f, source, at, toBack) ==
    IF ~Improves(walk.reached, f, source, at) THEN walk
    ELSE [reached |-> Improve(walk.reached, f, source, at),
          queue |-> IF toBack THEN Append(walk.queue, <<f, source, at>>) ELSE <<<<f, source, at>>>> \o walk.queue]

\* The calls <<callee, source, distance>> found by the walk, one after another.
FollowAll(walk, calls, toBack) ==
    LET after[i \in 0..Len(calls)] ==
            IF i = 0 THEN walk
            ELSE Follow(after[i - 1], calls[i][1], calls[i][2], calls[i][3], toBack)
    IN  after[Len(calls)]

\* The tests walk in the order of a hash map; calls are taken in the order of their spans, which is any order here.
StartWalk(t) ==
    /\ phase = "walk" /\ walker = NoTest /\ t \in toWalk
    /\ toWalk' = toWalk \ {t} /\ walker' = t
    /\ \E callees \in SetToSeqs(CalleesOf(t)) :
        LET start == FollowAll([reached |-> <<>>, queue |-> <<>>],
                               [i \in DOMAIN callees |-> <<callees[i], program.safety[t], 0>>], TRUE)
        IN queue' = start.queue /\ reached' = start.reached
    /\ UNCHANGED <<program, limits, phase, distance, callers, found, recorded, cutCallers, targets, truncated>>

\* record_target: the function becomes a target, and what earlier walks left on it is kept if it is stronger.
RecordTarget(t, f, source, at) ==
    IF f \notin program.mutable THEN targets
    ELSE LET old == IF f \in DOMAIN targets THEN targets[f]
                    ELSE [distance |-> at, unsafety |-> ItemUnsafety(f), reach |-> <<>>]
             new == [distance |-> Min({at, old.distance}),
                     unsafety |-> Max({Tainted(source), old.unsafety}),
                     reach |-> Improve(old.reach, t, source, at)]
         IN [g \in DOMAIN targets \cup {f} |-> IF g = f THEN new ELSE targets[g]]

WalkStep ==
    /\ phase = "walk" /\ queue # <<>>
    /\ LET t == walker
           f == Head(queue)[1]
           source == Head(queue)[2]
           at == Head(queue)[3]
           counts == f \in program.counted
           next == IF counts THEN at + 1 ELSE at
           calls == IF f \in recorded THEN CallsOf(f) ELSE {}
           cut == limits.trace # NoLimit /\ next >= limits.trace
       IN /\ targets' = RecordTarget(t, f, source, at)
          /\ \E order \in SetToSeqs(IF cut THEN {} ELSE calls) :
                LET Found(c) == <<c[2], IF IsUnsafeCall(c) THEN UnsafeCode ELSE source, next>>
                    walk == FollowAll([reached |-> reached, queue |-> Tail(queue)],
                                      [i \in DOMAIN order |-> Found(order[i])], counts)
                IN queue' = walk.queue /\ reached' = walk.reached
          /\ truncated' = IF f \in cutCallers \/ (cut /\ calls # {}) THEN truncated \cup {t} ELSE truncated
    /\ UNCHANGED <<program, limits, phase, distance, callers, found, recorded, cutCallers, toWalk, walker>>

\* The queue is empty: what this walk knew of the functions is dropped with it.
EndWalk ==
    /\ phase = "walk" /\ walker # NoTest /\ queue = <<>>
    /\ walker' = NoTest /\ reached' = <<>>
    /\ UNCHANGED <<program, limits, phase, distance, callers, found, recorded, cutCallers, toWalk, queue, targets, truncated>>

\* A mark for the tests that the depth limit cut, and not for those the trace limit cut.
ReachedByTruncatedAtDepth(f) == limits.depth # NoLimit /\ DOMAIN targets[f].reach \cap truncated # {}

\* mark_targets_reached_by_truncated_entry_points.
ReachedByTruncated(f) == DOMAIN targets[f].reach \cap truncated # {}

\* All tests have walked; the targets are handed on, in the order of their spans.
FinishWalks ==
    /\ phase = "walk" /\ walker = NoTest /\ toWalk = {}
    /\ phase' = "mutate"
    /\ UNCHANGED graphVars

GraphInit ==
    /\ program \in Programs /\ limits \in Limits
    /\ phase = "graph" /\ distance = 0
    /\ callers = UNION {CalleesOf(t) : t \in Tests}
    /\ found = {} /\ recorded = {} /\ cutCallers = {}
    /\ toWalk = Tests /\ walker = NoTest /\ queue = <<>> /\ reached = <<>>
    /\ targets = <<>> /\ truncated = {}

GraphNext == RecordCallers \/ NextDistance \/ (\E t \in Tests : StartWalk(t)) \/ WalkStep \/ EndWalk \/ FinishWalks

-----------------------------------------------------------------------------
(* What the calls of the program say, whatever the limits *)

\* The functions that test t reaches: those in every set that holds what t calls and what its functions call.
ClosedFrom(t, fns) == CalleesOf(t) \subseteq fns /\ \A f \in fns : CalleesOf(f) \subseteq fns
TrulyReached(t) == {f \in Fns : \A fns \in SUBSET Fns : ClosedFrom(t, fns) => f \in fns}

\* A call adds to the distance when its caller counts.
Cost(f) == IF f \in program.counted THEN 1 ELSE 0

\* Distances of functions from some tests that are nowhere too long: those along the calls of the program are as long or longer.
NotTooLong(ts, away) ==
    /\ \A t \in ts : \A f \in CalleesOf(t) : away[f] = 0
    /\ \A c \in program.calls : c[1] \in Fns => away[c[2]] <= away[c[1]] + Cost(c[1])

\* How far a function is from some tests, along any calls. One that they do not reach is at least n away for all n.
AtLeast(ts, f, n) == \E away \in [Fns -> 0..n] : NotTooLong(ts, away) /\ away[f] = n
IsDistance(ts, f, n) == AtLeast(ts, f, n) /\ ~AtLeast(ts, f, n + 1)

\* Sources of functions that are nowhere too safe: no path from test t is less safe than they say.
NotTooSafe(t, source) ==
    /\ \A f \in CalleesOf(t) : source[f] >= program.safety[t]
    /\ \A c \in program.calls :
        c[1] \in TrulyReached(t) => source[c[2]] >= IF IsUnsafeCall(c) THEN UnsafeCode ELSE source[c[1]]

\* The most unsafe source of the paths from a test to a function that it reaches.
AtMost(t, f, n) == \E source \in [Fns -> NoSource..UnsafeCode] : NotTooSafe(t, source) /\ source[f] = n
IsSource(t, f, n) == AtMost(t, f, n) /\ ~AtMost(t, f, n - 1)

\* The walks have ended, and nothing has been made of their targets yet.
WalksDone == phase = "mutate"

\* What the walks leave on the targets is true of the program: a test is recorded on a target only if it reaches it; a
\* test no limit cut is recorded on every target it reaches, at its least distance and with its most unsafe path; and
\* every function within the mutation depth is a target at its true distance, even where limits cut traces
\* (reachable_fns; the depth limit cuts by distance from any test, the trace limit by distance from this one). A path is as
\* unsafe as the calls and functions on it: a safe function that is called outside of its caller's unsafe block is not tainted
\* by that block (call_graph.rs:882; but SafeCalleesTainted).
TargetsExact ==
    WalksDone =>
        /\ \A f \in DOMAIN targets : \A t \in DOMAIN targets[f].reach : f \in TrulyReached(t)
        /\ \A t \in Tests \ truncated : \A f \in TrulyReached(t) \cap program.mutable :
            /\ f \in DOMAIN targets /\ t \in DOMAIN targets[f].reach
            /\ IsDistance({t}, f, targets[f].reach[t].distance)
            /\ IsSource(t, f, targets[f].reach[t].source)
        /\ \A f \in program.mutable : ~AtLeast(Tests, f, limits.mutation) =>
            f \in DOMAIN targets /\ IsDistance(Tests, f, targets[f].distance)

\* The comment at the walks: a safe function that unsafe code calls is tainted by the unsafe source of its caller, the
\* caller's own unsafe block included (call_graph.rs, "Safe items called from an unsafe context").
SafeCalleesTainted ==
    (WalksDone /\ limits.depth = NoLimit /\ limits.trace = NoLimit) =>
        \A c \in program.calls :
            (c[1] \in DOMAIN targets /\ c[2] \in DOMAIN targets /\ program.safety[c[2]] = NoSource) =>
                targets[c[2]].unsafety >= Tainted(IF IsUnsafeCall(c) THEN UnsafeCode ELSE program.safety[c[1]])
=============================================================================
