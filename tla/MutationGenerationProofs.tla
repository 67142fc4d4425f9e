----------------------- MODULE MutationGenerationProofs -----------------------
(***************************************************************************)
(* However many functions, tests, places and mutations there are, whatever *)
(* the limits and the batching: a test meets no mutation but the one its   *)
(* mutant sets for it. The argument runs through the whole pass, from the  *)
(* graph that is recorded distance by distance, through the walks and the  *)
(* conflicts, to the batches and the slots of the written program. And the *)
(* targets that the walks leave are exact: a 0-1 search in any order of    *)
(* the calls ends with the least distances and the most unsafe sources.    *)
(* What the operators propose compiles, as their guards are enough for     *)
(* what the compiler asks of the code in a place.                          *)
(***************************************************************************)
EXTENDS MutationGeneration

-----------------------------------------------------------------------------
(* The graph and the walks *)

\* What a queue of a walk holds.
Found == Fns \X Nat \X Nat

\* The functions that need no recording any more: recorded, left out for the depth limit, or without calls.
Handled == recorded \cup cutCallers \cup {f \in Fns : CallsOf(f) = {}}

\* What a test or a recorded function calls is handled, or still to be recorded.
GraphInv ==
    /\ program \in Programs
    /\ callers \cup found \cup recorded \cup cutCallers \subseteq Fns
    /\ \A x \in Tests \cup recorded : CalleesOf(x) \subseteq Handled \cup callers \cup found
    /\ AtDepthLimit => found = {}
    /\ phase # "graph" => callers = {} /\ found = {}

\* Which tests walk, have walked and are to walk.
WalkerInv ==
    /\ toWalk \subseteq Tests /\ walker \in Tests \cup {NoTest} /\ walker \notin toWalk
    /\ walker = NoTest => queue = <<>>
    /\ phase = "graph" => walker = NoTest /\ toWalk = Tests
    /\ phase \notin {"graph", "walk"} => walker = NoTest /\ toWalk = {}

\* Test t is recorded on function f.
Recorded(t, f) == f \in DOMAIN targets /\ t \in DOMAIN targets[f].reach

\* A function that the walk has taken from its queue.
Visited(f) ==
    /\ f \in program.mutable => Recorded(walker, f)
    /\ walker \in truncated \/ CalleesOf(f) \subseteq DOMAIN reached

FnsOf(q) == {q[i][1] : i \in DOMAIN q}

\* A walk knows what its test calls and reaches no function that the test does not reach; what it has reached it has
\* visited, or has still in its queue.
WalkInv ==
    /\ queue \in Seq(Found)
    /\ FnsOf(queue) \subseteq DOMAIN reached
    /\ walker # NoTest =>
        /\ CalleesOf(walker) \subseteq DOMAIN reached
        /\ DOMAIN reached \subseteq Handled \cap TrulyReached(walker)
        /\ \A f \in DOMAIN reached \ FnsOf(queue) : Visited(f)

\* A test is recorded on functions that it reaches only.
ReachInv ==
    /\ DOMAIN targets \subseteq program.mutable
    /\ \A f \in DOMAIN targets :
        /\ DOMAIN targets[f].reach # {}
        /\ DOMAIN targets[f].reach \subseteq {t \in Tests : f \in TrulyReached(t)}

\* A function that tests reach by safe paths only has the unsafety of its own code.
Untainted(ts) ==
    \A f \in DOMAIN ts :
        /\ \A t \in DOMAIN ts[f].reach : ts[f].reach[t].source \in Nat
        /\ (\A t \in DOMAIN ts[f].reach : ts[f].reach[t].source = NoSource) => ts[f].unsafety = ItemUnsafety(f)

TaintInv == Untainted(targets)

\* A test that has walked is recorded on all functions that it reaches and that can be mutated, unless a limit cut it.
WalkedInv ==
    \A t \in Tests \ (toWalk \cup {walker}) :
        t \in truncated \/ \A f \in TrulyReached(t) \cap program.mutable : Recorded(t, f)

-----------------------------------------------------------------------------
(* The mutations and the batches *)

Late == {"conflicts", "batch", "written"}

MutationsInv ==
    phase \in Late =>
        /\ mutations \in Seq(Range(mutations))
        /\ \A i \in DOMAIN mutations : mutations[i].fn \in DOMAIN targets

\* What the operators have for a place.
HasProposals(f, site) == Offered(site) /\ Proposed(f, site) # <<>>

\* What is made at place i of a function: something where there are proposals, and in unsafe code if the place is.
MadeAt(ms, f, i, site) ==
    /\ (\E m \in ms : m.fn = f /\ m.site = i) <=> HasProposals(f, site)
    /\ \A m \in ms : m.fn = f /\ m.site = i => m.inUnsafe = InUnsafe(f, site)

\* What is made of the selected functions.
MadeFrom(ms) ==
    \A f \in Selected :
        /\ Skipped(f) => \A m \in ms : m.fn # f
        /\ ~Skipped(f) => \A i \in DOMAIN program.sites[f] : \A site \in {program.sites[f][i]} : MadeAt(ms, f, i, site)

MadeInv == phase \in {"conflicts", "batch"} => MadeFrom(Range(mutations))

\* Mutations that do not conflict share no test, and limits hide no test of theirs.
ConflictsInv ==
    phase \in {"batch", "written"} =>
        /\ graph.n = Len(mutations)
        /\ graph.unsafes \cap graph.inProcess = {}
        /\ \A a, b \in Mutations : a # b /\ ~Conflicting(a, b) =>
            /\ TestsOf(mutations[a]) \cap TestsOf(mutations[b]) = {}
            /\ TestsOf(mutations[a]) \cap truncated = {}

BatchType == [id : Nat, mutations : SUBSET Mutations]

InBatch(m, bs) == \E i \in DOMAIN bs : m \in bs[i].mutations

\* Batches that hold no mutation twice.
Apart(bs) ==
    \A i, j \in DOMAIN bs : i # j => bs[i].id # bs[j].id /\ bs[i].mutations \cap bs[j].mutations = {}

\* Mutations without a conflict among them, as many as a batch may hold.
Fit(ms) ==
    /\ ms # {} /\ IsFiniteSet(ms)
    /\ Cardinality(ms) = 1 \/ Cardinality(ms) <= options.size
    /\ \A a, b \in ms : a # b => ~Conflicting(a, b)

\* Batches that could be left as they are.
Good(bs) == bs \in Seq(BatchType) /\ Apart(bs) /\ \A i \in DOMAIN bs : Fit(bs[i].mutations)

\* The batches so far hold no mutation that is still to be placed.
BatchesInv ==
    /\ step # "idle" => phase \in {"batch", "written"} /\ options \in MutationBatchingOptions
    /\ step \in {"place", "anneal", "batched"} => Good(batches)
    /\ step \in {"anneal", "batched"} => \A m \in Mutations : InBatch(m, batches)
    /\ step = "place" =>
        /\ \A i \in DOMAIN batches : batches[i].id = i
        /\ order \in Seq(Mutations) /\ IsInjective(order)
        /\ \A m \in Mutations : m \in ToSet(order) <=> ~InBatch(m, batches)

WrittenInv ==
    phase = "written" => step = "batched" /\ slots = WrittenSlots(mutations, program.shapes)

IInv ==
    /\ GraphInv /\ WalkerInv /\ WalkInv /\ ReachInv /\ TaintInv /\ WalkedInv
    /\ MutationsInv /\ MadeInv /\ ConflictsInv /\ BatchesInv /\ WrittenInv

-----------------------------------------------------------------------------
(* What the operators return *)

\* What a walk becomes when it finds calls of some functions: these are reached, and those of them that were not reached
\* before are queued.
Reaching(w, walk, fns) ==
    /\ w.queue \in Seq(Found)
    /\ DOMAIN w.reached = DOMAIN walk.reached \cup fns
    /\ FnsOf(walk.queue) \subseteq FnsOf(w.queue)
    /\ FnsOf(w.queue) \subseteq FnsOf(walk.queue) \cup fns
    /\ fns \subseteq DOMAIN walk.reached \cup FnsOf(w.queue)

\* One call found.
LEMMA FollowReaches ==
  ASSUME NEW walk, walk.queue \in Seq(Found), NEW call \in Found, NEW toBack \in BOOLEAN
  PROVE  Reaching(Follow(walk, call[1], call[2], call[3], toBack), walk, {call[1]})
<1> DEFINE w == Follow(walk, call[1], call[2], call[3], toBack)
           q == walk.queue
<1>1. CASE ~Improves(walk.reached, call[1], call[2], call[3])
  <2>1. w = walk
    BY <1>1 DEF Follow
  <2>2. call[1] \in DOMAIN walk.reached
    BY <1>1 DEF Improves
  <2> QED BY <2>1, <2>2 DEF Reaching
<1>2. CASE Improves(walk.reached, call[1], call[2], call[3])
  <2>1. /\ w.reached = Improve(walk.reached, call[1], call[2], call[3])
        /\ w.queue = IF toBack THEN Append(q, <<call[1], call[2], call[3]>>) ELSE <<<<call[1], call[2], call[3]>>>> \o q
    BY <1>2 DEF Follow
  <2>2. DOMAIN w.reached = DOMAIN walk.reached \cup {call[1]}
    BY <2>1, Zenon DEF Improve
  <2>3. <<call[1], call[2], call[3]>> = call
    BY DEF Found
  <2> HIDE DEF w, q
  <2>4. q \in Seq(Found)
    BY DEF q
  <2>5. CASE toBack
    <3>1. w.queue = Append(q, call)
      BY <2>1, <2>3, <2>5
    <3>2. w.queue \in Seq(Found) /\ Len(w.queue) = Len(q) + 1 /\ Len(q) \in Nat
      BY ONLY <3>1, <2>4, call \in Found
    <3>3. \A i \in 1..Len(q) : w.queue[i] = q[i]
      BY ONLY <3>1, <2>4, call \in Found
    <3>4. w.queue[Len(q) + 1] = call
      BY ONLY <3>1, <2>4, call \in Found
    <3>5. FnsOf(q) \subseteq FnsOf(w.queue) /\ call[1] \in FnsOf(w.queue)
      BY ONLY <3>2, <3>3, <3>4, <2>4 DEF FnsOf
    <3>6. FnsOf(w.queue) \subseteq FnsOf(q) \cup {call[1]}
      BY ONLY <3>2, <3>3, <3>4, <2>4 DEF FnsOf
    <3> QED BY <3>2, <3>5, <3>6, <2>2 DEF q, w, Reaching
  <2>6. CASE ~toBack
    <3>1. w.queue = <<call>> \o q
      BY <2>1, <2>3, <2>6
    <3>2. w.queue \in Seq(Found) /\ Len(w.queue) = Len(q) + 1 /\ Len(q) \in Nat
      BY ONLY <3>1, <2>4, call \in Found
    <3>3. \A i \in 1..Len(q) : w.queue[i + 1] = q[i]
      BY ONLY <3>1, <2>4, call \in Found
    <3>4. w.queue[1] = call
      BY ONLY <3>1, <2>4, call \in Found
    <3>5. FnsOf(q) \subseteq FnsOf(w.queue) /\ call[1] \in FnsOf(w.queue)
      <4>1. \A i \in DOMAIN q : i + 1 \in DOMAIN w.queue /\ w.queue[i + 1] = q[i]
        BY ONLY <3>2, <3>3, <2>4
      <4>2. 1 \in DOMAIN w.queue
        BY ONLY <3>2
      <4> QED BY ONLY <4>1, <4>2, <3>4 DEF FnsOf
    <3>6. FnsOf(w.queue) \subseteq FnsOf(q) \cup {call[1]}
      <4>1. \A i \in DOMAIN w.queue : i = 1 \/ (i - 1 \in DOMAIN q /\ w.queue[i] = q[i - 1])
        BY ONLY <3>2, <3>3, <2>4
      <4> QED BY ONLY <4>1, <3>4 DEF FnsOf
    <3> QED BY <3>2, <3>5, <3>6, <2>2 DEF q, w, Reaching
  <2> QED BY <2>5, <2>6
<1> QED BY <1>1, <1>2

\* What the recursion of FollowAll says of the walks after each of the calls.
Follows(f, walk, calls, toBack) ==
    f = [i \in 0..Len(calls) |->
            IF i = 0 THEN walk ELSE Follow(f[i - 1], calls[i][1], calls[i][2], calls[i][3], toBack)]

\* There are walks as the recursion says.
LEMMA FollowAllExists ==
  ASSUME NEW walk, NEW calls, Len(calls) \in Nat, NEW toBack
  PROVE  \E f : Follows(f, walk, calls, toBack)
<1> DEFINE Step(f, i) == IF i = 0 THEN walk
                         ELSE Follow(f[i - 1], calls[i][1], calls[i][2], calls[i][3], toBack)
           Missing == {n \in 0..Len(calls) : ~\E f : f = [i \in 0..n |-> Step(f, i)]}
<1>1. Missing \in SUBSET Nat
  OBVIOUS
<1>2. ASSUME Missing # {}
      PROVE  FALSE
  <2> HIDE DEF Missing
  <2>1. PICK n \in Missing : \A m \in Missing : n <= m
    BY <1>1, <1>2, LeastNatural
  <2>2. n # 0
    <3>1. [i \in 0..0 |-> walk] = [i \in 0..0 |-> Step([j \in 0..0 |-> walk], i)]
      OBVIOUS
    <3> QED BY <3>1 DEF Missing
  <2>3. n \in 1..Len(calls) /\ n - 1 \in 0..Len(calls) /\ n - 1 \notin Missing
    <3>1. n \in 0..Len(calls)
      BY DEF Missing
    <3> QED BY <2>1, <2>2, <3>1
  <2>4. PICK f : f = [i \in 0..(n - 1) |-> Step(f, i)]
    BY <2>3 DEF Missing
  <2> DEFINE g == [i \in 0..n |-> Step(f, i)]
  <2> HIDE DEF Step
  <2>5. \A i \in 0..(n - 1) : g[i] = f[i]
    <3> SUFFICES ASSUME NEW i \in 0..(n - 1) PROVE g[i] = f[i]
      OBVIOUS
    <3>1. f[i] = Step(f, i)
      BY <2>4
    <3>2. i \in 0..n
      BY <2>3
    <3> QED BY <3>1, <3>2
  <2>6. \A i \in 0..n : Step(g, i) = Step(f, i)
    <3> SUFFICES ASSUME NEW i \in 0..n PROVE Step(g, i) = Step(f, i)
      OBVIOUS
    <3>1. i = 0 \/ g[i - 1] = f[i - 1]
      BY <2>5, <2>3
    <3> QED BY <3>1 DEF Step
  <2>7. g = [i \in 0..n |-> Step(g, i)]
    BY <2>6
  <2> QED BY <2>1, <2>7 DEF Missing
<1>3. Len(calls) \in 0..Len(calls)
  OBVIOUS
<1> QED BY <1>2, <1>3 DEF Follows

\* The calls found, one after another.
LEMMA FollowAllReaches ==
  ASSUME NEW walk, walk.queue \in Seq(Found), NEW calls \in Seq(Found), NEW toBack \in BOOLEAN
  PROVE  Reaching(FollowAll(walk, calls, toBack), walk, FnsOf(calls))
<1> DEFINE after == CHOOSE f : Follows(f, walk, calls, toBack)
           Callees(n) == {calls[i][1] : i \in 1..n}
           Wrong == {n \in 0..Len(calls) : ~Reaching(after[n], walk, Callees(n))}
<1>1. FollowAll(walk, calls, toBack) = after[Len(calls)]
  BY DEF FollowAll, Follows
<1>2. \E f : Follows(f, walk, calls, toBack)
  <2>1. Len(calls) \in Nat
    OBVIOUS
  <2> QED BY ONLY <2>1, FollowAllExists
<1>3. Follows(after, walk, calls, toBack)
  BY <1>2
<1>4. ASSUME NEW n \in 0..Len(calls)
      PROVE  after[n] = IF n = 0 THEN walk
                        ELSE Follow(after[n - 1], calls[n][1], calls[n][2], calls[n][3], toBack)
  BY <1>3 DEF Follows
<1> HIDE DEF after
<1>5. ASSUME Wrong # {}
      PROVE  FALSE
  <2>0. Wrong \in SUBSET Nat
    OBVIOUS
  <2> HIDE DEF Wrong
  <2>1. PICK n \in Wrong : \A m \in Wrong : n <= m
    BY <2>0, <1>5, LeastNatural
  <2>2. n \in 0..Len(calls) /\ ~Reaching(after[n], walk, Callees(n))
    BY DEF Wrong
  <2>3. n # 0
    <3>1. after[0] = walk
      BY <1>4
    <3>2. Callees(0) = {}
      OBVIOUS
    <3>3. Reaching(walk, walk, Callees(0))
      BY <3>2 DEF Reaching
    <3> QED BY <3>1, <3>3, <2>2
  <2>4. n \in 1..Len(calls) /\ n - 1 \in 0..Len(calls) /\ n - 1 \notin Wrong
    BY <2>1, <2>2, <2>3
  <2>5. Reaching(after[n - 1], walk, Callees(n - 1))
    BY <2>4 DEF Wrong
  <2>6. after[n] = Follow(after[n - 1], calls[n][1], calls[n][2], calls[n][3], toBack)
    BY <2>2, <2>3, <1>4
  <2>7. calls[n] \in Found
    BY <2>4
  <2>8. Callees(n) = Callees(n - 1) \cup {calls[n][1]}
    <3>1. 1..n = 1..(n - 1) \cup {n}
      BY <2>4
    <3> QED BY <3>1
  <2> HIDE DEF Callees
  <2>9. Reaching(after[n], after[n - 1], {calls[n][1]})
    <3>1. after[n - 1].queue \in Seq(Found)
      BY <2>5 DEF Reaching
    <3>2. Reaching(Follow(after[n - 1], calls[n][1], calls[n][2], calls[n][3], toBack), after[n - 1], {calls[n][1]})
      BY ONLY <3>1, <2>7, toBack \in BOOLEAN, FollowReaches
    <3> QED BY <2>6, <3>2
  <2>10. Reaching(after[n], walk, Callees(n))
    BY <2>5, <2>8, <2>9 DEF Reaching
  <2> QED BY <2>10, <2>2
<1>6. Reaching(after[Len(calls)], walk, Callees(Len(calls)))
  <2>1. Len(calls) \in 0..Len(calls)
    OBVIOUS
  <2> HIDE DEF Callees
  <2> QED BY <2>1, <1>5
<1>7. Callees(Len(calls)) = FnsOf(calls)
  BY DEF FnsOf
<1> QED BY <1>1, <1>6, <1>7

-----------------------------------------------------------------------------
(* The steps *)

WalkAction == RecordCallers \/ NextDistance \/ (\E t \in Tests : StartWalk(t)) \/ WalkStep \/ EndWalk

\* The steps that are not of the graph and its walks leave both as they are, once the tests have walked.
LEMMA OtherSteps ==
  ASSUME [Next]_vars, ~WalkAction
  PROVE  /\ UNCHANGED graphVars
         /\ \/ phase' = phase
            \/ /\ phase # "graph" /\ phase' \notin {"graph", "walk"}
               /\ phase = "walk" => walker = NoTest /\ toWalk = {}
<1>1. CASE GraphNext
  BY <1>1, ~WalkAction DEF GraphNext, WalkAction, FinishWalks
<1>2. CASE ReadOptions \/ ApplyOperators \/ BuildConflicts \/ WriteProgram
  BY <1>2 DEF ReadOptions, ApplyOperators, BuildConflicts, WriteProgram
<1>3. CASE Batch
  BY <1>3 DEF Batch
<1>4. CASE UNCHANGED vars
  BY <1>4 DEF vars
<1> QED BY <1>1, <1>2, <1>3, <1>4 DEF Next, Graph

\* What is called and what is reached is a matter of the program.
LEMMA SameProgram ==
  ASSUME program' = program
  PROVE  /\ \A x : CallsOf(x)' = CallsOf(x) /\ CalleesOf(x)' = CalleesOf(x)
         /\ \A t : TrulyReached(t)' = TrulyReached(t)
<1>1. \A x : CallsOf(x)' = CallsOf(x)
  BY DEF CallsOf
<1>2. \A x : CalleesOf(x)' = CalleesOf(x)
  BY <1>1 DEF CalleesOf
<1>3. ASSUME NEW t
      PROVE  TrulyReached(t)' = TrulyReached(t)
  <2>1. ASSUME NEW fns
        PROVE  ClosedFrom(t, fns)' <=> ClosedFrom(t, fns)
    BY <1>2 DEF ClosedFrom
  <2> QED BY <2>1 DEF TrulyReached
<1> QED BY <1>1, <1>2, <1>3

\* Functions call functions.
LEMMA CalleesAreFns ==
  ASSUME program \in Programs, NEW x
  PROVE  CalleesOf(x) \subseteq Fns
BY ProgramsAssumption DEF CalleesOf, CallsOf

\* The rounds of the recording lose none of the functions that are called.
LEMMA GraphStep ==
  ASSUME GraphInv, [Next]_vars
  PROVE  GraphInv'
<1> USE DEF GraphInv
<1>1. CASE RecordCallers
  <2> DEFINE new == callers \ recorded
             cut == IF AtDepthLimit THEN new \cap program.counted ELSE {}
             walked == new \ cut
  <2>1. /\ program' = program /\ limits' = limits /\ distance' = distance /\ phase' = phase
        /\ recorded' = recorded \cup walked
        /\ cutCallers' = cutCallers \cup {f \in cut : CallsOf(f) # {}}
        /\ callers' = UNION {CalleesOf(f) : f \in walked \ program.counted}
        /\ found' = found \cup UNION {CalleesOf(f) : f \in walked \cap program.counted}
    BY <1>1 DEF RecordCallers
  <2>2. \A x : CallsOf(x)' = CallsOf(x) /\ CalleesOf(x)' = CalleesOf(x)
    BY <2>1, SameProgram
  <2>3. \A x : CalleesOf(x) \subseteq Fns
    BY CalleesAreFns
  <2>4. callers' \cup found' \cup recorded' \cup cutCallers' \subseteq Fns
    BY <2>1, <2>3
  <2>5. Handled \cup callers \cup found \subseteq Handled' \cup callers' \cup found'
    BY <2>1, <2>2 DEF Handled
  <2>6. \A f \in walked : CalleesOf(f) \subseteq callers' \cup found'
    BY <2>1
  <2>7. \A x \in Tests \cup recorded' : CalleesOf(x)' \subseteq Handled' \cup callers' \cup found'
    BY <2>1, <2>2, <2>5, <2>6
  <2>8. AtDepthLimit' => found' = {}
    <3>1. AtDepthLimit' <=> AtDepthLimit
      BY <2>1 DEF AtDepthLimit
    <3>2. AtDepthLimit => walked \cap program.counted = {}
      OBVIOUS
    <3> QED BY <2>1, <3>1, <3>2
  <2> QED BY <2>1, <2>4, <2>7, <2>8, <1>1 DEF RecordCallers
<1>2. CASE NextDistance
  <2>1. /\ UNCHANGED <<program, recorded, cutCallers, limits>> /\ callers = {}
        /\ \/ phase' = "walk" /\ found = {} /\ UNCHANGED <<distance, callers, found>>
           \/ phase' = phase /\ phase = "graph" /\ callers' = found /\ found' = {}
    BY <1>2 DEF NextDistance
  <2>2. \A x : CallsOf(x)' = CallsOf(x) /\ CalleesOf(x)' = CalleesOf(x)
    BY <2>1, SameProgram
  <2>3. Handled' = Handled
    BY <2>1, <2>2 DEF Handled
  <2> QED BY <2>1, <2>2, <2>3
<1>3. CASE ~(RecordCallers \/ NextDistance)
  <2>1. /\ UNCHANGED <<program, limits, distance, callers, found, recorded, cutCallers>>
        /\ phase # "graph" => phase' # "graph"
        /\ phase = "graph" => phase' = "graph"
    <3>1. CASE WalkAction
      BY <3>1, <1>3 DEF WalkAction, StartWalk, WalkStep, EndWalk
    <3>2. CASE ~WalkAction
      BY <3>2, OtherSteps DEF graphVars
    <3> QED BY <3>1, <3>2
  <2>2. \A x : CallsOf(x)' = CallsOf(x) /\ CalleesOf(x)' = CalleesOf(x)
    BY <2>1, SameProgram
  <2>3. Handled' = Handled
    BY <2>1, <2>2 DEF Handled
  <2>4. AtDepthLimit' <=> AtDepthLimit
    BY <2>1 DEF AtDepthLimit
  <2> QED BY <2>1, <2>2, <2>3, <2>4
<1> QED BY <1>1, <1>2, <1>3

\* One test walks at a time, and each of them walks once.
LEMMA WalkerStep ==
  ASSUME WalkerInv, [Next]_vars
  PROVE  WalkerInv'
<1> USE DEF WalkerInv
<1>1. CASE RecordCallers \/ NextDistance
  BY <1>1 DEF RecordCallers, NextDistance
<1>2. CASE \E t \in Tests : StartWalk(t)
  BY <1>2, FnsAssumption DEF StartWalk
<1>3. CASE WalkStep
  BY <1>3 DEF WalkStep
<1>4. CASE EndWalk
  BY <1>4, FnsAssumption DEF EndWalk
<1>5. CASE ~WalkAction
  BY <1>5, OtherSteps DEF graphVars
<1> QED BY <1>1, <1>2, <1>3, <1>4, <1>5 DEF WalkAction

\* An order of a finite set holds each of its elements, once.
LEMMA OrderHoldsAll ==
  ASSUME NEW S, IsFiniteSet(S), NEW q \in SetToSeqs(S)
  PROVE  q \in Seq(S) /\ DOMAIN q = 1..Cardinality(S) /\ ToSet(q) = S /\ IsInjective(q)
<1> DEFINE n == Cardinality(S)
<1>1. n \in Nat
  BY FS_CardinalityType
<1>2. q \in [1..n -> S] /\ \A i, j \in 1..n : i # j => q[i] # q[j]
  BY DEF SetToSeqs
<1>3. IsFiniteSet(1..n) /\ Cardinality(1..n) = n
  BY <1>1, FS_Interval
<1> HIDE DEF n
<1>4. q \in Injection(1..n, S)
  BY <1>2 DEF Injection, IsInjective
<1>5. q \in Surjection(1..n, S)
  BY <1>3, <1>4, FS_Injection DEF n
<1>6. ToSet(q) = S
  BY <1>2, <1>5 DEF Surjection, ToSet
<1>7. q \in Seq(S) /\ DOMAIN q = 1..n
  BY <1>1, <1>2
<1> QED BY <1>2, <1>6, <1>7 DEF IsInjective, n

\* The targets become new ones when test t is recorded on function f.
Records(new, t, f) ==
    /\ f \notin program.mutable => new = targets
    /\ f \in program.mutable =>
        /\ DOMAIN new = DOMAIN targets \cup {f}
        /\ DOMAIN new[f].reach = {t} \cup (IF f \in DOMAIN targets THEN DOMAIN targets[f].reach ELSE {})
        /\ \A g \in DOMAIN targets \ {f} : new[g] = targets[g]

\* What record_target changes: the function becomes a target, and the test is recorded on it.
LEMMA RecordTargetRecords ==
  ASSUME NEW t, NEW f, NEW source, NEW at
  PROVE  Records(RecordTarget(t, f, source, at), t, f)
<1>1. CASE f \notin program.mutable
  BY <1>1 DEF RecordTarget, Records
<1>2. CASE f \in program.mutable
  <2> DEFINE old == IF f \in DOMAIN targets THEN targets[f]
                    ELSE [distance |-> at, unsafety |-> ItemUnsafety(f), reach |-> <<>>]
             rec == [distance |-> Min({at, old.distance}),
                     unsafety |-> Max({Tainted(source), old.unsafety}),
                     reach |-> Improve(old.reach, t, source, at)]
  <2>1. RecordTarget(t, f, source, at) = [g \in DOMAIN targets \cup {f} |-> IF g = f THEN rec ELSE targets[g]]
    BY <1>2 DEF RecordTarget
  <2>2. DOMAIN rec.reach = DOMAIN old.reach \cup {t}
    <3>1. rec.reach = Improve(old.reach, t, source, at)
      OBVIOUS
    <3> HIDE DEF rec, old
    <3> QED BY <3>1, Zenon DEF Improve
  <2>3. DOMAIN old.reach = IF f \in DOMAIN targets THEN DOMAIN targets[f].reach ELSE {}
    OBVIOUS
  <2> HIDE DEF rec, old
  <2> QED BY <1>2, <2>1, <2>2, <2>3 DEF Records
<1> QED BY <1>1, <1>2

\* What a test calls it reaches, and so it does what a function that it reaches calls.
LEMMA ReachesOn ==
  ASSUME program \in Programs, NEW t
  PROVE  /\ CalleesOf(t) \subseteq TrulyReached(t)
         /\ \A f \in TrulyReached(t) : CalleesOf(f) \subseteq TrulyReached(t)
         /\ \A fns \in SUBSET Fns : ClosedFrom(t, fns) => TrulyReached(t) \subseteq fns
BY CalleesAreFns DEF TrulyReached, ClosedFrom

\* The calls of a function or test are finitely many.
LEMMA CallsAreFinite ==
  ASSUME program \in Programs, NEW x
  PROVE  IsFiniteSet(CallsOf(x)) /\ IsFiniteSet(CalleesOf(x))
<1> DEFINE after == [c \in CallsOf(x) |-> <<c[2], c[3]>>]
<1>1. CallsOf(x) \subseteq (Tests \cup Fns) \X Fns \X BOOLEAN
  BY ProgramsAssumption DEF CallsOf
<1>2. CalleesOf(x) \subseteq Fns
  BY CalleesAreFns
<1>3. IsFiniteSet(Fns \X BOOLEAN)
  <2>1. IsFiniteSet({TRUE}) /\ IsFiniteSet({FALSE}) /\ BOOLEAN = {TRUE} \cup {FALSE}
    BY FS_Singleton
  <2>2. IsFiniteSet(BOOLEAN)
    BY <2>1, FS_Union
  <2> QED BY <2>2, FnsAssumption, FS_Product
<1>4. after \in Injection(CallsOf(x), Fns \X BOOLEAN)
  <2>1. \A c \in CallsOf(x) : c = <<x, c[2], c[3]>> /\ <<c[2], c[3]>> \in Fns \X BOOLEAN
    BY <1>1 DEF CallsOf
  <2>2. after \in [CallsOf(x) -> Fns \X BOOLEAN]
    BY <2>1
  <2>3. \A c, d \in CallsOf(x) : after[c] = after[d] => c = d
    BY <2>1
  <2> HIDE DEF after
  <2> QED BY <2>2, <2>3 DEF Injection, IsInjective
<1>5. IsFiniteSet(CallsOf(x))
  BY <1>3, <1>4, FS_Injection
<1> QED BY <1>2, <1>5, FnsAssumption, FS_Subset

\* A walk starts with what its test calls, all of it queued.
LEMMA StartWalkFinds ==
  ASSUME GraphInv, NEW t \in Tests, StartWalk(t)
  PROVE  /\ queue' \in Seq(Found)
         /\ DOMAIN reached' = CalleesOf(t) /\ FnsOf(queue') = CalleesOf(t)
<1> DEFINE walk == [reached |-> <<>>, queue |-> <<>>]
           Calls(callees) == [i \in DOMAIN callees |-> <<callees[i], program.safety[t], 0>>]
<1>1. PICK callees \in SetToSeqs(CalleesOf(t)) :
         LET start == FollowAll(walk, Calls(callees), TRUE)
         IN queue' = start.queue /\ reached' = start.reached
  BY DEF StartWalk
<1>2. CalleesOf(t) \subseteq Fns /\ IsFiniteSet(CalleesOf(t))
  BY CalleesAreFns, CallsAreFinite DEF GraphInv
<1>3. callees \in Seq(CalleesOf(t)) /\ ToSet(callees) = CalleesOf(t)
  BY <1>1, <1>2, OrderHoldsAll
<1>4. program.safety[t] \in Nat
  BY ProgramsAssumption DEF GraphInv
<1> DEFINE calls == Calls(callees)
<1>5. calls \in Seq(Found)
  <2>1. \A i \in DOMAIN callees : callees[i] \in Fns
    BY <1>2, <1>3
  <2>2. DOMAIN callees = 1..Len(callees) /\ Len(callees) \in Nat
    BY <1>3
  <2> QED BY <2>1, <2>2, <1>4 DEF Found
<1>6. FnsOf(calls) = CalleesOf(t)
  BY <1>3 DEF FnsOf, ToSet
<1>7. walk.queue = <<>> /\ DOMAIN walk.reached = {} /\ <<>> \in Seq(Found) /\ FnsOf(<<>>) = {}
  BY DEF FnsOf
<1> DEFINE start == FollowAll(walk, calls, TRUE)
<1> HIDE DEF calls, walk, Calls
<1>8. Reaching(start, walk, FnsOf(calls))
  BY ONLY <1>5, <1>7, FollowAllReaches
<1>9. queue' = start.queue /\ reached' = start.reached
  BY <1>1 DEF calls
<1> HIDE DEF start
<1> QED BY <1>6, <1>7, <1>8, <1>9 DEF Reaching

\* A step of a walk takes a function from the queue, records the test on it, and reaches what it calls unless a limit cuts
\* the walk there.
LEMMA WalkStepFinds ==
  ASSUME GraphInv, WalkerInv, WalkInv, WalkStep
  PROVE  LET f == Head(queue)[1]
         IN  /\ walker \in Tests /\ f \in DOMAIN reached
             /\ Records(targets', walker, f)
             /\ truncated \subseteq truncated'
             /\ queue' \in Seq(Found)
             /\ DOMAIN reached \subseteq DOMAIN reached'
             /\ DOMAIN reached' \ DOMAIN reached \subseteq IF f \in recorded THEN CalleesOf(f) ELSE {}
             /\ FnsOf(queue') \subseteq DOMAIN reached'
             /\ FnsOf(queue) \subseteq FnsOf(queue') \cup {f}
             /\ DOMAIN reached' \ DOMAIN reached \subseteq FnsOf(queue')
             /\ walker \in truncated' \/ CalleesOf(f) \subseteq DOMAIN reached'
<1> DEFINE f == Head(queue)[1]
           source == Head(queue)[2]
           at == Head(queue)[3]
           counts == f \in program.counted
           next == IF counts THEN at + 1 ELSE at
           calls == IF f \in recorded THEN CallsOf(f) ELSE {}
           cut == limits.trace # NoLimit /\ next >= limits.trace
           S == IF cut THEN {} ELSE calls
           Way(c) == <<c[2], IF IsUnsafeCall(c) THEN UnsafeCode ELSE source, next>>
           walk == [reached |-> reached, queue |-> Tail(queue)]
           Ways(q) == [i \in DOMAIN q |-> Way(q[i])]
<1>1. /\ queue # <<>>
      /\ targets' = RecordTarget(walker, f, source, at)
      /\ truncated' = IF f \in cutCallers \/ (cut /\ calls # {}) THEN truncated \cup {walker} ELSE truncated
  BY DEF WalkStep
<1>2. PICK q \in SetToSeqs(S) :
         LET w == FollowAll(walk, Ways(q), counts)
         IN queue' = w.queue /\ reached' = w.reached
  BY DEF WalkStep
<1>3. walker \in Tests
  BY <1>1 DEF WalkerInv
<1>4. /\ Head(queue) \in Found /\ f \in Fns /\ source \in Nat /\ at \in Nat
      /\ Tail(queue) \in Seq(Found)
      /\ FnsOf(queue) = FnsOf(Tail(queue)) \cup {f}
  <2>1. queue \in Seq(Found) /\ queue # <<>>
    BY <1>1 DEF WalkInv
  <2>2. /\ Head(queue) = queue[1] /\ queue[1] \in Found /\ 1 \in DOMAIN queue
        /\ Tail(queue) \in Seq(Found)
        /\ ToSet(queue) = ToSet(Tail(queue)) \cup {queue[1]}
    <3> HIDE DEF Found
    <3> QED BY ONLY <2>1, PopLeaves
  <2>3. FnsOf(queue) = {x[1] : x \in ToSet(queue)} /\ FnsOf(Tail(queue)) = {x[1] : x \in ToSet(Tail(queue))}
    BY DEF FnsOf, ToSet
  <2>4. FnsOf(queue) = FnsOf(Tail(queue)) \cup {f}
    BY <2>2, <2>3
  <2> QED BY <2>2, <2>4 DEF Found
<1>5. f \in DOMAIN reached /\ f \in Handled
  BY <1>3, <1>4, FnsAssumption DEF WalkInv
<1>6. next \in Nat
  BY <1>4
<1>7. IsFiniteSet(S) /\ S \subseteq CallsOf(f)
  BY CallsAreFinite, FS_EmptySet DEF GraphInv
<1>8. q \in Seq(S) /\ ToSet(q) = S
  BY <1>2, <1>7, OrderHoldsAll
<1> HIDE DEF f, source, at, next, S, counts, calls, cut
<1>9. \A c \in S : Way(c) \in Found /\ Way(c)[1] = c[2]
  <2>1. \A c \in S : c[2] \in Fns
    BY <1>7, ProgramsAssumption DEF CallsOf, GraphInv
  <2> QED BY <2>1, <1>4, <1>6 DEF Found, UnsafeCode
<1> HIDE DEF Way
<1>10. Ways(q) \in Seq(Found)
  <2>1. \A i \in DOMAIN q : Way(q[i]) \in Found
    BY <1>8, <1>9
  <2>2. DOMAIN q = 1..Len(q) /\ Len(q) \in Nat
    BY <1>8
  <2> QED BY <2>1, <2>2
<1>11. FnsOf(Ways(q)) = {c[2] : c \in S}
  <2>1. FnsOf(Ways(q)) = {Way(c)[1] : c \in ToSet(q)}
    BY DEF FnsOf, ToSet
  <2> QED BY <2>1, <1>8, <1>9
<1>12. walk.queue = Tail(queue) /\ walk.reached = reached /\ counts \in BOOLEAN
  BY DEF counts
<1> DEFINE w == FollowAll(walk, Ways(q), counts)
<1>13. queue' = w.queue /\ reached' = w.reached
  BY <1>2
<1> HIDE DEF walk, Ways
<1>14. Reaching(w, walk, FnsOf(Ways(q)))
  BY ONLY <1>4, <1>10, <1>12, FollowAllReaches
<1> HIDE DEF w
<1>15. /\ queue' \in Seq(Found)
       /\ DOMAIN reached' = DOMAIN reached \cup {c[2] : c \in S}
       /\ FnsOf(Tail(queue)) \subseteq FnsOf(queue')
       /\ FnsOf(queue') \subseteq FnsOf(Tail(queue)) \cup {c[2] : c \in S}
       /\ {c[2] : c \in S} \subseteq DOMAIN reached \cup FnsOf(queue')
  BY <1>11, <1>12, <1>13, <1>14 DEF Reaching
<1>16. DOMAIN reached' \ DOMAIN reached \subseteq IF f \in recorded THEN CalleesOf(f) ELSE {}
  <2>1. {c[2] : c \in S} \subseteq IF f \in recorded THEN CalleesOf(f) ELSE {}
    BY DEF S, calls, CalleesOf
  <2> QED BY <2>1, <1>15
<1>17. walker \in truncated' \/ CalleesOf(f) \subseteq DOMAIN reached'
  <2>1. CASE f \in recorded /\ ~cut
    <3>1. S = CallsOf(f)
      BY <2>1 DEF S, calls
    <3> QED BY <3>1, <1>15 DEF CalleesOf
  <2>2. CASE CallsOf(f) = {}
    BY <2>2 DEF CalleesOf
  <2>3. CASE f \in recorded /\ cut /\ CallsOf(f) # {}
    BY <2>3, <1>1 DEF calls
  <2>4. CASE f \in cutCallers
    BY <2>4, <1>1
  <2> QED BY <2>1, <2>2, <2>3, <2>4, <1>5 DEF Handled
<1>18. FnsOf(queue') \subseteq DOMAIN reached'
  BY <1>4, <1>15 DEF WalkInv
<1>19. Records(targets', walker, f)
  <2>1. targets' = RecordTarget(walker, f, source, at)
    BY <1>1
  <2> QED BY <2>1, RecordTargetRecords
<1> QED BY <1>3, <1>4, <1>5, <1>1, <1>15, <1>16, <1>17, <1>18, <1>19 DEF f

\* A walk reaches what its test reaches and nothing else, and what it leaves behind it has dealt with.
LEMMA WalkInvStep ==
  ASSUME GraphInv, WalkerInv, WalkInv, [Next]_vars
  PROVE  WalkInv'
<1>1. CASE RecordCallers \/ NextDistance
  <2>1. walker = NoTest /\ UNCHANGED <<walker, queue, reached>>
    BY <1>1 DEF RecordCallers, NextDistance, WalkerInv
  <2> QED BY <2>1 DEF WalkInv, FnsOf
<1>2. ASSUME NEW t \in Tests, StartWalk(t)
      PROVE  WalkInv'
  <2>1. /\ queue' \in Seq(Found)
        /\ DOMAIN reached' = CalleesOf(t) /\ FnsOf(queue') = CalleesOf(t)
    BY <1>2, StartWalkFinds
  <2>2. /\ program' = program /\ recorded' = recorded /\ cutCallers' = cutCallers
        /\ walker' = t /\ phase = "walk"
    BY <1>2 DEF StartWalk
  <2>3. /\ \A x : CallsOf(x)' = CallsOf(x) /\ CalleesOf(x)' = CalleesOf(x)
        /\ TrulyReached(t)' = TrulyReached(t)
    BY <2>2, SameProgram
  <2>4. Handled' = Handled
    BY <2>2, <2>3 DEF Handled
  <2>5. CalleesOf(t) \subseteq Handled
    BY <2>2 DEF GraphInv
  <2>6. CalleesOf(t) \subseteq TrulyReached(t)
    BY ReachesOn DEF GraphInv
  <2>7. TrulyReached(walker)' = TrulyReached(t)
    BY <2>2, <2>3
  <2>8. CalleesOf(walker)' = CalleesOf(t)
    BY <2>2, <2>3
  <2>9. DOMAIN reached' \ FnsOf(queue)' = {} /\ FnsOf(queue)' = FnsOf(queue')
    BY <2>1 DEF FnsOf
  <2> QED BY <2>1, <2>4, <2>5, <2>6, <2>7, <2>8, <2>9 DEF WalkInv
<1>3. CASE WalkStep
  <2> DEFINE f == Head(queue)[1]
  <2>1. /\ walker \in Tests /\ f \in DOMAIN reached
        /\ Records(targets', walker, f)
        /\ truncated \subseteq truncated'
        /\ queue' \in Seq(Found)
        /\ DOMAIN reached \subseteq DOMAIN reached'
        /\ DOMAIN reached' \ DOMAIN reached \subseteq IF f \in recorded THEN CalleesOf(f) ELSE {}
        /\ FnsOf(queue') \subseteq DOMAIN reached'
        /\ FnsOf(queue) \subseteq FnsOf(queue') \cup {f}
        /\ DOMAIN reached' \ DOMAIN reached \subseteq FnsOf(queue')
        /\ walker \in truncated' \/ CalleesOf(f) \subseteq DOMAIN reached'
    BY <1>3, WalkStepFinds
  <2>2. UNCHANGED <<program, recorded, cutCallers, walker>> /\ phase = "walk"
    BY <1>3 DEF WalkStep
  <2>3. \A x : CallsOf(x)' = CallsOf(x) /\ CalleesOf(x)' = CalleesOf(x)
    BY <2>2, SameProgram
  <2>4. TrulyReached(walker)' = TrulyReached(walker)
    <3>1. PICK t : t = walker
      OBVIOUS
    <3>2. TrulyReached(t)' = TrulyReached(t)
      BY <2>2, SameProgram
    <3> QED BY <3>1, <3>2, <2>2
  <2>5. Handled' = Handled
    BY <2>2, <2>3 DEF Handled
  <2>6. walker # NoTest
    BY <2>1, FnsAssumption
  <2>7. /\ CalleesOf(walker) \subseteq DOMAIN reached
        /\ DOMAIN reached \subseteq Handled \cap TrulyReached(walker)
        /\ \A g \in DOMAIN reached \ FnsOf(queue) : Visited(g)
    BY <2>6 DEF WalkInv
  <2>8. f \in recorded => CalleesOf(f) \subseteq Handled
    BY <2>2 DEF GraphInv
  <2>9. CalleesOf(f) \subseteq TrulyReached(walker)
    BY <2>1, <2>7, ReachesOn DEF GraphInv
  <2>10. DOMAIN reached' \subseteq Handled \cap TrulyReached(walker)
    BY <2>1, <2>7, <2>8, <2>9
  <2>12. CalleesOf(walker)' = CalleesOf(walker)
    BY <2>2, <2>3
  <2> HIDE DEF f
  <2>14. ASSUME NEW g \in DOMAIN reached' \ FnsOf(queue')
         PROVE  Visited(g)'
    <3>1. CASE g = f
      <4>1. g \in program.mutable => g \in DOMAIN targets' /\ walker \in DOMAIN targets'[g].reach
        BY <3>1, <2>1 DEF Records
      <4> QED BY <3>1, <4>1, <2>1, <2>2, <2>3 DEF Visited, Recorded
    <3>2. CASE g # f
      <4>1. g \in DOMAIN reached \ FnsOf(queue)
        BY <3>2, <2>1
      <4>2. Visited(g)
        BY <4>1, <2>7
      <4>3. g \in program.mutable => g \in DOMAIN targets' /\ walker \in DOMAIN targets'[g].reach
        BY <4>2, <3>2, <2>1 DEF Visited, Recorded, Records
      <4>4. walker \in truncated' \/ CalleesOf(g) \subseteq DOMAIN reached'
        BY <4>2, <2>1 DEF Visited
      <4> QED BY <4>3, <4>4, <2>2, <2>3 DEF Visited, Recorded
    <3> QED BY <3>1, <3>2
  <2>15. FnsOf(queue)' = FnsOf(queue')
    BY DEF FnsOf
  <2> QED BY <2>1, <2>2, <2>4, <2>5, <2>7, <2>10, <2>12, <2>14, <2>15 DEF WalkInv
<1>4. CASE EndWalk
  <2>1. walker' = NoTest /\ queue' = <<>>
    BY <1>4 DEF EndWalk
  <2> QED BY <2>1 DEF WalkInv, FnsOf
<1>5. CASE ~WalkAction
  <2>1. UNCHANGED graphVars
    BY <1>5, OtherSteps
  <2>2. UNCHANGED <<program, recorded, cutCallers, walker, queue, reached, targets, truncated>>
    BY <2>1 DEF graphVars
  <2>3. \A x : CallsOf(x)' = CallsOf(x) /\ CalleesOf(x)' = CalleesOf(x)
    BY <2>2, SameProgram
  <2>4. TrulyReached(walker)' = TrulyReached(walker)
    <3>1. PICK t : t = walker
      OBVIOUS
    <3>2. TrulyReached(t)' = TrulyReached(t)
      BY <2>2, SameProgram
    <3> QED BY <3>1, <3>2, <2>2
  <2>5. Handled' = Handled
    BY <2>2, <2>3 DEF Handled
  <2>6. \A g : Visited(g)' <=> Visited(g)
    BY <2>2, <2>3 DEF Visited, Recorded
  <2>7. CalleesOf(walker)' = CalleesOf(walker)
    BY <2>2, <2>3
  <2>8. FnsOf(queue)' = FnsOf(queue)
    BY <2>2 DEF FnsOf
  <2> QED BY <2>2, <2>4, <2>5, <2>6, <2>7, <2>8 DEF WalkInv
<1> QED BY <1>1, <1>2, <1>3, <1>4, <1>5 DEF WalkAction

\* No test is recorded on a function that it does not reach.
LEMMA ReachInvStep ==
  ASSUME GraphInv, WalkerInv, WalkInv, ReachInv, [Next]_vars
  PROVE  ReachInv'
<1>1. CASE WalkStep
  <2> DEFINE f == Head(queue)[1]
  <2>1. walker \in Tests /\ f \in DOMAIN reached /\ Records(targets', walker, f)
    BY <1>1, WalkStepFinds
  <2>2. program' = program
    BY <1>1 DEF WalkStep
  <2>3. \A t : TrulyReached(t)' = TrulyReached(t)
    BY <2>2, SameProgram
  <2>4. f \in TrulyReached(walker)
    BY <2>1, FnsAssumption DEF WalkInv
  <2> HIDE DEF f
  <2>5. CASE f \notin program.mutable
    BY <2>1, <2>2, <2>3, <2>5 DEF Records, ReachInv
  <2>6. CASE f \in program.mutable
    <3>1. DOMAIN targets' \subseteq program.mutable
      BY <2>1, <2>6 DEF Records, ReachInv
    <3>2. ASSUME NEW g \in DOMAIN targets'
          PROVE  /\ DOMAIN targets'[g].reach # {}
                 /\ DOMAIN targets'[g].reach \subseteq {t \in Tests : g \in TrulyReached(t)}
      <4>1. CASE g = f
        <5>1. DOMAIN targets'[f].reach = {walker} \cup (IF f \in DOMAIN targets THEN DOMAIN targets[f].reach ELSE {})
          BY <2>1, <2>6 DEF Records
        <5>2. f \in DOMAIN targets => DOMAIN targets[f].reach \subseteq {t \in Tests : f \in TrulyReached(t)}
          BY DEF ReachInv
        <5> QED BY <4>1, <5>1, <5>2, <2>1, <2>4
      <4>2. CASE g # f
        BY <4>2, <2>1, <2>6 DEF Records, ReachInv
      <4> QED BY <4>1, <4>2
    <3> QED BY <3>1, <3>2, <2>2, <2>3 DEF ReachInv
  <2> QED BY <2>5, <2>6
<1>2. CASE ~WalkStep
  <2>1. UNCHANGED <<program, targets>>
    <3>1. CASE WalkAction
      BY <3>1, <1>2 DEF WalkAction, RecordCallers, NextDistance, StartWalk, EndWalk
    <3>2. CASE ~WalkAction
      BY <3>2, OtherSteps DEF graphVars
    <3> QED BY <3>1, <3>2
  <2>2. \A t : TrulyReached(t)' = TrulyReached(t)
    BY <2>1, SameProgram
  <2> QED BY <2>1, <2>2 DEF ReachInv
<1> QED BY <1>1, <1>2

\* The greater of two numbers.
LEMMA MaxOfTwo ==
  ASSUME NEW a \in Nat, NEW b \in Nat
  PROVE  Max({a, b}) = IF a >= b THEN a ELSE b
<1>1. \E x \in {a, b} : \A y \in {a, b} : x >= y
  OBVIOUS
<1>2. Max({a, b}) \in {a, b} /\ \A y \in {a, b} : Max({a, b}) >= y
  BY <1>1 DEF Max
<1> HIDE DEF Max
<1> QED BY <1>2

\* The safety of code is one of three.
LEMMA SafetyType ==
  ASSUME program \in Programs, NEW f \in Fns
  PROVE  /\ program.safety[f] \in 0..2
         /\ ItemUnsafety(f) = IF program.safety[f] = 0 THEN 0 ELSE 2 + program.safety[f]
<1>1. program.safety[f] \in 0..2
  BY ProgramsAssumption
<1> QED BY <1>1 DEF ItemUnsafety, NoSource, Unsafe

\* Recording a test on a function taints it by the path only.
LEMMA RecordTargetTaints ==
  ASSUME program \in Programs, NEW t, NEW f \in Fns, NEW source \in Nat, NEW at, TaintInv
  PROVE  Untainted(RecordTarget(t, f, source, at))
<1>1. CASE f \notin program.mutable
  BY <1>1 DEF RecordTarget, TaintInv
<1>2. CASE f \in program.mutable
  <2> DEFINE old == IF f \in DOMAIN targets THEN targets[f]
                    ELSE [distance |-> at, unsafety |-> ItemUnsafety(f), reach |-> <<>>]
             rec == [distance |-> Min({at, old.distance}),
                     unsafety |-> Max({Tainted(source), old.unsafety}),
                     reach |-> Improve(old.reach, t, source, at)]
             new == RecordTarget(t, f, source, at)
  <2>1. new = [g \in DOMAIN targets \cup {f} |-> IF g = f THEN rec ELSE targets[g]]
    BY <1>2 DEF RecordTarget
  <2>2. /\ \A u \in DOMAIN old.reach : old.reach[u].source \in Nat
        /\ (\A u \in DOMAIN old.reach : old.reach[u].source = NoSource) => old.unsafety = ItemUnsafety(f)
    BY DEF TaintInv, Untainted
  <2>3. rec.reach = Improve(old.reach, t, source, at) /\ rec.unsafety = Max({source, old.unsafety})
    BY DEF Tainted
  <2> HIDE DEF old, rec, new
  <2> DEFINE reach == Improve(old.reach, t, source, at)
  <2>4. DOMAIN reach = DOMAIN old.reach \cup {t}
    BY Zenon DEF Improve
  <2>5. \A u \in DOMAIN old.reach \ {t} : reach[u] = old.reach[u]
    BY DEF Improve
  <2>6. reach[t].source = IF t \in DOMAIN old.reach THEN Max({source, old.reach[t].source}) ELSE source
    BY DEF Improve
  <2> HIDE DEF reach
  <2>7. \A u \in DOMAIN reach : reach[u].source \in Nat
    <3>1. reach[t].source \in Nat
      BY <2>2, <2>6, MaxOfTwo
    <3> QED BY <2>2, <2>4, <2>5, <3>1
  <2>8. ASSUME \A u \in DOMAIN reach : reach[u].source = NoSource
        PROVE  rec.unsafety = ItemUnsafety(f)
    <3>1. source = 0 /\ (t \in DOMAIN old.reach => old.reach[t].source = 0)
      <4>1. reach[t].source = 0
        BY <2>4, <2>8 DEF NoSource
      <4>2. CASE t \in DOMAIN old.reach
        <5>1. old.reach[t].source \in Nat /\ Max({source, old.reach[t].source}) = 0
          BY <4>1, <4>2, <2>2, <2>6
        <5> QED BY <5>1, MaxOfTwo
      <4> QED BY <4>1, <4>2, <2>6
    <3>2. \A u \in DOMAIN old.reach : old.reach[u].source = NoSource
      BY <2>4, <2>5, <2>8, <3>1 DEF NoSource
    <3>3. rec.unsafety = Max({0, ItemUnsafety(f)})
      BY <2>2, <2>3, <3>1, <3>2
    <3>4. ItemUnsafety(f) \in Nat
      BY SafetyType
    <3> HIDE DEF ItemUnsafety
    <3> QED BY <3>3, <3>4, MaxOfTwo
  <2>9. ASSUME NEW g \in DOMAIN new
        PROVE  /\ \A u \in DOMAIN new[g].reach : new[g].reach[u].source \in Nat
               /\ (\A u \in DOMAIN new[g].reach : new[g].reach[u].source = NoSource) => new[g].unsafety = ItemUnsafety(g)
    <3>1. CASE g = f
      <4>1. new[g] = rec /\ rec.reach = reach
        BY <3>1, <2>1, <2>3, <2>9 DEF reach
      <4> QED BY <3>1, <4>1, <2>7, <2>8
    <3>2. CASE g # f
      <4>1. g \in DOMAIN targets /\ new[g] = targets[g]
        BY <3>2, <2>1, <2>9
      <4> QED BY <4>1 DEF TaintInv, Untainted
    <3> QED BY <3>1, <3>2
  <2> QED BY <2>9 DEF Untainted, new
<1> QED BY <1>1, <1>2

\* Only a walk taints what it reaches.
LEMMA TaintStep ==
  ASSUME GraphInv, WalkInv, TaintInv, [Next]_vars
  PROVE  TaintInv'
<1>1. ASSUME program' = program
      PROVE  \A f : ItemUnsafety(f)' = ItemUnsafety(f)
  BY <1>1 DEF ItemUnsafety
<1>2. CASE WalkStep
  <2> DEFINE f == Head(queue)[1]
             source == Head(queue)[2]
             at == Head(queue)[3]
  <2>1. targets' = RecordTarget(walker, f, source, at) /\ program' = program /\ queue # <<>>
    BY <1>2 DEF WalkStep
  <2>2. Head(queue) \in Found
    <3>1. queue \in Seq(Found)
      BY DEF WalkInv
    <3> HIDE DEF Found
    <3> QED BY ONLY <2>1, <3>1, PopLeaves
  <2>3. f \in Fns /\ source \in Nat
    BY <2>2 DEF Found
  <2> HIDE DEF f, source, at
  <2>4. Untainted(targets')
    BY <2>1, <2>3, RecordTargetTaints DEF GraphInv
  <2> QED BY <2>1, <2>4, <1>1 DEF TaintInv, Untainted
<1>3. CASE ~WalkStep
  <2>1. UNCHANGED <<program, targets>>
    <3>1. CASE WalkAction
      BY <3>1, <1>3 DEF WalkAction, RecordCallers, NextDistance, StartWalk, EndWalk
    <3>2. CASE ~WalkAction
      BY <3>2, OtherSteps DEF graphVars
    <3> QED BY <3>1, <3>2
  <2> QED BY <2>1, <1>1 DEF TaintInv, Untainted
<1> QED BY <1>2, <1>3

\* A test that a limit did not cut is recorded, when its walk ends, wherever it reaches.
LEMMA WalkedInvStep ==
  ASSUME GraphInv, WalkerInv, WalkInv, WalkedInv, [Next]_vars
  PROVE  WalkedInv'
<1>1. CASE WalkStep
  <2> DEFINE f == Head(queue)[1]
  <2>1. Records(targets', walker, f) /\ truncated \subseteq truncated'
    BY <1>1, WalkStepFinds
  <2>2. UNCHANGED <<program, toWalk, walker>>
    BY <1>1 DEF WalkStep
  <2>3. \A t : TrulyReached(t)' = TrulyReached(t)
    BY <2>2, SameProgram
  <2> HIDE DEF f
  <2>4. \A t, g : Recorded(t, g) => Recorded(t, g)'
    BY <2>1 DEF Records, Recorded
  <2> QED BY <2>1, <2>2, <2>3, <2>4 DEF WalkedInv
<1>2. ASSUME NEW t \in Tests, StartWalk(t)
      PROVE  WalkedInv'
  <2>1. /\ UNCHANGED <<program, targets, truncated>>
        /\ toWalk' \cup {walker'} = toWalk /\ walker = NoTest
    BY <1>2 DEF StartWalk
  <2>2. \A u : TrulyReached(u)' = TrulyReached(u)
    BY <2>1, SameProgram
  <2>3. \A u \in Tests : u \notin toWalk' \cup {walker'} => u \notin toWalk \cup {walker}
    BY <2>1, FnsAssumption
  <2>4. \A u, g : Recorded(u, g)' <=> Recorded(u, g)
    BY <2>1 DEF Recorded
  <2> QED BY <2>1, <2>2, <2>3, <2>4 DEF WalkedInv
<1>3. CASE EndWalk
  <2>1. /\ UNCHANGED <<program, targets, truncated, toWalk>>
        /\ walker # NoTest /\ queue = <<>> /\ walker' = NoTest
    BY <1>3 DEF EndWalk
  <2>2. \A u : TrulyReached(u)' = TrulyReached(u)
    BY <2>1, SameProgram
  <2>3. \A u, g : Recorded(u, g)' <=> Recorded(u, g)
    BY <2>1 DEF Recorded
  <2>4. FnsOf(queue) = {}
    BY <2>1 DEF FnsOf
  <2>5. /\ CalleesOf(walker) \subseteq DOMAIN reached
        /\ DOMAIN reached \subseteq Handled \cap TrulyReached(walker)
        /\ \A f \in DOMAIN reached : Visited(f)
    BY <2>1, <2>4 DEF WalkInv
  <2>6. ASSUME walker \notin truncated
        PROVE  \A f \in TrulyReached(walker) \cap program.mutable : Recorded(walker, f)
    <3>1. ClosedFrom(walker, DOMAIN reached)
      BY <2>5, <2>6 DEF ClosedFrom, Visited
    <3>2. DOMAIN reached \in SUBSET Fns
      BY <2>5 DEF TrulyReached
    <3>3. TrulyReached(walker) \subseteq DOMAIN reached
      BY <3>1, <3>2, ReachesOn DEF GraphInv
    <3> QED BY <3>3, <2>5 DEF Visited
  <2>7. \A u \in Tests : u \notin toWalk' \cup {walker'} => u \notin toWalk \cup {walker} \/ u = walker
    BY <2>1
  <2> QED BY <2>1, <2>2, <2>3, <2>6, <2>7 DEF WalkedInv
<1>4. CASE ~(WalkStep \/ EndWalk \/ \E t \in Tests : StartWalk(t))
  <2>1. UNCHANGED <<program, targets, truncated, toWalk, walker>>
    <3>1. CASE WalkAction
      BY <3>1, <1>4 DEF WalkAction, RecordCallers, NextDistance
    <3>2. CASE ~WalkAction
      BY <3>2, OtherSteps DEF graphVars
    <3> QED BY <3>1, <3>2
  <2>2. \A u : TrulyReached(u)' = TrulyReached(u)
    BY <2>1, SameProgram
  <2>3. \A u, g : Recorded(u, g)' <=> Recorded(u, g)
    BY <2>1 DEF Recorded
  <2> QED BY <2>1, <2>2, <2>3 DEF WalkedInv
<1> QED BY <1>1, <1>2, <1>3, <1>4

-----------------------------------------------------------------------------
(* The mutations *)

\* What the recursion of FlattenSeq says of the sequences joined so far.
Flattens(f, seqs) == f = [i \in 1..Len(seqs) |-> IF i = 1 THEN seqs[i] ELSE f[i - 1] \o seqs[i]]

\* There are joined sequences as the recursion says.
LEMMA FlattenExists ==
  ASSUME NEW seqs, Len(seqs) \in Nat
  PROVE  \E f : Flattens(f, seqs)
<1> DEFINE Step(f, i) == IF i = 1 THEN seqs[i] ELSE f[i - 1] \o seqs[i]
           Missing == {n \in 0..Len(seqs) : ~\E f : f = [i \in 1..n |-> Step(f, i)]}
<1>1. Missing \in SUBSET Nat
  <2>1. Missing \subseteq 0..Len(seqs)
    BY Zenon
  <2> HIDE DEF Missing
  <2> QED BY <2>1
<1>2. ASSUME Missing # {}
      PROVE  FALSE
  <2> HIDE DEF Missing
  <2>1. PICK n \in Missing : \A m \in Missing : n <= m
    BY <1>1, <1>2, LeastNatural
  <2>2. n # 0
    <3>1. [i \in 1..0 |-> 0] = [i \in 1..0 |-> Step([j \in 1..0 |-> 0], i)]
      OBVIOUS
    <3> QED BY <3>1 DEF Missing
  <2>3. n \in 1..Len(seqs) /\ n - 1 \in 0..Len(seqs) /\ n - 1 \notin Missing
    <3>1. n \in 0..Len(seqs)
      BY DEF Missing
    <3> QED BY <2>1, <2>2, <3>1
  <2>4. PICK f : f = [i \in 1..(n - 1) |-> Step(f, i)]
    BY <2>3 DEF Missing
  <2> DEFINE g == [i \in 1..n |-> Step(f, i)]
  <2> HIDE DEF Step
  <2>5. \A i \in 1..(n - 1) : g[i] = f[i]
    <3> SUFFICES ASSUME NEW i \in 1..(n - 1) PROVE g[i] = f[i]
      OBVIOUS
    <3>1. f[i] = Step(f, i)
      BY <2>4
    <3>2. i \in 1..n
      BY <2>3
    <3> QED BY <3>1, <3>2
  <2>6. \A i \in 1..n : Step(g, i) = Step(f, i)
    <3> SUFFICES ASSUME NEW i \in 1..n PROVE Step(g, i) = Step(f, i)
      OBVIOUS
    <3>1. i = 1 \/ i - 1 \in 1..(n - 1)
      BY <2>3
    <3>2. i = 1 \/ g[i - 1] = f[i - 1]
      BY ONLY <3>1, <2>5
    <3> HIDE DEF g
    <3> QED BY <3>2 DEF Step
  <2>7. g = [i \in 1..n |-> Step(g, i)]
    BY <2>6
  <2> QED BY <2>1, <2>7 DEF Missing
<1>3. Len(seqs) \in 0..Len(seqs)
  OBVIOUS
<1> QED BY <1>2, <1>3 DEF Flattens

\* A sequence that holds what the first n sequences hold.
Holds(joined, T, seqs, n) == joined \in Seq(T) /\ Range(joined) = UNION {Range(seqs[i]) : i \in 1..n}

\* What two sequences hold their concatenation holds.
LEMMA ConcatHolds ==
  ASSUME NEW T, NEW q \in Seq(T), NEW r \in Seq(T)
  PROVE  q \o r \in Seq(T) /\ Range(q \o r) = Range(q) \cup Range(r)
<1> DEFINE p == q \o r
<1>1. /\ p \in Seq(T) /\ Len(p) = Len(q) + Len(r) /\ Len(q) \in Nat /\ Len(r) \in Nat
      /\ DOMAIN p = 1..Len(p) /\ DOMAIN q = 1..Len(q) /\ DOMAIN r = 1..Len(r)
  OBVIOUS
<1>2. \A i \in 1..Len(q) : p[i] = q[i]
  OBVIOUS
<1>3. \A i \in 1..Len(r) : p[Len(q) + i] = r[i]
  OBVIOUS
<1> HIDE DEF p
<1>4. \A i \in 1..Len(q) : i \in 1..Len(p)
  BY <1>1
<1>5. \A i \in 1..Len(r) : Len(q) + i \in 1..Len(p)
  BY <1>1
<1>6. \A i \in 1..Len(p) : i \in 1..Len(q) \/ (i - Len(q) \in 1..Len(r) /\ p[i] = r[i - Len(q)])
  <2> TAKE i \in 1..Len(p)
  <2>1. i \in 1..Len(q) \/ (i - Len(q) \in 1..Len(r) /\ Len(q) + (i - Len(q)) = i)
    BY <1>1
  <2> QED BY <2>1, <1>3
<1>7. Range(q) \subseteq Range(p)
  BY ONLY <1>1, <1>2, <1>4 DEF Range
<1>8. Range(r) \subseteq Range(p)
  BY ONLY <1>1, <1>3, <1>5 DEF Range
<1>9. Range(p) \subseteq Range(q) \cup Range(r)
  BY ONLY <1>1, <1>2, <1>6 DEF Range
<1> QED BY <1>1, <1>7, <1>8, <1>9 DEF p

\* Sequences of some elements are joined to a sequence of these elements, and of all of them.
LEMMA FlattenHolds ==
  ASSUME NEW T, NEW seqs \in Seq(Seq(T))
  PROVE  FlattenSeq(seqs) \in Seq(T) /\ Range(FlattenSeq(seqs)) = UNION {Range(seqs[i]) : i \in DOMAIN seqs}
<1> DEFINE joined == CHOOSE f : Flattens(f, seqs)
           Wrong == {n \in 1..Len(seqs) : ~Holds(joined[n], T, seqs, n)}
<1>1. CASE Len(seqs) = 0
  <2>1. seqs = <<>> /\ DOMAIN seqs = {}
    BY <1>1
  <2>2. FlattenSeq(seqs) = <<>> /\ Range(<<>>) = {}
    BY <1>1, <2>1 DEF FlattenSeq, Range
  <2>3. UNION {Range(seqs[i]) : i \in DOMAIN seqs} = {}
    BY ONLY <2>1
  <2>4. <<>> \in Seq(T)
    OBVIOUS
  <2> QED BY ONLY <2>2, <2>3, <2>4
<1>2. CASE Len(seqs) # 0
  <2>1. FlattenSeq(seqs) = joined[Len(seqs)]
    BY <1>2 DEF FlattenSeq, Flattens
  <2>2. \E f : Flattens(f, seqs)
    <3>1. Len(seqs) \in Nat
      OBVIOUS
    <3> QED BY ONLY <3>1, FlattenExists
  <2>3. Flattens(joined, seqs)
    BY <2>2
  <2>4. ASSUME NEW n \in 1..Len(seqs)
        PROVE  joined[n] = IF n = 1 THEN seqs[n] ELSE joined[n - 1] \o seqs[n]
    BY <2>3 DEF Flattens
  <2> HIDE DEF joined
  <2>5. ASSUME Wrong # {}
        PROVE  FALSE
    <3>0. Wrong \in SUBSET Nat
      OBVIOUS
    <3> HIDE DEF Wrong
    <3>1. PICK n \in Wrong : \A m \in Wrong : n <= m
      BY <3>0, <2>5, LeastNatural
    <3>2. n \in 1..Len(seqs) /\ ~Holds(joined[n], T, seqs, n)
      BY DEF Wrong
    <3>3. seqs[n] \in Seq(T)
      BY <3>2
    <3>4. n # 1
      <4>1. 1..1 = {1}
        OBVIOUS
      <4>2. Holds(seqs[n], T, seqs, n) \/ n # 1
        BY ONLY <3>3, <4>1 DEF Holds
      <4> QED BY <3>2, <4>2, <2>4
    <3>5. n - 1 \in 1..Len(seqs) /\ n - 1 \notin Wrong
      BY <3>1, <3>2, <3>4
    <3>6. Holds(joined[n - 1], T, seqs, n - 1)
      BY <3>5 DEF Wrong
    <3>7. joined[n] = joined[n - 1] \o seqs[n]
      BY <3>2, <3>4, <2>4
    <3>8. /\ joined[n - 1] \o seqs[n] \in Seq(T)
          /\ Range(joined[n - 1] \o seqs[n]) = Range(joined[n - 1]) \cup Range(seqs[n])
      <4>1. joined[n - 1] \in Seq(T)
        BY <3>6 DEF Holds
      <4> QED BY ONLY <3>3, <4>1, ConcatHolds
    <3>9. 1..n = 1..(n - 1) \cup {n}
      <4>1. n \in Nat /\ n >= 1
        BY <3>2
      <4> QED BY ONLY <4>1
    <3>10. Holds(joined[n], T, seqs, n)
      BY ONLY <3>6, <3>7, <3>8, <3>9 DEF Holds
    <3> QED BY <3>2, <3>10
  <2>6. Len(seqs) \in 1..Len(seqs) /\ DOMAIN seqs = 1..Len(seqs)
    BY <1>2
  <2>7. Holds(joined[Len(seqs)], T, seqs, Len(seqs))
    BY <2>5, <2>6
  <2> QED BY <2>1, <2>6, <2>7 DEF Holds
<1> QED BY <1>1, <1>2

\* The mutations of a target are of that function, and of each place that has proposals.
LEMMA MutationsOfHold ==
  ASSUME program \in Programs, NEW f \in program.mutable
  PROVE  /\ MutationsOf(f) \in Seq(Range(MutationsOf(f)))
         /\ \A m \in Range(MutationsOf(f)) : m.fn = f
         /\ \A i \in DOMAIN program.sites[f] : MadeAt(Range(MutationsOf(f)), f, i, program.sites[f][i])
<1> DEFINE sites == program.sites[f]
           Made(i) == LET site == program.sites[f][i]
                          header == site.node \in {"fn", "param"}
                          proposals == IF Offered(site) THEN Proposed(f, site) ELSE <<>>
                      IN [k \in DOMAIN proposals |->
                            [fn |-> f, site |-> i, inUnsafe |-> InUnsafe(f, site), op |-> proposals[k][1], code |-> proposals[k][2],
                             loc |-> IF header THEN 0 ELSE i, local |-> site.node = "param"]]
           made == [i \in DOMAIN sites |-> Made(i)]
           T == UNION {Range(Made(i)) : i \in DOMAIN sites}
<1>1. sites \in Seq(Range(sites)) /\ \A i \in DOMAIN sites : sites[i].place \in DOMAIN Places
  BY PlacesAssumption
<1>2. program.localOnly \in BOOLEAN
  BY PlacesAssumption
<1>3. ASSUME NEW i \in DOMAIN sites
      PROVE  Made(i) \in Seq(T) /\ (DOMAIN Made(i) # {} <=> HasProposals(f, sites[i]))
  <2> DEFINE site == sites[i]
             proposals == IF Offered(site) THEN Proposed(f, site) ELSE <<>>
  <2>1. (\E n \in Nat : DOMAIN proposals = 1..n) /\ (DOMAIN proposals # {} <=> HasProposals(f, site))
    <3>1. CASE Offered(site)
      <4> DEFINE back == RefersBack(f, Places[site.place])
                 P == Proposals(Places[site.place], back, program.localOnly)
      <4>1. back \in BOOLEAN /\ site.place \in DOMAIN Places
        BY <1>1 DEF RefersBack
      <4>2. IsFiniteSet(P)
        BY <4>1, <1>2, PlacesAssumption
      <4>3. Proposed(f, site) = Enumerated(P)
        <5> DEFINE table == ProposalsAt[site.place]
        <5>1. Proposed(f, site) = table[back][program.localOnly]
          BY DEF Proposed
        <5>2. table = [refersBack \in BOOLEAN |-> [localOnly \in BOOLEAN |->
                          Enumerated(Proposals(Places[site.place], refersBack, localOnly))]]
          BY <4>1, Zenon DEF ProposalsAt
        <5> HIDE DEF table, back, site
        <5>3. table[back] = [localOnly \in BOOLEAN |-> Enumerated(Proposals(Places[site.place], back, localOnly))]
          BY ONLY <4>1, <5>2, Zenon
        <5>4. table[back][program.localOnly] = Enumerated(Proposals(Places[site.place], back, program.localOnly))
          BY ONLY <1>2, <5>3, Zenon
        <5> QED BY ONLY <5>1, <5>4 DEF P
      <4>4. Cardinality(P) \in Nat
        BY <4>2, FS_CardinalityType
      <4> HIDE DEF P
      <4>5. DOMAIN Enumerated(P) = 1..Cardinality(P) /\ (DOMAIN Enumerated(P) # {} <=> Enumerated(P) # <<>>)
        <5> DEFINE e == Enumerated(P)
        <5>1. DOMAIN e = 1..Cardinality(P)
          BY DEF Enumerated
        <5>2. e = [k \in 1..Cardinality(P) |-> e[k]]
          <6> DEFINE taken[j \in 0..Cardinality(P)] ==
                       IF j = 0 THEN {} ELSE taken[j - 1] \cup {CHOOSE x \in P \ taken[j - 1] : TRUE}
                     At(k) == CHOOSE x \in P \ taken[k - 1] : TRUE
          <6>1. e = [k \in 1..Cardinality(P) |-> At(k)]
            BY Zenon DEF Enumerated
          <6> HIDE DEF e, At
          <6> QED BY <6>1
        <5> HIDE DEF e
        <5>3. e \in Seq({e[k] : k \in 1..Cardinality(P)})
          BY ONLY <4>4, <5>1, <5>2
        <5>4. DOMAIN e # {} <=> e # <<>>
          BY ONLY <5>3
        <5> QED BY <5>1, <5>4 DEF e
      <4>6. proposals = Enumerated(P) /\ (HasProposals(f, site) <=> Enumerated(P) # <<>>)
        BY <3>1, <4>3 DEF HasProposals
      <4> HIDE DEF proposals
      <4> QED BY <4>4, <4>5, <4>6
    <3>2. CASE ~Offered(site)
      BY <3>2 DEF HasProposals
    <3> QED BY <3>1, <3>2
  <2>2. DOMAIN Made(i) = DOMAIN proposals
    OBVIOUS
  <2>3. \A k \in DOMAIN Made(i) : Made(i)[k] \in T
    <3> HIDE DEF Made
    <3> QED BY DEF Range
  <2>4. Made(i) = [k \in DOMAIN Made(i) |-> Made(i)[k]]
    OBVIOUS
  <2> HIDE DEF Made, T, proposals
  <2> QED BY <2>1, <2>2, <2>3, <2>4
<1>4. ASSUME NEW i \in DOMAIN sites, NEW m \in Range(Made(i))
      PROVE  m.fn = f /\ m.site = i /\ m.inUnsafe = InUnsafe(f, sites[i])
  <2>1. ASSUME NEW k \in DOMAIN Made(i)
        PROVE  Made(i)[k].fn = f /\ Made(i)[k].site = i /\ Made(i)[k].inUnsafe = InUnsafe(f, sites[i])
    OBVIOUS
  <2> HIDE DEF Made
  <2>2. PICK k \in DOMAIN Made(i) : m = Made(i)[k]
    BY DEF Range
  <2> QED BY <2>1, <2>2
<1>5. MutationsOf(f) = FlattenSeq(made)
  BY DEF MutationsOf
<1> HIDE DEF T, Made
<1>6. made \in Seq(Seq(T)) /\ DOMAIN made = DOMAIN sites /\ \A i \in DOMAIN sites : made[i] = Made(i)
  BY <1>1, <1>3
<1> HIDE DEF made
<1>7. MutationsOf(f) \in Seq(T) /\ Range(MutationsOf(f)) = UNION {Range(made[i]) : i \in DOMAIN made}
  BY ONLY <1>5, <1>6, FlattenHolds
<1>8. Range(MutationsOf(f)) = T
  BY ONLY <1>6, <1>7 DEF T
<1> HIDE DEF MutationsOf
<1>9. \A m \in T : m.fn = f
  BY <1>4 DEF T
<1>10. ASSUME NEW i \in DOMAIN sites
       PROVE  MadeAt(T, f, i, sites[i])
  <2>1. \A m \in T : m.site = i => m \in Range(Made(i))
    BY <1>4 DEF T
  <2>2. Range(Made(i)) \subseteq T
    BY DEF T
  <2>3. Range(Made(i)) # {} <=> HasProposals(f, sites[i])
    BY <1>3 DEF Range
  <2>4. \A m \in Range(Made(i)) : m.fn = f /\ m.site = i /\ m.inUnsafe = InUnsafe(f, sites[i])
    BY <1>4
  <2> QED BY <2>1, <2>2, <2>3, <2>4 DEF MadeAt
<1> QED BY <1>7, <1>8, <1>9, <1>10

\* Sorting a set by distinct keys gives an order of its elements.
LEMMA SortedOrders ==
  ASSUME NEW S, IsFiniteSet(S), NEW key \in [S -> Int], \A x, y \in S : key[x] = key[y] => x = y
  PROVE  SortedBy(S, key) \in SetToSeqs(S)
<1> DEFINE n == Cardinality(S)
           Before(x) == {y \in S : key[y] < key[x]}
           rank == [x \in S |-> Cardinality(Before(x))]
           Ranks == 0..(n - 1)
<1>1. n \in Nat
  BY FS_CardinalityType
<1>2. ASSUME NEW x \in S
      PROVE  rank[x] \in Ranks
  <2>1. Before(x) \subseteq S \ {x}
    OBVIOUS
  <2>2. IsFiniteSet(S \ {x}) /\ Cardinality(S \ {x}) = n - 1
    BY FS_RemoveElement
  <2>3. Cardinality(Before(x)) \in Nat /\ Cardinality(Before(x)) <= n - 1
    <3> HIDE DEF Before, n
    <3>1. IsFiniteSet(Before(x)) /\ Cardinality(Before(x)) <= n - 1
      BY <2>1, <2>2, FS_Subset
    <3> QED BY <3>1, FS_CardinalityType
  <2> HIDE DEF Before
  <2> QED BY <2>3, <1>1
<1>3. ASSUME NEW x \in S, NEW y \in S, key[x] < key[y]
      PROVE  rank[x] < rank[y]
  <2>1. Before(x) \cup {x} \subseteq Before(y) /\ x \notin Before(x) /\ Before(y) \subseteq S
    BY <1>3
  <2>2. rank[x] = Cardinality(Before(x)) /\ rank[y] = Cardinality(Before(y))
    OBVIOUS
  <2> HIDE DEF Before, rank
  <2>3. IsFiniteSet(Before(y)) /\ IsFiniteSet(Before(x))
    BY <2>1, FS_Subset
  <2>4. Cardinality(Before(x) \cup {x}) = Cardinality(Before(x)) + 1
    BY <2>1, <2>3, FS_AddElement
  <2>5. Cardinality(Before(x) \cup {x}) <= Cardinality(Before(y))
    BY <2>1, <2>3, FS_Subset
  <2>6. Cardinality(Before(x)) \in Nat /\ Cardinality(Before(y)) \in Nat
    BY <2>3, FS_CardinalityType
  <2> QED BY <2>2, <2>4, <2>5, <2>6
<1>4. \A x, y \in S : rank[x] = rank[y] => x = y
  <2> HIDE DEF rank, Ranks
  <2>1. \A x \in S : rank[x] \in Int
    BY <1>2, <1>1 DEF Ranks
  <2>2. \A x, y \in S : x = y \/ key[x] < key[y] \/ key[y] < key[x]
    OBVIOUS
  <2> QED BY <2>1, <2>2, <1>3
<1>5. rank \in Injection(S, Ranks)
  <2>1. rank \in [S -> Ranks]
    <3> HIDE DEF Before, Ranks
    <3> QED BY <1>2
  <2> HIDE DEF rank, Ranks
  <2> QED BY <2>1, <1>4 DEF Injection, IsInjective
<1>6. IsFiniteSet(Ranks) /\ Cardinality(Ranks) = n
  <2> HIDE DEF n
  <2> QED BY <1>1, FS_Interval
<1>7. rank \in Surjection(S, Ranks)
  <2> HIDE DEF rank, Ranks
  <2> QED BY <1>5, <1>6, FS_Injection
<1>8. \A i \in 1..n : \E x \in S : rank[x] = i - 1
  <2>1. \A r \in Ranks : \E x \in S : rank[x] = r
    <3> HIDE DEF rank, Ranks
    <3> QED BY <1>7 DEF Surjection
  <2>2. \A i \in 1..n : i - 1 \in Ranks
    BY <1>1
  <2> HIDE DEF rank, Ranks, n
  <2> QED BY <2>1, <2>2
<1> DEFINE sorted == SortedBy(S, key)
<1>9. \A i \in 1..n : sorted[i] = CHOOSE x \in S : rank[x] = i - 1
  <2>1. ASSUME NEW i \in 1..n
        PROVE  sorted[i] = CHOOSE x \in S : Cardinality(Before(x)) = i - 1
    BY DEF SortedBy
  <2>2. ASSUME NEW i \in 1..n
        PROVE  (CHOOSE x \in S : Cardinality(Before(x)) = i - 1) = CHOOSE x \in S : rank[x] = i - 1
    <3>1. \A x \in S : rank[x] = Cardinality(Before(x))
      OBVIOUS
    <3> HIDE DEF rank, Before
    <3> QED BY <3>1
  <2> QED BY <2>1, <2>2
<1> HIDE DEF rank
<1>10. \A i \in 1..n : sorted[i] \in S /\ rank[sorted[i]] = i - 1
  <2> HIDE DEF sorted, n
  <2> QED BY <1>8, <1>9
<1>11. sorted = [i \in 1..n |-> sorted[i]]
  <2> DEFINE At(i) == CHOOSE x \in S : Cardinality(Before(x)) = i - 1
  <2>1. sorted = [i \in 1..n |-> At(i)]
    BY Zenon DEF SortedBy
  <2> HIDE DEF At, sorted
  <2> QED BY <2>1
<1> HIDE DEF sorted, n
<1>12. sorted \in [1..n -> S] /\ \A i, j \in 1..n : i # j => sorted[i] # sorted[j]
  BY <1>10, <1>11, <1>1
<1> QED BY <1>12 DEF SetToSeqs, sorted, n

\* The mutations are those of the targets that are selected and not skipped.
LEMMA AppliedMutations ==
  ASSUME GraphInv, ReachInv, ApplyOperators
  PROVE  /\ mutations' \in Seq(Range(mutations'))
         /\ Range(mutations') = UNION {Range(MutationsOf(f)) : f \in {g \in Selected : ~Skipped(g)}}
<1> DEFINE n == Cardinality(Selected)
           sorted == SortedBy(Selected, [f \in Selected |-> f])
           Made(i) == IF Skipped(sorted[i]) THEN <<>> ELSE MutationsOf(sorted[i])
           made == [i \in 1..n |-> Made(i)]
           T == UNION {Range(MutationsOf(f)) : f \in {g \in Selected : ~Skipped(g)}}
<1>1. mutations' = FlattenSeq(made)
  BY DEF ApplyOperators
<1>2. Selected \subseteq program.mutable /\ Selected \subseteq Fns
  BY ProgramsAssumption DEF Selected, ReachInv, GraphInv
<1>3. IsFiniteSet(Selected)
  BY <1>2, FnsAssumption, FS_Subset
<1>4. n \in Nat
  BY <1>3, FS_CardinalityType
<1>5. DOMAIN sorted = 1..n /\ Selected = {sorted[i] : i \in 1..n}
  <2>1. [f \in Selected |-> f] \in [Selected -> Int]
    <3>1. Selected \subseteq Fns
      BY <1>2
    <3>2. \A f \in Selected : f \in Int
      BY ONLY <3>1, FnsAssumption
    <3> QED BY <3>2
  <2>2. sorted \in SetToSeqs(Selected)
    BY <1>3, <2>1, SortedOrders
  <2>3. DOMAIN sorted = 1..n /\ ToSet(sorted) = Selected
    BY <1>3, <2>2, OrderHoldsAll
  <2> HIDE DEF sorted, n
  <2> QED BY ONLY <2>3 DEF ToSet
<1> HIDE DEF sorted, n
<1>6. ASSUME NEW i \in 1..n
      PROVE  Made(i) \in Seq(T) /\ Range(Made(i)) = IF Skipped(sorted[i]) THEN {} ELSE Range(MutationsOf(sorted[i]))
  <2>1. sorted[i] \in Selected
    BY <1>5
  <2>2. CASE Skipped(sorted[i])
    <3>1. Made(i) = <<>> /\ <<>> \in Seq(T) /\ Range(<<>>) = {}
      BY <2>2 DEF Range
    <3> QED BY ONLY <2>2, <3>1
  <2>3. CASE ~Skipped(sorted[i])
    <3>1. MutationsOf(sorted[i]) \in Seq(Range(MutationsOf(sorted[i])))
      BY <1>2, <2>1, MutationsOfHold DEF GraphInv
    <3>2. Range(MutationsOf(sorted[i])) \subseteq T
      BY <2>1, <2>3
    <3>3. MutationsOf(sorted[i]) \in Seq(T)
      <4> HIDE DEF T
      <4> QED BY ONLY <3>1, <3>2, SeqMonotonic
    <3> QED BY <2>3, <3>3
  <2> QED BY <2>2, <2>3
<1> HIDE DEF Made, T
<1>7. made \in Seq(Seq(T)) /\ DOMAIN made = 1..n /\ \A i \in 1..n : made[i] = Made(i)
  BY <1>4, <1>6
<1> HIDE DEF made
<1>8. mutations' \in Seq(T) /\ Range(mutations') = UNION {Range(made[i]) : i \in DOMAIN made}
  BY ONLY <1>1, <1>7, FlattenHolds
<1>9. UNION {Range(made[i]) : i \in DOMAIN made} = T
  <2>1. ASSUME NEW i \in 1..n
        PROVE  Range(made[i]) \subseteq T
    BY <1>5, <1>6, <1>7 DEF T
  <2>2. ASSUME NEW m \in T
        PROVE  \E i \in 1..n : m \in Range(made[i])
    <3>1. PICK f \in Selected : ~Skipped(f) /\ m \in Range(MutationsOf(f))
      BY DEF T
    <3>2. PICK i \in 1..n : f = sorted[i]
      BY <1>5
    <3> QED BY <1>6, <1>7, <3>1, <3>2
  <2> QED BY <1>7, <2>1, <2>2
<1>10. Range(mutations') = T /\ mutations' \in Seq(Range(mutations'))
  BY <1>8, <1>9
<1> QED BY <1>10 DEF T

\* What is made of the targets are mutations of targets.
LEMMA MutationsStep ==
  ASSUME GraphInv, ReachInv, MutationsInv, [Next]_vars
  PROVE  MutationsInv'
<1>1. CASE ApplyOperators
  <2>1. /\ mutations' \in Seq(Range(mutations'))
        /\ Range(mutations') = UNION {Range(MutationsOf(f)) : f \in {g \in Selected : ~Skipped(g)}}
    BY <1>1, AppliedMutations
  <2>2. Selected \subseteq DOMAIN targets /\ Selected \subseteq program.mutable /\ targets' = targets
    BY <1>1 DEF Selected, ReachInv, ApplyOperators, graphVars
  <2>3. ASSUME NEW m \in Range(mutations')
        PROVE  m.fn \in DOMAIN targets
    <3>1. PICK f \in Selected : m \in Range(MutationsOf(f))
      BY <2>1
    <3>2. m.fn = f
      BY <2>2, <3>1, MutationsOfHold DEF GraphInv
    <3> QED BY <2>2, <3>2
  <2>4. \A i \in DOMAIN mutations' : mutations'[i].fn \in DOMAIN targets'
    BY <2>2, <2>3 DEF Range
  <2>5. Range(mutations)' = Range(mutations')
    BY DEF Range
  <2> QED BY <2>1, <2>4, <2>5 DEF MutationsInv
<1>2. CASE ~ApplyOperators
  <2>1. phase' \in Late => phase \in Late /\ UNCHANGED <<mutations, targets>>
    <3>1. CASE WalkAction
      BY <3>1 DEF WalkAction, RecordCallers, NextDistance, StartWalk, WalkStep, EndWalk, Late
    <3>2. CASE ~WalkAction
      <4>1. UNCHANGED targets
        BY <3>2, OtherSteps DEF graphVars
      <4>2. phase' \in Late => phase \in Late /\ UNCHANGED mutations
        <5>1. CASE Graph
          BY <5>1, <3>2 DEF Graph, GraphNext, WalkAction, FinishWalks, Late
        <5>2. CASE ReadOptions \/ BuildConflicts \/ WriteProgram
          BY <5>2 DEF ReadOptions, BuildConflicts, WriteProgram, Late
        <5>3. CASE Batch
          BY <5>3 DEF Batch
        <5>4. CASE UNCHANGED vars
          BY <5>4 DEF vars
        <5> QED BY <5>1, <5>2, <5>3, <5>4, <1>2 DEF Next
      <4> QED BY <4>1, <4>2
    <3> QED BY <3>1, <3>2
  <2>2. UNCHANGED mutations => Range(mutations)' = Range(mutations)
    BY DEF Range
  <2> QED BY <2>1, <2>2 DEF MutationsInv
<1> QED BY <1>1, <1>2

\* What is made of the functions is a matter of the program, its targets and the options.
LEMMA SameMade ==
  ASSUME UNCHANGED <<program, limits, targets, mode, filter>>
  PROVE  \A ms : ms = Range(mutations') => (MadeFrom(Range(mutations))' <=> MadeFrom(ms))
<1>1. Selected' = Selected /\ \A f : Skipped(f)' <=> Skipped(f)
  BY DEF Selected, Skipped
<1>2. \A f, site : InUnsafe(f, site)' = InUnsafe(f, site)
  BY DEF InUnsafe
<1>3. ASSUME NEW f, NEW site
      PROVE  HasProposals(f, site)' <=> HasProposals(f, site)
  <2>1. Offered(site)' <=> Offered(site)
    BY DEF Offered
  <2>2. RefersBack(f, Places[site.place])' = RefersBack(f, Places[site.place])
    BY SameProgram DEF RefersBack
  <2>3. Proposed(f, site)' = Proposed(f, site)
    <3>1. ASSUME NEW back, RefersBack(f, Places[site.place]) = back
          PROVE  Proposed(f, site) = ProposalsAt[site.place][back][program.localOnly]
      BY <3>1, Zenon DEF Proposed
    <3>2. ASSUME NEW back, RefersBack(f, Places[site.place])' = back
          PROVE  Proposed(f, site)' = ProposalsAt[site.place][back][program'.localOnly]
      BY <3>2, Zenon DEF Proposed
    <3> QED BY <2>2, <3>1, <3>2
  <2> QED BY <2>1, <2>3 DEF HasProposals
<1>4. ASSUME NEW ms, NEW f, NEW i, NEW site
      PROVE  MadeAt(ms, f, i, site)' <=> MadeAt(ms, f, i, site)
  BY <1>2, <1>3 DEF MadeAt
<1>5. ASSUME NEW ms
      PROVE  MadeFrom(ms)' <=> MadeFrom(ms)
  BY <1>1, <1>4 DEF MadeFrom
<1>6. ASSUME NEW ms, ms = Range(mutations')
      PROVE  MadeFrom(Range(mutations))' <=> MadeFrom(ms)
  <2>1. MadeFrom(Range(mutations))' <=> MadeFrom(ms)'
    BY <1>6 DEF MadeFrom, MadeAt, Range
  <2> QED BY <2>1, <1>5
<1> QED BY <1>6

\* The operators leave a mutation at each place that they are to mutate, and at no other.
LEMMA MadeStep ==
  ASSUME GraphInv, ReachInv, MadeInv, [Next]_vars
  PROVE  MadeInv'
<1>1. UNCHANGED <<program, limits, targets, mode, filter>> => (MadeFrom(Range(mutations))' <=> MadeFrom(Range(mutations')))
  BY SameMade
<1>2. UNCHANGED mutations => Range(mutations') = Range(mutations)
  OBVIOUS
<1>3. CASE ApplyOperators
  <2>1. UNCHANGED <<program, limits, targets, mode, filter>>
    BY <1>3 DEF ApplyOperators, graphVars
  <2> DEFINE ms == Range(mutations')
  <2>2. ms = UNION {Range(MutationsOf(f)) : f \in {g \in Selected : ~Skipped(g)}}
    BY <1>3, AppliedMutations
  <2>3. Selected \subseteq program.mutable
    BY DEF Selected, ReachInv
  <2> HIDE DEF ms
  <2>4. \A g \in Selected : \A m \in Range(MutationsOf(g)) : m.fn = g
    BY <2>3, MutationsOfHold DEF GraphInv
  <2>5. ASSUME NEW f \in Selected, Skipped(f)
        PROVE  \A m \in ms : m.fn # f
    BY <2>2, <2>4, <2>5
  <2>6. ASSUME NEW f \in Selected, ~Skipped(f), NEW i \in DOMAIN program.sites[f]
        PROVE  MadeAt(ms, f, i, program.sites[f][i])
    <3>1. MadeAt(Range(MutationsOf(f)), f, i, program.sites[f][i])
      BY <2>3, MutationsOfHold DEF GraphInv
    <3>2. Range(MutationsOf(f)) \subseteq ms /\ \A m \in ms : m.fn = f => m \in Range(MutationsOf(f))
      BY <2>2, <2>4, <2>6
    <3> QED BY <3>1, <3>2 DEF MadeAt
  <2>7. MadeFrom(ms)
    BY <2>5, <2>6 DEF MadeFrom
  <2>8. MadeFrom(Range(mutations))'
    BY <1>1, <2>1, <2>7 DEF ms
  <2> QED BY <2>8 DEF MadeInv
<1>4. CASE ~ApplyOperators
  <2>1. phase' \in {"conflicts", "batch"} =>
            phase \in {"conflicts", "batch"} /\ UNCHANGED <<program, limits, targets, mode, filter, mutations>>
    <3>1. CASE WalkAction
      BY <3>1 DEF WalkAction, RecordCallers, NextDistance, StartWalk, WalkStep, EndWalk
    <3>2. CASE ~WalkAction
      <4>1. UNCHANGED <<program, limits, targets>>
        BY <3>2, OtherSteps DEF graphVars
      <4>2. phase' \in {"conflicts", "batch"} => phase \in {"conflicts", "batch"} /\ UNCHANGED <<mode, filter, mutations>>
        <5>1. CASE Graph
          BY <5>1, <3>2 DEF Graph, GraphNext, WalkAction, FinishWalks
        <5>2. CASE ReadOptions \/ BuildConflicts \/ WriteProgram
          BY <5>2 DEF ReadOptions, BuildConflicts, WriteProgram
        <5>3. CASE Batch
          BY <5>3 DEF Batch
        <5>4. CASE UNCHANGED vars
          BY <5>4 DEF vars
        <5> QED BY <5>1, <5>2, <5>3, <5>4, <1>4 DEF Next
      <4> QED BY <4>1, <4>2
    <3> QED BY <3>1, <3>2
  <2>2. UNCHANGED <<program, limits, targets, mode, filter, mutations>> =>
            (MadeFrom(Range(mutations))' <=> MadeFrom(Range(mutations)))
    BY <1>1, <1>2
  <2> QED BY <2>1, <2>2 DEF MadeInv
<1> QED BY <1>3, <1>4

\* The conflict graph keeps apart all mutations that share a test, or a test that may reach them past a limit.
LEMMA ConflictsStep ==
  ASSUME MutationsInv, ConflictsInv, [Next]_vars
  PROVE  ConflictsInv'
<1>1. CASE BuildConflicts
  <2> DEFINE ids == DOMAIN mutations
             unsafes == {i \in ids : IsUnsafe(mutations[i])}
             inProcess == {i \in ids \ unsafes : ~ReachedByTruncated(mutations[i].fn)}
             Clash(a, b) == \/ TestsOf(a) \cap TestsOf(b) # {}
                            \/ ConflictingSubsts(a, b)
             pairs == {ij \in inProcess \X inProcess : ij[1] # ij[2] /\ Clash(mutations[ij[1]], mutations[ij[2]])}
             conflicts == {{p[1], p[2]} : p \in pairs}
  <2>1. /\ graph' = [n |-> Len(mutations), unsafes |-> unsafes, inProcess |-> inProcess, conflicts |-> conflicts]
        /\ UNCHANGED <<mutations, targets, truncated>> /\ phase = "conflicts"
    BY <1>1 DEF BuildConflicts, graphVars
  <2> HIDE DEF unsafes, inProcess, conflicts
  <2>2. graph'.n = Len(mutations) /\ graph'.unsafes = unsafes /\ graph'.inProcess = inProcess /\ graph'.conflicts = conflicts
    BY <2>1
  <2>3. unsafes \cap inProcess = {}
    BY DEF inProcess
  <2>4. ASSUME NEW a \in inProcess, NEW b \in inProcess, a # b, {a, b} \notin conflicts
        PROVE  /\ TestsOf(mutations[a]) \cap TestsOf(mutations[b]) = {}
               /\ TestsOf(mutations[a]) \cap truncated = {}
    <3>1. ~Clash(mutations[a], mutations[b])
      <4>1. <<a, b>> \in inProcess \X inProcess /\ <<a, b>>[1] = a /\ <<a, b>>[2] = b
        OBVIOUS
      <4>2. Clash(mutations[a], mutations[b]) => <<a, b>> \in pairs
        <5> HIDE DEF Clash
        <5> QED BY <4>1, <2>4
      <4> HIDE DEF pairs, Clash
      <4>3. <<a, b>> \in pairs => {a, b} \in conflicts
        BY <4>1 DEF conflicts
      <4> QED BY <4>2, <4>3, <2>4
    <3>2. ~ReachedByTruncated(mutations[a].fn)
      BY DEF inProcess
    <3> QED BY <3>1, <3>2 DEF ReachedByTruncated, TestsOf
  <2>5. ASSUME NEW a, NEW b, a # b, ~Conflicting(a, b)'
        PROVE  /\ TestsOf(mutations[a]) \cap TestsOf(mutations[b]) = {}
               /\ TestsOf(mutations[a]) \cap truncated = {}
    <3>1. {a, b} \subseteq inProcess /\ {a, b} \notin conflicts
      BY <2>2, <2>5 DEF Conflicting
    <3> QED BY <3>1, <2>4, <2>5
  <2>6. \A m : TestsOf(m)' = TestsOf(m)
    BY <2>1 DEF TestsOf
  <2> HIDE DEF ids, Clash, pairs
  <2>7. graph'.n = Len(mutations') /\ graph'.unsafes \cap graph'.inProcess = {}
    BY <2>1, <2>2, <2>3
  <2>8. ASSUME NEW a, NEW b, a # b, ~Conflicting(a, b)'
        PROVE  /\ TestsOf(mutations[a])' \cap TestsOf(mutations[b])' = {}
               /\ TestsOf(mutations[a])' \cap truncated' = {}
    <3>1. TestsOf(mutations[a])' = TestsOf(mutations[a]) /\ TestsOf(mutations[b])' = TestsOf(mutations[b])
      BY <2>1, <2>6 DEF TestsOf
    <3> QED BY <3>1, <2>1, <2>5, <2>8
  <2> QED BY <2>7, <2>8 DEF ConflictsInv
<1>2. CASE ~BuildConflicts
  <2>1. phase' \in {"batch", "written"} => phase \in {"batch", "written"} /\ UNCHANGED <<graph, mutations, targets, truncated>>
    <3>1. CASE WalkAction
      BY <3>1 DEF WalkAction, RecordCallers, NextDistance, StartWalk, WalkStep, EndWalk
    <3>2. CASE ~WalkAction
      <4>1. UNCHANGED <<targets, truncated>>
        BY <3>2, OtherSteps DEF graphVars
      <4>2. phase' \in {"batch", "written"} => phase \in {"batch", "written"} /\ UNCHANGED <<graph, mutations>>
        <5>1. CASE Graph
          BY <5>1, <3>2 DEF Graph, GraphNext, WalkAction, FinishWalks
        <5>2. CASE ReadOptions \/ ApplyOperators \/ WriteProgram
          BY <5>2 DEF ReadOptions, ApplyOperators, WriteProgram, batchVars
        <5>3. CASE Batch
          BY <5>3 DEF Batch, BatchNext, StartBatching, Place, AnnealMove, AnnealNothing, Batched
        <5>4. CASE UNCHANGED vars
          BY <5>4 DEF vars, batchVars
        <5> QED BY <5>1, <5>2, <5>3, <5>4, <1>2 DEF Next
      <4> QED BY <4>1, <4>2
    <3> QED BY <3>1, <3>2
  <2>2. ASSUME UNCHANGED <<graph, mutations, targets, truncated>>
        PROVE  /\ \A a, b : Conflicting(a, b)' <=> Conflicting(a, b)
               /\ \A a : TestsOf(mutations[a])' = TestsOf(mutations[a])
               /\ Mutations' = Mutations
    BY <2>2 DEF Conflicting, TestsOf, Mutations
  <2> QED BY <2>1, <2>2 DEF ConflictsInv
<1> QED BY <1>1, <1>2

-----------------------------------------------------------------------------
(* The batches *)

\* There are finitely many mutations.
LEMMA MutationsFinite ==
  ASSUME MutationsInv, ConflictsInv, phase \in {"batch", "written"}
  PROVE  graph.n \in Nat /\ IsFiniteSet(Mutations) /\ Cardinality(Mutations) = graph.n
<1>1. graph.n \in Nat
  BY DEF MutationsInv, ConflictsInv, Late
<1>2. IsFiniteSet(1..graph.n) /\ Cardinality(1..graph.n) = graph.n
  <2>1. 1 \in Int /\ graph.n \in Int
    BY <1>1
  <2>2. /\ IsFiniteSet(1..graph.n)
        /\ Cardinality(1..graph.n) = IF 1 > graph.n THEN 0 ELSE graph.n - 1 + 1
    BY ONLY <2>1, FS_Interval
  <2> QED BY ONLY <1>1, <2>2
<1> QED BY ONLY <1>1, <1>2 DEF Mutations

\* One more mutation that conflicts with none fits where there is room for it.
LEMMA FitJoined ==
  ASSUME NEW ms, Fit(ms), NEW m, m \notin ms, options.size \in Nat,
         Cardinality(ms) < options.size, \A other \in ms : ~Conflicting(other, m)
  PROVE  Fit(ms \cup {m})
<1>1. IsFiniteSet(ms \cup {m}) /\ Cardinality(ms \cup {m}) = Cardinality(ms) + 1 /\ Cardinality(ms) \in Nat
  BY FS_AddElement, FS_CardinalityType DEF Fit
<1>2. \A a, b : Conflicting(a, b) <=> Conflicting(b, a)
  <2>1. \A a, b : {a, b} = {b, a}
    OBVIOUS
  <2> QED BY <2>1 DEF Conflicting
<1>3. Cardinality(ms \cup {m}) <= options.size
  BY <1>1
<1>4. \A a, b \in ms \cup {m} : a # b => ~Conflicting(a, b)
  BY <1>2 DEF Fit
<1> QED BY <1>1, <1>3, <1>4 DEF Fit

\* What is left of mutations that fit, fits.
LEMMA FitLeft ==
  ASSUME NEW ms, Fit(ms), NEW left, left \subseteq ms, left # {}, options.size \in Nat
  PROVE  Fit(left)
<1>1. IsFiniteSet(left) /\ Cardinality(left) <= Cardinality(ms)
  BY FS_Subset DEF Fit
<1>2. Cardinality(left) \in Nat /\ Cardinality(ms) \in Nat /\ Cardinality(left) # 0
  BY <1>1, FS_CardinalityType, FS_EmptySet DEF Fit
<1> QED BY <1>1, <1>2 DEF Fit

\* Good batches, which hold one mutation more.
Joins(new, bs, m) ==
    /\ Good(new) /\ DOMAIN new = DOMAIN bs
    /\ \A j \in DOMAIN bs : new[j].id = bs[j].id
    /\ \A x : InBatch(x, new) <=> InBatch(x, bs) \/ x = m

\* A mutation that is compatible with a batch joins it.
LEMMA BatchJoined ==
  ASSUME NEW bs, Good(bs), NEW i \in DOMAIN bs, NEW m \in Mutations, ~InBatch(m, bs),
         Compatible(m, bs[i]), options.size \in Nat
  PROVE  Joins([bs EXCEPT ![i].mutations = @ \cup {m}], bs, m)
<1> DEFINE new == [bs EXCEPT ![i].mutations = @ \cup {m}]
           ms == bs[i].mutations
<1>1. bs \in Seq(BatchType) /\ DOMAIN bs = 1..Len(bs) /\ Len(bs) \in Nat
  BY DEF Good
<1>2. \A j \in DOMAIN bs : bs[j] \in BatchType /\ bs[j].id \in Nat /\ bs[j].mutations \in SUBSET Mutations
  <2>1. \A j \in DOMAIN bs : bs[j] \in BatchType
    BY <1>1
  <2> QED BY <2>1 DEF BatchType
<1>3. /\ DOMAIN new = DOMAIN bs
      /\ \A j \in DOMAIN bs : new[j] = IF j = i THEN [bs[i] EXCEPT !.mutations = ms \cup {m}] ELSE bs[j]
  BY <1>1
<1>4. [bs[i] EXCEPT !.mutations = ms \cup {m}] = [id |-> bs[i].id, mutations |-> ms \cup {m}]
  BY <1>2 DEF BatchType
<1>5. /\ new[i].id = bs[i].id /\ new[i].mutations = ms \cup {m} /\ new[i] \in BatchType
  BY <1>2, <1>3, <1>4 DEF BatchType
<1>6. new = [j \in 1..Len(bs) |-> new[j]]
  BY <1>1
<1> HIDE DEF new
<1>7. new \in Seq(BatchType)
  <2>1. \A j \in 1..Len(bs) : new[j] \in BatchType
    BY <1>1, <1>2, <1>3, <1>5
  <2> QED BY <2>1, <1>1, <1>6
<1>8. \A x : InBatch(x, new) <=> InBatch(x, bs) \/ x = m
  BY <1>3, <1>5 DEF InBatch
<1>9. Apart(new)
  <2>1. Apart(bs) /\ \A j \in DOMAIN bs : m \notin bs[j].mutations
    BY DEF Good, InBatch
  <2> QED BY <2>1, <1>3, <1>5 DEF Apart
<1>10. Fit(ms \cup {m})
  <2>1. Fit(ms) /\ m \notin ms
    BY DEF Good, InBatch
  <2> HIDE DEF ms
  <2>2. Cardinality(ms) < options.size /\ \A other \in ms : ~Conflicting(other, m)
    BY DEF Compatible, ms
  <2> QED BY ONLY <2>1, <2>2, options.size \in Nat, FitJoined
<1>11. \A j \in DOMAIN new : Fit(new[j].mutations)
  BY <1>3, <1>5, <1>10 DEF Good
<1> QED BY <1>3, <1>5, <1>7, <1>8, <1>9, <1>11 DEF Good, Joins, new

\* A mutation that joins no batch has one of its own.
LEMMA BatchAdded ==
  ASSUME NEW bs, Good(bs), \A i \in DOMAIN bs : bs[i].id = i, NEW m \in Mutations, ~InBatch(m, bs)
  PROVE  LET new == Append(bs, [id |-> Len(bs) + 1, mutations |-> {m}])
         IN  /\ Good(new) /\ \A i \in DOMAIN new : new[i].id = i
             /\ \A x : InBatch(x, new) <=> InBatch(x, bs) \/ x = m
<1> DEFINE batch == [id |-> Len(bs) + 1, mutations |-> {m}]
           new == Append(bs, batch)
           n == Len(bs) + 1
<1>1. bs \in Seq(BatchType) /\ Len(bs) \in Nat /\ DOMAIN bs = 1..Len(bs)
  BY DEF Good
<1>2. batch \in BatchType /\ batch.id = n /\ batch.mutations = {m}
  BY <1>1 DEF BatchType
<1> HIDE DEF batch
<1>3. /\ new \in Seq(BatchType) /\ Len(new) = n
      /\ \A i \in 1..Len(bs) : new[i] = bs[i]
      /\ new[n] = batch
  BY <1>1, <1>2
<1>4. DOMAIN new = DOMAIN bs \cup {n} /\ n \notin DOMAIN bs
  BY <1>1, <1>3
<1> HIDE DEF new, n
<1>5. \A i \in DOMAIN new : new[i] = IF i = n THEN batch ELSE bs[i]
  BY <1>1, <1>3, <1>4
<1>6. \A i \in DOMAIN new : new[i].id = i
  BY <1>2, <1>4, <1>5
<1>7. \A x : InBatch(x, new) <=> InBatch(x, bs) \/ x = m
  BY <1>2, <1>4, <1>5 DEF InBatch
<1>8. Apart(new)
  <2>1. Apart(bs) /\ \A i \in DOMAIN bs : m \notin bs[i].mutations
    BY DEF Good, InBatch
  <2>2. \A i \in DOMAIN new : new[i].mutations = IF i = n THEN {m} ELSE bs[i].mutations
    BY <1>2, <1>5
  <2> QED BY <2>1, <2>2, <1>4, <1>6 DEF Apart
<1>9. Fit({m})
  BY FS_Singleton DEF Fit
<1>10. \A i \in DOMAIN new : Fit(new[i].mutations)
  BY <1>2, <1>4, <1>5, <1>9 DEF Good
<1> QED BY <1>3, <1>6, <1>7, <1>8, <1>10 DEF Good, new, batch, n

\* Annealing moves a mutation to another batch, and removes the batch it leaves if that is empty.
LEMMA BatchMoved ==
  ASSUME NEW bs, Good(bs), options.size \in Nat,
         NEW i \in DOMAIN bs, NEW j \in DOMAIN bs, i # j,
         NEW m \in bs[i].mutations, Compatible(m, bs[j])
  PROVE  LET moved == [bs EXCEPT ![i].mutations = @ \ {m}, ![j].mutations = @ \cup {m}]
             new == Keep(moved, {batch \in ToSet(moved) : batch.mutations # {}})
         IN  /\ Good(new)
             /\ \A x : InBatch(x, bs) => InBatch(x, new)
<1> DEFINE moved == [bs EXCEPT ![i].mutations = @ \ {m}, ![j].mutations = @ \cup {m}]
           S == {batch \in ToSet(moved) : batch.mutations # {}}
           new == Keep(moved, S)
<1>1. bs \in Seq(BatchType) /\ Len(bs) \in Nat /\ DOMAIN bs = 1..Len(bs)
  BY DEF Good
<1>2. \A k \in DOMAIN bs : bs[k] \in BatchType /\ bs[k].id \in Nat /\ bs[k].mutations \in SUBSET Mutations
  <2>1. \A k \in DOMAIN bs : bs[k] \in BatchType
    BY <1>1
  <2> QED BY <2>1 DEF BatchType
<1>3. /\ DOMAIN moved = DOMAIN bs
      /\ \A k \in DOMAIN bs : moved[k] = IF k = i THEN [bs[i] EXCEPT !.mutations = bs[i].mutations \ {m}]
                                         ELSE IF k = j THEN [bs[j] EXCEPT !.mutations = bs[j].mutations \cup {m}]
                                         ELSE bs[k]
  BY <1>1
<1>4. /\ [bs[i] EXCEPT !.mutations = bs[i].mutations \ {m}] = [id |-> bs[i].id, mutations |-> bs[i].mutations \ {m}]
      /\ [bs[j] EXCEPT !.mutations = bs[j].mutations \cup {m}] = [id |-> bs[j].id, mutations |-> bs[j].mutations \cup {m}]
  BY <1>2 DEF BatchType
<1>5. \A k \in DOMAIN bs : /\ moved[k].id = bs[k].id
                           /\ moved[k].mutations = IF k = i THEN bs[i].mutations \ {m}
                                                   ELSE IF k = j THEN bs[j].mutations \cup {m} ELSE bs[k].mutations
                           /\ moved[k] \in BatchType
  <2> HIDE DEF moved
  <2> TAKE k \in DOMAIN bs
  <2>1. CASE k = i
    <3>1. moved[k] = [id |-> bs[i].id, mutations |-> bs[i].mutations \ {m}]
      BY <2>1, <1>3, <1>4
    <3> QED BY <2>1, <3>1, <1>2 DEF BatchType
  <2>2. CASE k = j
    <3>1. moved[k] = [id |-> bs[j].id, mutations |-> bs[j].mutations \cup {m}]
      BY <2>2, <1>3, <1>4
    <3>2. m \in Mutations
      BY <1>2
    <3> QED BY <2>2, <3>1, <3>2, <1>2 DEF BatchType
  <2>3. CASE k # i /\ k # j
    BY <2>3, <1>2, <1>3
  <2> QED BY <2>1, <2>2, <2>3
<1>6. moved = [k \in 1..Len(bs) |-> moved[k]]
  BY <1>1
<1> HIDE DEF moved
<1>7. moved \in Seq(BatchType)
  BY <1>1, <1>5, <1>6
<1>8. Apart(moved)
  <2>1. Apart(bs)
    BY DEF Good
  <2> QED BY <2>1, <1>3, <1>5 DEF Apart
<1>9. IsInjective(moved)
  <2>1. \A k, l \in DOMAIN moved : moved[k] = moved[l] => k = l
    BY <1>8 DEF Apart
  <2> QED BY <2>1 DEF IsInjective
<1>10. /\ new \in Seq(BatchType)
       /\ ToSet(new) = ToSet(moved) \cap S
       /\ IsInjective(new)
  <2> HIDE DEF S
  <2> QED BY <1>7, <1>9, KeepKeeps
<1> HIDE DEF new
<1>11. ASSUME NEW k \in DOMAIN new
       PROVE  \E l \in DOMAIN moved : new[k] = moved[l] /\ moved[l].mutations # {}
  <2>1. new[k] \in ToSet(moved) \cap S
    BY <1>10 DEF ToSet
  <2> QED BY <2>1 DEF ToSet
<1>12. Apart(new)
  <2> SUFFICES ASSUME NEW k \in DOMAIN new, NEW l \in DOMAIN new, k # l
               PROVE  new[k].id # new[l].id /\ new[k].mutations \cap new[l].mutations = {}
    BY DEF Apart
  <2>1. PICK p \in DOMAIN moved : new[k] = moved[p]
    BY <1>11
  <2>2. PICK q \in DOMAIN moved : new[l] = moved[q]
    BY <1>11
  <2>3. new[k] # new[l]
    BY <1>10 DEF IsInjective
  <2> QED BY <2>1, <2>2, <2>3, <1>8 DEF Apart
<1>13. Fit(bs[j].mutations \cup {m})
  <2> DEFINE ms == bs[j].mutations
  <2>1. Fit(ms) /\ m \notin ms
    BY DEF Good, Apart
  <2>2. Cardinality(ms) < options.size /\ \A other \in ms : ~Conflicting(other, m)
    BY DEF Compatible
  <2> HIDE DEF ms
  <2>3. Fit(ms \cup {m})
    BY ONLY <2>1, <2>2, options.size \in Nat, FitJoined
  <2> QED BY <2>3 DEF ms
<1>14. ASSUME NEW l \in DOMAIN moved, moved[l].mutations # {}
       PROVE  Fit(moved[l].mutations)
  <2>1. CASE l = i
    <3>1. moved[l].mutations \subseteq bs[i].mutations /\ Fit(bs[i].mutations)
      BY <2>1, <1>3, <1>5 DEF Good
    <3> QED BY <3>1, <1>14, FitLeft
  <2>2. CASE l = j
    BY <2>2, <1>3, <1>5, <1>13
  <2>3. CASE l # i /\ l # j
    BY <2>3, <1>3, <1>5 DEF Good
  <2> QED BY <2>1, <2>2, <2>3
<1>15. Good(new)
  BY <1>10, <1>11, <1>12, <1>14 DEF Good
<1>16. ASSUME NEW x, InBatch(x, bs)
       PROVE  InBatch(x, new)
  <2>1. PICK l \in DOMAIN moved : x \in moved[l].mutations
    <3>1. PICK k \in DOMAIN bs : x \in bs[k].mutations
      BY <1>16 DEF InBatch
    <3>2. x = m => x \in moved[j].mutations
      BY <1>5
    <3>3. x # m => x \in moved[k].mutations
      BY <3>1, <1>5
    <3> QED BY <3>2, <3>3, <1>3
  <2>2. moved[l] \in ToSet(moved) \cap S
    BY <2>1 DEF ToSet
  <2>3. PICK k \in DOMAIN new : new[k] = moved[l]
    BY <2>2, <1>10 DEF ToSet
  <2> QED BY <2>1, <2>3 DEF InBatch
<1> QED BY <1>15, <1>16 DEF new, moved

\* What is turned round holds the same.
LEMMA ReverseHoldsAll ==
  ASSUME NEW T, NEW q \in Seq(T), IsInjective(q)
  PROVE  Reverse(q) \in Seq(T) /\ ToSet(Reverse(q)) = ToSet(q) /\ IsInjective(Reverse(q))
<1> DEFINE n == Len(q)
           r == Reverse(q)
<1>1. n \in Nat /\ DOMAIN q = 1..n
  OBVIOUS
<1>2. r = [i \in 1..n |-> q[(n - i) + 1]]
  BY DEF Reverse
<1>3. \A i \in 1..n : (n - i) + 1 \in 1..n /\ (n - ((n - i) + 1)) + 1 = i
  BY <1>1
<1> HIDE DEF r
<1>4. DOMAIN r = 1..n /\ \A i \in 1..n : r[i] = q[(n - i) + 1]
  BY <1>2
<1>5. r \in Seq(T)
  BY <1>1, <1>2, <1>3
<1> HIDE DEF n
<1>6. ToSet(r) \subseteq ToSet(q)
  BY <1>1, <1>3, <1>4 DEF ToSet
<1>7. ToSet(q) \subseteq ToSet(r)
  <2> SUFFICES ASSUME NEW i \in DOMAIN q PROVE q[i] \in ToSet(r)
    BY DEF ToSet
  <2>1. r[(n - i) + 1] = q[i] /\ (n - i) + 1 \in DOMAIN r
    BY <1>1, <1>3, <1>4
  <2> QED BY <2>1 DEF ToSet
<1>8. ASSUME NEW i \in DOMAIN r, NEW j \in DOMAIN r, r[i] = r[j]
      PROVE  i = j
  <2>1. q[(n - i) + 1] = q[(n - j) + 1] /\ (n - i) + 1 \in DOMAIN q /\ (n - j) + 1 \in DOMAIN q
    BY <1>1, <1>3, <1>4, <1>8
  <2>2. (n - i) + 1 = (n - j) + 1
    BY <2>1 DEF IsInjective
  <2> QED BY <2>2, <1>1, <1>4
<1> QED BY <1>5, <1>6, <1>7, <1>8 DEF IsInjective, r

\* In whatever order the mutations are considered, each of them is considered once.
LEMMA OrdersHoldAll ==
  ASSUME graph.n \in Nat, NEW ordering \in {"ConflictsAsc", "ConflictsDesc", "Random", "None"}, NEW q \in Orders(ordering)
  PROVE  q \in Seq(Mutations) /\ ToSet(q) = Mutations /\ IsInjective(q)
<1> DEFINE n == graph.n
           key == [a \in Mutations |-> ConflictCount(a) * (n + 1) + a]
           ascending == SortedBy(Mutations, key)
<1>1. IsFiniteSet(Mutations) /\ Mutations \subseteq Nat
  BY FS_Interval DEF Mutations
<1>2. \A a \in Mutations : ConflictCount(a) \in Nat
  <2> TAKE a \in Mutations
  <2>1. IsFiniteSet({b \in Mutations \ {a} : Conflicting(a, b)})
    BY <1>1, FS_Subset
  <2> QED BY <2>1, FS_CardinalityType DEF ConflictCount
<1>3. \A c, d, k, a, b \in Nat : a <= k /\ b <= k /\ c < d => c * (k + 1) + a < d * (k + 1) + b
  <2> TAKE c, d, k, a, b \in Nat
  <2> HAVE a <= k /\ b <= k /\ c < d
  <2>1. PICK e \in Nat : d = c + 1 + e
    <3>1. d - c - 1 \in Nat /\ d = c + 1 + (d - c - 1)
      OBVIOUS
    <3> QED BY <3>1
  <2>2. d * (k + 1) = c * (k + 1) + (k + 1) + e * (k + 1)
    BY <2>1
  <2>3. e * (k + 1) \in Nat /\ c * (k + 1) \in Nat
    OBVIOUS
  <2> QED BY <2>2, <2>3
<1>4. key \in [Mutations -> Int] /\ \A a, b \in Mutations : key[a] = key[b] => a = b
  <2>1. ASSUME NEW a \in Mutations
        PROVE  key[a] = ConflictCount(a) * (n + 1) + a /\ key[a] \in Int /\ a \in Nat /\ a <= n
    <3>1. a \in Nat /\ a <= n /\ n \in Nat /\ ConflictCount(a) \in Nat
      BY <1>2 DEF Mutations
    <3>2. key[a] = ConflictCount(a) * (n + 1) + a
      OBVIOUS
    <3> HIDE DEF key, n
    <3>3. ConflictCount(a) * (n + 1) + a \in Int
      BY <3>1
    <3> QED BY <3>1, <3>2, <3>3
  <2>2. ASSUME NEW a \in Mutations, NEW b \in Mutations, ConflictCount(a) < ConflictCount(b)
        PROVE  key[a] < key[b]
    <3>1. n \in Nat
      OBVIOUS
    <3> HIDE DEF key, n
    <3> QED BY <2>1, <2>2, <1>2, <1>3, <3>1
  <2>3. ASSUME NEW a \in Mutations, NEW b \in Mutations, key[a] = key[b]
        PROVE  a = b
    <3> HIDE DEF key
    <3>1. ~(key[a] < key[b]) /\ ~(key[b] < key[a])
      BY <2>1, <2>3
    <3>2. ConflictCount(a) = ConflictCount(b)
      BY <2>2, <3>1, <1>2
    <3> DEFINE x == ConflictCount(a) * (n + 1)
    <3>3. x \in Int
      <4>1. n \in Nat /\ ConflictCount(a) \in Nat
        BY <1>2
      <4> HIDE DEF n
      <4> QED BY <4>1
    <3>4. key[a] = x + a /\ key[b] = x + b
      BY <2>1, <3>2
    <3>5. a \in Nat /\ b \in Nat
      BY <2>1
    <3> HIDE DEF x
    <3>6. x + a = x + b
      BY ONLY <2>3, <3>4
    <3>7. \A z \in Int, c, d \in Nat : z + c = z + d => c = d
      OBVIOUS
    <3> QED BY ONLY <3>3, <3>5, <3>6, <3>7
  <2>4. key = [a \in Mutations |-> key[a]]
    OBVIOUS
  <2> HIDE DEF key
  <2> QED BY <2>1, <2>3, <2>4
<1>5. ascending \in Seq(Mutations) /\ ToSet(ascending) = Mutations /\ IsInjective(ascending)
  <2> HIDE DEF key
  <2>1. ascending \in SetToSeqs(Mutations)
    BY <1>1, <1>4, SortedOrders
  <2> HIDE DEF ascending
  <2> QED BY <1>1, <2>1, OrderHoldsAll
<1>6. CASE ordering = "ConflictsAsc"
  <2>1. q = ascending
    BY <1>6 DEF Orders
  <2> HIDE DEF ascending
  <2> QED BY <1>5, <2>1
<1>7. CASE ordering = "ConflictsDesc"
  <2>1. q = Reverse(ascending)
    BY <1>7 DEF Orders
  <2> HIDE DEF ascending
  <2> QED BY <1>5, <2>1, ReverseHoldsAll
<1>8. CASE ordering = "Random"
  <2>1. q \in SetToSeqs(Mutations)
    BY <1>8 DEF Orders
  <2> QED BY <1>1, <2>1, OrderHoldsAll
<1>9. CASE ordering = "None"
  <2>1. q = [i \in Mutations |-> i]
    BY <1>9 DEF Orders
  <2>2. q \in [1..n -> 1..n] /\ \A i \in 1..n : q[i] = i
    BY <2>1 DEF Mutations
  <2>3. q \in Seq(Mutations) /\ DOMAIN q = Mutations
    BY <2>2 DEF Mutations
  <2>4. ToSet(q) = Mutations
    BY <2>2, <2>3 DEF ToSet, Mutations
  <2> QED BY <2>2, <2>3, <2>4 DEF IsInjective, Mutations
<1> QED BY <1>6, <1>7, <1>8, <1>9

\* Batches that are good after a step that changes neither the conflicts nor the options were good before it.
LEMMA GoodAfter ==
  ASSUME UNCHANGED <<graph, options>>, Good(batches')
  PROVE  Good(batches)'
<1>1. \A a, b : Conflicting(a, b)' <=> Conflicting(a, b)
  BY DEF Conflicting
<1>2. \A ms : Fit(ms)' <=> Fit(ms)
  BY <1>1 DEF Fit
<1>3. BatchType' = BatchType
  BY DEF BatchType, Mutations
<1>4. \A i \in DOMAIN batches' : Fit(batches[i].mutations)'
  BY <1>2 DEF Good
<1>5. Apart(batches)'
  BY DEF Good, Apart
<1> QED BY <1>3, <1>4, <1>5 DEF Good

\* Every way to place a mutation or to move one keeps the batches good.
LEMMA BatchesStep ==
  ASSUME MutationsInv, ConflictsInv, BatchesInv, [Next]_vars
  PROVE  BatchesInv'
<1> USE DEF BatchesInv
<1>1. CASE Batch /\ \E o \in BatchOptions(graph.n) : StartBatching(o)
  <2>1. PICK o : StartBatching(o)
    BY <1>1
  <2>2. /\ phase' = phase /\ phase = "batch" /\ UNCHANGED graph
        /\ options' = o /\ o \in MutationBatchingOptions
    BY <1>1, <2>1 DEF Batch, StartBatching
  <2>3. graph.n \in Nat /\ Mutations' = Mutations
    BY <2>2, MutationsFinite DEF Mutations
  <2>4. CASE step' = "place"
    <3>1. order' \in Orders(o.ordering) /\ batches' = <<>>
      BY <2>1, <2>4 DEF StartBatching
    <3>2. o.ordering \in {"ConflictsAsc", "ConflictsDesc", "Random", "None"}
      BY <2>2 DEF MutationBatchingOptions
    <3>3. order' \in Seq(Mutations) /\ ToSet(order') = Mutations /\ IsInjective(order')
      BY ONLY <2>3, <3>1, <3>2, OrdersHoldAll
    <3>4. DOMAIN batches' = {}
      BY <3>1
    <3>5. Good(batches)'
      BY <3>1, <3>4 DEF Good, Apart
    <3>6. \A m : ~InBatch(m, batches)'
      BY <3>4 DEF InBatch
    <3>7. ToSet(order)' = Mutations' /\ IsInjective(order)'
      BY <2>3, <3>3 DEF ToSet, IsInjective
    <3> QED BY <2>2, <2>3, <2>4, <3>3, <3>4, <3>5, <3>6, <3>7
  <2>5. CASE step' = "anneal"
    <3>1. batches' = [i \in Mutations |-> [id |-> i, mutations |-> {i}]]
      BY <2>1, <2>5 DEF StartBatching
    <3>2. DOMAIN batches' = Mutations /\ \A i \in Mutations : batches'[i].id = i /\ batches'[i].mutations = {i}
      BY <3>1
    <3>3. \A i \in Mutations : [id |-> i, mutations |-> {i}] \in BatchType'
      <4>1. \A i \in Mutations : i \in Nat
        BY <2>3 DEF Mutations
      <4> HIDE DEF Mutations
      <4> QED BY <4>1, <2>3 DEF BatchType
    <3>4. batches' \in Seq(BatchType')
      BY <2>3, <3>1, <3>3 DEF Mutations
    <3>5. \A ms : (\E i : ms = {i}) => Fit(ms)'
      BY FS_Singleton DEF Fit
    <3>6. \A i \in DOMAIN batches' : Fit(batches[i].mutations)'
      <4> TAKE i \in DOMAIN batches'
      <4>1. \E j : batches'[i].mutations = {j}
        BY <3>2
      <4> QED BY ONLY <3>5, <4>1
    <3>7. Apart(batches)'
      BY <3>2 DEF Apart
    <3>8. \A m \in Mutations : InBatch(m, batches)'
      BY <3>2 DEF InBatch
    <3> QED BY <2>2, <2>3, <2>5, <3>4, <3>6, <3>7, <3>8 DEF Good
  <2> QED BY <2>1, <2>4, <2>5 DEF StartBatching
<1>2. CASE Batch /\ Place
  <2> DEFINE m == Head(order)
  <2>1. /\ step = "place" /\ step' = "place" /\ phase' = phase /\ phase \in {"batch", "written"}
        /\ UNCHANGED <<graph, options>> /\ order # <<>> /\ order' = Tail(order)
    BY <1>2 DEF Batch, Place
  <2>2. /\ Good(batches) /\ \A i \in DOMAIN batches : batches[i].id = i
        /\ order \in Seq(Mutations) /\ IsInjective(order)
        /\ \A x \in Mutations : x \in ToSet(order) <=> ~InBatch(x, batches)
        /\ options \in MutationBatchingOptions
    BY <2>1
  <2>3. /\ m \in Mutations /\ order' \in Seq(Mutations) /\ IsInjective(order')
        /\ ToSet(order) = ToSet(order') \cup {m} /\ m \notin ToSet(order')
    BY <2>1, <2>2, PopLeaves
  <2>4. ~InBatch(m, batches)
    BY <2>2, <2>3
  <2>5. options.size \in Nat
    BY <2>2 DEF MutationBatchingOptions
  <2> HIDE DEF m
  <2>6. /\ Good(batches') /\ \A i \in DOMAIN batches' : batches'[i].id = i
        /\ \A x : InBatch(x, batches') <=> InBatch(x, batches) \/ x = m
    <3>1. CASE \E i \in Candidates(m) : batches' = [batches EXCEPT ![i].mutations = @ \cup {m}]
      <4>1. PICK i \in Candidates(m) : batches' = [batches EXCEPT ![i].mutations = @ \cup {m}]
        BY <3>1
      <4>2. i \in DOMAIN batches /\ Compatible(m, batches[i])
        BY <4>1 DEF Candidates, CompatibleBatches
      <4>3. Joins([batches EXCEPT ![i].mutations = @ \cup {m}], batches, m)
        BY ONLY <2>2, <2>3, <2>4, <2>5, <4>2, BatchJoined
      <4>4. Joins(batches', batches, m)
        BY <4>1, <4>3
      <4> QED BY <2>2, <4>4 DEF Joins
    <3>2. CASE batches' = Append(batches, [id |-> Len(batches) + 1, mutations |-> {m}])
      BY ONLY <2>2, <2>3, <2>4, <3>2, BatchAdded
    <3> QED BY <3>1, <3>2, <1>2 DEF Place, m
  <2>7. Good(batches)'
    BY <2>1, <2>6, GoodAfter
  <2>8. Mutations' = Mutations
    BY <2>1 DEF Mutations
  <2>9. ToSet(order)' = ToSet(order') /\ (IsInjective(order)' <=> IsInjective(order'))
    BY DEF ToSet, IsInjective
  <2>10. \A x : InBatch(x, batches)' <=> InBatch(x, batches')
    BY DEF InBatch
  <2>11. \A x \in Mutations : x \in ToSet(order') <=> ~InBatch(x, batches')
    BY <2>2, <2>3, <2>6
  <2> QED BY <2>1, <2>2, <2>3, <2>6, <2>7, <2>8, <2>9, <2>10, <2>11
<1>3. CASE Batch /\ AnnealMove
  <2>1. /\ step = "anneal" /\ step' = "anneal" /\ phase' = phase /\ phase \in {"batch", "written"}
        /\ UNCHANGED <<graph, options>> /\ Good(batches) /\ options \in MutationBatchingOptions
        /\ \A x \in Mutations : InBatch(x, batches)
    BY <1>3 DEF Batch, AnnealMove
  <2>2. PICK i \in DOMAIN batches, j \in DOMAIN batches : \E m \in batches[i].mutations :
          /\ i # j /\ Compatible(m, batches[j])
          /\ LET moved == [batches EXCEPT ![i].mutations = @ \ {m}, ![j].mutations = @ \cup {m}]
             IN  batches' = Keep(moved, {batch \in ToSet(moved) : batch.mutations # {}})
    BY <1>3 DEF AnnealMove, CanMove
  <2>3. PICK m \in batches[i].mutations :
          /\ i # j /\ Compatible(m, batches[j])
          /\ LET moved == [batches EXCEPT ![i].mutations = @ \ {m}, ![j].mutations = @ \cup {m}]
             IN  batches' = Keep(moved, {batch \in ToSet(moved) : batch.mutations # {}})
    BY <2>2
  <2>4. options.size \in Nat
    BY <2>1 DEF MutationBatchingOptions
  <2>5. Good(batches') /\ \A x : InBatch(x, batches) => InBatch(x, batches')
    BY ONLY <2>1, <2>3, <2>4, BatchMoved
  <2>6. Good(batches)'
    BY <2>1, <2>5, GoodAfter
  <2>7. Mutations' = Mutations
    BY <2>1 DEF Mutations
  <2>8. \A x : InBatch(x, batches)' <=> InBatch(x, batches')
    BY DEF InBatch
  <2> QED BY <2>1, <2>5, <2>6, <2>7, <2>8
<1>4. CASE \/ Batch /\ (AnnealNothing \/ Batched)
           \/ UNCHANGED <<batchVars, phase>>
           \/ WriteProgram
  <2>1. /\ UNCHANGED <<graph, options, order, batches>>
        /\ step' # "idle" => (step # "idle" /\ phase' \in {"batch", "written"})
        /\ step' \in {"place", "anneal"} => step = step'
        /\ step' = "batched" => step = "batched" \/ step = "anneal" \/ (step = "place" /\ order = <<>>)
    BY <1>4 DEF Batch, AnnealNothing, Batched, WriteProgram, batchVars
  <2>2. Mutations' = Mutations /\ ToSet(order)' = ToSet(order) /\ (IsInjective(order)' <=> IsInjective(order))
    BY <2>1 DEF Mutations, ToSet, IsInjective
  <2>3. \A x : InBatch(x, batches)' <=> InBatch(x, batches)
    BY <2>1 DEF InBatch
  <2>4. Good(batches) => Good(batches)'
    BY <2>1, GoodAfter
  <2>5. step = "place" /\ order = <<>> => \A x \in Mutations : InBatch(x, batches)
    BY DEF ToSet
  <2> QED BY <2>1, <2>2, <2>3, <2>4, <2>5
<1>5. CASE ~Batch /\ ~WriteProgram /\ ~UNCHANGED vars
  <2>1. UNCHANGED <<batchVars, phase>> \/ (step = "idle" /\ step' = step)
    <3>1. step # "idle" => phase \in {"batch", "written"}
      OBVIOUS
    <3> QED BY <1>5, <3>1 DEF Next, Graph, GraphNext, RecordCallers, NextDistance, StartWalk, WalkStep, EndWalk, FinishWalks,
               ReadOptions, ApplyOperators, BuildConflicts, batchVars
  <2> QED BY <2>1, <1>4
<1> QED BY <1>1, <1>2, <1>3, <1>4, <1>5 DEF Batch, BatchNext, vars, batchVars

-----------------------------------------------------------------------------
(* The invariant *)

\* The program is written once, when all mutations are in their batches.
LEMMA WrittenStep ==
  ASSUME GraphInv, BatchesInv, WrittenInv, [Next]_vars
  PROVE  WrittenInv'
<1> USE DEF WrittenInv
<1>1. CASE WriteProgram
  BY <1>1 DEF WriteProgram, batchVars, graphVars
<1>2. CASE ~WriteProgram
  <2>1. phase' = "written" => phase = "written" /\ UNCHANGED <<slots, mutations>> /\ program' = program /\ (step = "batched" => step' = "batched")
    <3>1. CASE Graph
      BY <3>1 DEF Graph, GraphNext, RecordCallers, NextDistance, StartWalk, WalkStep, EndWalk, FinishWalks, batchVars, graphVars
    <3>2. CASE ReadOptions \/ ApplyOperators \/ BuildConflicts
      BY <3>2 DEF ReadOptions, ApplyOperators, BuildConflicts
    <3>3. CASE Batch
      <4>1. phase' = "written" => phase = "batch"
        BY <3>3 DEF Batch
      <4> QED BY <4>1, <3>3 DEF Batch
    <3>4. CASE UNCHANGED vars
      BY <3>4 DEF vars, batchVars, graphVars
    <3> QED BY <3>1, <3>2, <3>3, <3>4, <1>2 DEF Next
  <2> QED BY <2>1
<1> QED BY <1>1, <1>2

\* The pass starts with no function recorded, no test walked and no mutation made.
LEMMA InitInv ==
  ASSUME Init
  PROVE  IInv
<1>1. /\ program \in Programs /\ phase = "graph" /\ callers = UNION {CalleesOf(t) : t \in Tests}
      /\ found = {} /\ recorded = {} /\ cutCallers = {} /\ toWalk = Tests /\ walker = NoTest
      /\ queue = <<>> /\ reached = <<>> /\ targets = <<>> /\ step = "idle"
  BY DEF Init, GraphInit, BatchInit
<1>2. \A x : CalleesOf(x) \subseteq Fns
  BY <1>1, CalleesAreFns
<1>3. GraphInv
  BY <1>1, <1>2 DEF GraphInv
<1>4. WalkerInv
  BY <1>1, FnsAssumption DEF WalkerInv
<1>5. WalkInv
  BY <1>1 DEF WalkInv, FnsOf
<1>6. ReachInv
  <2>1. DOMAIN targets = {}
    BY <1>1
  <2> QED BY <2>1 DEF ReachInv
<1>7. WalkedInv
  BY <1>1 DEF WalkedInv
<1>8. MutationsInv /\ MadeInv /\ ConflictsInv /\ BatchesInv /\ WrittenInv
  BY <1>1 DEF MutationsInv, MadeInv, ConflictsInv, BatchesInv, WrittenInv, Late
<1>9. TaintInv
  <2>1. DOMAIN targets = {}
    BY <1>1
  <2> QED BY <2>1 DEF TaintInv, Untainted
<1> QED BY <1>3, <1>4, <1>5, <1>6, <1>7, <1>8, <1>9 DEF IInv

\* Every step of the pass preserves the invariant.
LEMMA StepInv ==
  ASSUME IInv, [Next]_vars
  PROVE  IInv'
<1> USE DEF IInv
<1>1. GraphInv' /\ WalkerInv'
  BY GraphStep, WalkerStep
<1>2. WalkInv'
  BY WalkInvStep
<1>3. ReachInv' /\ WalkedInv'
  BY ReachInvStep, WalkedInvStep
<1>4. TaintInv' /\ MadeInv'
  BY TaintStep, MadeStep
<1>5. MutationsInv' /\ ConflictsInv'
  BY MutationsStep, ConflictsStep
<1>6. BatchesInv' /\ WrittenInv'
  BY BatchesStep, WrittenStep
<1> QED BY <1>1, <1>2, <1>3, <1>4, <1>5, <1>6

\* The invariant holds throughout the pass.
LEMMA Invariant == Spec => []IInv
<1>1. Init => IInv
  BY InitInv
<1>2. IInv /\ [Next]_vars => IInv'
  BY StepInv
<1> QED BY <1>1, <1>2, PTL DEF Spec

-----------------------------------------------------------------------------
(* What the batches are *)

\* The invariant says of finished batches what is asked of them.
LEMMA InvBatchesValid ==
  ASSUME IInv
  PROVE  BatchesValid
<1> SUFFICES ASSUME step = "batched" PROVE BatchesValid
  BY DEF BatchesValid
<1> DEFINE ms(i) == batches[i].mutations
<1>1. /\ Good(batches) /\ options \in MutationBatchingOptions /\ \A m \in Mutations : InBatch(m, batches)
  BY DEF IInv, BatchesInv
<1>2. \A i \in DOMAIN batches : ms(i) \subseteq Mutations /\ Fit(ms(i))
  <2>1. \A i \in DOMAIN batches : batches[i] \in BatchType
    BY <1>1 DEF Good
  <2> QED BY <1>1, <2>1 DEF Good, BatchType
<1>3. options.size \in Nat
  BY <1>1 DEF MutationBatchingOptions
<1>4. Max({1, options.size}) \in Nat /\ Max({1, options.size}) >= 1 /\ Max({1, options.size}) >= options.size
  <2>1. \E x \in {1, options.size} : \A y \in {1, options.size} : x >= y
    BY <1>3
  <2> QED BY <1>3, <2>1 DEF Max
<1>5. UNION {ms(i) : i \in DOMAIN batches} = Mutations
  BY <1>1, <1>2 DEF InBatch
<1>6. \A i, j \in DOMAIN batches : i # j => batches[i].id # batches[j].id /\ ms(i) \cap ms(j) = {}
  BY <1>1 DEF Good, Apart
<1>7. ASSUME NEW i \in DOMAIN batches
      PROVE  /\ Cardinality(ms(i)) \in 1..Max({1, options.size})
             /\ ms(i) \subseteq graph.inProcess \/ Cardinality(ms(i)) = 1
             /\ \A a, b \in ms(i) : a # b => ~Conflicting(a, b)
  <2>1. Fit(ms(i))
    BY <1>2
  <2> DEFINE these == ms(i)
  <2>2. these # {} /\ IsFiniteSet(these) /\ \A a, b \in these : a # b => ~Conflicting(a, b)
    BY <2>1 DEF Fit
  <2>3. Cardinality(these) = 1 \/ Cardinality(these) <= options.size
    BY <2>1 DEF Fit
  <2> HIDE DEF these
  <2>4. Cardinality(these) \in Nat /\ Cardinality(these) # 0
    BY <2>2, FS_CardinalityType, FS_EmptySet
  <2>5. Cardinality(these) \in 1..Max({1, options.size})
    BY <2>3, <2>4, <1>3, <1>4
  <2>6. ASSUME Cardinality(these) # 1, NEW a \in these
        PROVE  a \in graph.inProcess
    <3>1. PICK b \in these : b # a
      <4>1. these # {a}
        BY <2>6, FS_Singleton
      <4> QED BY <4>1
    <3>2. ~Conflicting(a, b)
      BY <3>1, <2>2
    <3> QED BY <3>2 DEF Conflicting
  <2> QED BY <2>2, <2>5, <2>6 DEF these
<1> QED BY <1>5, <1>6, <1>7 DEF BatchesValid

\* However the mutations are batched, with whatever limit and whatever random choices: finished batches hold each mutation
\* once, keep the limit, set isolated mutations apart, and have no conflict in them (conflicts.rs, mutation.rs).
THEOREM BatchesHold == Spec => []BatchesValid
<1>1. IInv => BatchesValid
  BY InvBatchesValid
<1> QED BY <1>1, Invariant, PTL

-----------------------------------------------------------------------------
(* What runs in a mutant *)

\* Mutations of which no two conflict.
Peaceful(ms) == ms \subseteq DOMAIN mutations /\ \A a, b \in ms : a # b => ~Conflicting(a, b)

\* A map that sets only slots of these mutations to them, and a slot of each.
Sets(map, ms) ==
    /\ DOMAIN map = slots
    /\ \A s \in slots : map[s] = Empty \/ (map[s] \in ms /\ SetsSlot(mutations, s, map[s]))
    /\ \A m \in ms : \E s \in slots : SetsSlot(mutations, s, m) /\ map[s] = m

\* The ids of the mutations, when the program is written.
LEMMA WrittenIds ==
  ASSUME IInv, phase = "written"
  PROVE  /\ DOMAIN mutations = Mutations /\ Mutations \subseteq Nat /\ Empty \notin Mutations
         /\ slots = WrittenSlots(mutations, program.shapes)
         /\ \A a \in Mutations : mutations[a].fn \in DOMAIN targets
<1>1. mutations \in Seq(Range(mutations)) /\ graph.n = Len(mutations)
  BY DEF IInv, MutationsInv, ConflictsInv, Late
<1>2. DOMAIN mutations = Mutations /\ graph.n \in Nat
  BY <1>1 DEF Mutations
<1>3. Mutations \subseteq Nat /\ Empty \notin Mutations
  BY <1>2 DEF Mutations, Empty
<1> QED BY <1>2, <1>3 DEF IInv, WrittenInv, MutationsInv, Late

\* Mutations that do not conflict are in different functions, as each function they are in is reached by some test.
LEMMA ApartInFunctions ==
  ASSUME IInv, phase = "written", NEW a \in Mutations, NEW b \in Mutations, a # b, ~Conflicting(a, b)
  PROVE  /\ mutations[a].fn # mutations[b].fn
         /\ TestsOf(mutations[a]) \cap TestsOf(mutations[b]) = {}
         /\ TestsOf(mutations[a]) \cap truncated = {}
<1>1. /\ TestsOf(mutations[a]) \cap TestsOf(mutations[b]) = {}
      /\ TestsOf(mutations[a]) \cap truncated = {}
  BY DEF IInv, ConflictsInv
<1>2. mutations[a].fn \in DOMAIN targets
  BY WrittenIds
<1>3. TestsOf(mutations[a]) # {}
  BY <1>2 DEF IInv, ReachInv, TestsOf
<1> QED BY <1>1, <1>3 DEF TestsOf

\* Where the map sets mutations that do not conflict, a test of one of them runs the code of that one alone.
LEMMA SetsThenMeets ==
  ASSUME IInv, phase = "written", NEW ms, Peaceful(ms), NEW map, Sets(map, ms),
         NEW m \in ms, NEW t \in TestsOf(mutations[m])
  PROVE  t \in Tests /\ {k \in Running(mutations, slots, map) : mutations[k].fn \in TrulyReached(t)} = {m}
<1>1. m \in Mutations /\ ms \subseteq Mutations /\ DOMAIN mutations = Mutations /\ Empty \notin Mutations
  BY WrittenIds DEF Peaceful
<1>2. mutations[m].fn \in DOMAIN targets /\ t \in DOMAIN targets[mutations[m].fn].reach
  BY <1>1, WrittenIds DEF TestsOf
<1>3. t \in Tests /\ mutations[m].fn \in TrulyReached(t)
  BY <1>2 DEF IInv, ReachInv
<1>4. m \in Running(mutations, slots, map)
  BY <1>1 DEF Running, Sets
<1>5. ASSUME NEW k \in Running(mutations, slots, map), mutations[k].fn \in TrulyReached(t)
      PROVE  k = m
  <2>1. k \in Mutations /\ k \in ms
    BY <1>1 DEF Running, Sets
  <2>2. ASSUME k # m
        PROVE  FALSE
    <3>1. ~Conflicting(m, k)
      BY <2>1, <2>2 DEF Peaceful
    <3>2. t \notin TestsOf(mutations[k]) /\ t \notin truncated
      BY <1>1, <2>1, <2>2, <3>1, ApartInFunctions
    <3>3. mutations[k].fn \in DOMAIN targets /\ DOMAIN targets \subseteq program.mutable
      BY <2>1, WrittenIds DEF IInv, ReachInv
    <3>4. t \in Tests \ (toWalk \cup {walker})
      BY <1>3, FnsAssumption DEF IInv, WalkerInv
    <3>5. Recorded(t, mutations[k].fn)
      BY <1>5, <3>2, <3>3, <3>4 DEF IInv, WalkedInv
    <3> QED BY <3>2, <3>5 DEF Recorded, TestsOf
  <2> QED BY <2>2
<1> QED BY <1>3, <1>4, <1>5

\* The map of a mutant of mutations that do not conflict sets them all.
LEMMA SubstMapSets ==
  ASSUME IInv, phase = "written", NEW ms, Peaceful(ms)
  PROVE  Sets(SubstMap(mutations, slots, ms), ms)
<1> DEFINE map == SubstMap(mutations, slots, ms)
           Setting(s) == {i \in ms : SetsSlot(mutations, s, i)}
<1>1. ms \subseteq Mutations /\ ms \subseteq Nat
  BY WrittenIds DEF Peaceful
<1>2. DOMAIN map = slots /\ \A s \in slots : map[s] = IF Setting(s) = {} THEN Empty ELSE Min(Setting(s))
  BY DEF SubstMap
<1> HIDE DEF map
<1>3. ASSUME NEW S \in SUBSET Nat, S # {}
      PROVE  Min(S) \in S
  <2>1. \E x \in S : \A y \in S : x <= y
    BY <1>3, LeastNatural
  <2> QED BY <2>1 DEF Min
<1>4. ASSUME NEW s \in slots, map[s] # Empty
      PROVE  map[s] \in ms /\ SetsSlot(mutations, s, map[s])
  <2>1. Setting(s) # {} /\ map[s] = Min(Setting(s)) /\ Setting(s) \in SUBSET Nat
    BY <1>1, <1>2, <1>4
  <2>2. map[s] \in Setting(s)
    <3> HIDE DEF Setting
    <3> QED BY <2>1, <1>3
  <2> QED BY <2>2
<1>5. ASSUME NEW m \in ms
      PROVE  \E s \in slots : SetsSlot(mutations, s, m) /\ map[s] = m
  <2> DEFINE s == <<mutations[m].fn, IF KeepsOriginal(program.shapes[mutations[m].fn]) THEN "guard" ELSE ToString(mutations[m].loc)>>
  <2>1. mutations[m] \in Range(mutations)
    BY <1>1, WrittenIds DEF Range
  <2>2. s \in slots
    BY <2>1, WrittenIds DEF WrittenSlots
  <2>3. s[1] = mutations[m].fn /\ (s[2] = "guard" \/ s[2] = ToString(mutations[m].loc))
    OBVIOUS
  <2> HIDE DEF s
  <2>4. SetsSlot(mutations, s, m)
    BY <2>3 DEF SetsSlot
  <2>5. Setting(s) = {m}
    <3> SUFFICES ASSUME NEW i \in ms, SetsSlot(mutations, s, i) PROVE i = m
      BY <2>4
    <3>1. mutations[i].fn = mutations[m].fn
      BY <2>3 DEF SetsSlot
    <3>2. i # m => ~Conflicting(i, m)
      BY DEF Peaceful
    <3> QED BY <1>1, <3>1, <3>2, ApartInFunctions
  <2>6. Min({m}) = m
    <3>1. {m} \in SUBSET Nat
      BY <1>1
    <3> QED BY <3>1, <1>3
  <2>7. map[s] = m
    <3> HIDE DEF Setting
    <3> QED BY <1>2, <2>2, <2>5, <2>6
  <2> QED BY <2>2, <2>4, <2>7
<1> QED BY <1>2, <1>4, <1>5 DEF Sets, map

\* The maps of two mutations that do not conflict set both when one is laid over the other.
LEMMA OverlaySets ==
  ASSUME IInv, phase = "written", NEW a \in Mutations, NEW b \in Mutations, a # b, ~Conflicting(a, b),
         NEW map, Sets(map, {a}), NEW over, Sets(over, {b})
  PROVE  Sets(Overlay(map, over), {a, b})
<1> DEFINE both == Overlay(map, over)
<1>1. DOMAIN both = slots /\ \A s \in slots : both[s] = IF over[s] = Empty THEN map[s] ELSE over[s]
  BY DEF Overlay, Sets
<1> HIDE DEF both
<1>2. \A s \in slots : both[s] = Empty \/ (both[s] \in {a, b} /\ SetsSlot(mutations, s, both[s]))
  BY <1>1 DEF Sets
<1>3. \E s \in slots : SetsSlot(mutations, s, a) /\ both[s] = a
  <2>1. PICK s \in slots : SetsSlot(mutations, s, a) /\ map[s] = a
    BY DEF Sets
  <2>2. over[s] = Empty
    <3>1. mutations[a].fn # mutations[b].fn
      BY ApartInFunctions
    <3> QED BY <2>1, <3>1 DEF Sets, SetsSlot
  <2> QED BY <1>1, <2>1, <2>2
<1>4. \E s \in slots : SetsSlot(mutations, s, b) /\ both[s] = b
  <2>1. PICK s \in slots : SetsSlot(mutations, s, b) /\ over[s] = b
    BY DEF Sets
  <2>2. b # Empty
    BY WrittenIds
  <2> QED BY <1>1, <2>1, <2>2
<1> QED BY <1>1, <1>2, <1>3, <1>4 DEF Sets, both

\* The invariant says of the written program what is asked of its mutants.
LEMMA InvMeetsOnly ==
  ASSUME IInv
  PROVE  MeetsOnlyItsMutation
<1> SUFFICES ASSUME phase = "written" PROVE MeetsOnlyItsMutation
  BY DEF MeetsOnlyItsMutation
<1> DEFINE Map(mutant) == SubstMap(mutations, slots, mutant)
           hits == [t \in Tests |-> TrulyReached(t)]
           Meets(map, mutant) ==
             \A m \in mutant : \A t \in TestsOf(mutations[m]) :
                {k \in Running(mutations, slots, map) : mutations[k].fn \in hits[t]} = {m}
<1>1. DOMAIN mutations = Mutations
  BY WrittenIds
<1>2. ASSUME NEW ms, Peaceful(ms), NEW map, Sets(map, ms)
      PROVE  Meets(map, ms)
  <2> SUFFICES ASSUME NEW m \in ms, NEW t \in TestsOf(mutations[m])
               PROVE  {k \in Running(mutations, slots, map) : mutations[k].fn \in hits[t]} = {m}
    OBVIOUS
  <2>1. t \in Tests /\ {k \in Running(mutations, slots, map) : mutations[k].fn \in TrulyReached(t)} = {m}
    BY <1>2, SetsThenMeets
  <2> QED BY <2>1
<1>3. ASSUME NEW i \in DOMAIN batches
      PROVE  Meets(Map(batches[i].mutations), batches[i].mutations)
  <2> DEFINE ms == batches[i].mutations
  <2>1. Good(batches)
    BY DEF IInv, WrittenInv, BatchesInv
  <2>2. batches[i] \in BatchType /\ Fit(ms)
    BY <2>1 DEF Good
  <2>3. Peaceful(ms)
    BY <1>1, <2>2 DEF Peaceful, BatchType, Fit
  <2> HIDE DEF ms, Meets
  <2>4. Sets(Map(ms), ms)
    BY <2>3, SubstMapSets
  <2>5. Meets(Map(ms), ms)
    BY <1>2, <2>3, <2>4
  <2> QED BY <2>5 DEF ms
<1>4. ASSUME NEW a \in Mutations, NEW b \in Mutations, a # b, ~Conflicting(a, b)
      PROVE  Meets(Overlay(Map({a}), Map({b})), {a, b})
  <2>1. Peaceful({a}) /\ Peaceful({b})
    BY <1>1 DEF Peaceful
  <2>2. Peaceful({a, b})
    <3>1. ~Conflicting(b, a)
      <4>1. {a, b} = {b, a}
        OBVIOUS
      <4> QED BY <4>1, <1>4 DEF Conflicting
    <3> QED BY <1>1, <1>4, <3>1 DEF Peaceful
  <2>3. Sets(Map({a}), {a}) /\ Sets(Map({b}), {b})
    BY <2>1, SubstMapSets
  <2> HIDE DEF Map, Meets
  <2>4. Sets(Overlay(Map({a}), Map({b})), {a, b})
    BY <1>4, <2>3, OverlaySets
  <2> QED BY <1>2, <2>2, <2>4
<1>5. \A i \in DOMAIN batches : Meets(Map(batches[i].mutations), batches[i].mutations)
  BY ONLY <1>3
<1>6. \A a, b \in Mutations : a # b /\ ~Conflicting(a, b) => Meets(Overlay(Map({a}), Map({b})), {a, b})
  BY ONLY <1>4
<1> QED BY ONLY <1>5, <1>6, Zenon DEF MeetsOnlyItsMutation

\* For every program, whatever the limits, the unsafe targeting, the filters and the batches: in every mutant, and in
\* every two that may run side by side, a test of a mutation meets the code of no other (call_graph.rs truncated entry
\* points, conflicts.rs, write_substitutions, slot_mutations).
THEOREM MeetsOnly == Spec => []MeetsOnlyItsMutation
<1>1. IInv => MeetsOnlyItsMutation
  BY InvMeetsOnly
<1> QED BY <1>1, Invariant, PTL

-----------------------------------------------------------------------------
(* The table of the unsafe targeting *)

\* A function that safe paths alone lead to is skipped, and its mutations count as unsafe, by its own code.
LEMMA SafelyReached ==
  ASSUME program \in Programs, NEW f \in Fns, targets[f].unsafety = ItemUnsafety(f)
  PROVE  /\ Skipped(f) <=> \/ mode = "Safe" /\ program.safety[f] # NoSource
                           \/ mode # "Unsafe" /\ program.safety[f] = UnsafeCode
         /\ CountsAsUnsafe(targets[f].unsafety) <=>
                \/ program.safety[f] = UnsafeCode
                \/ mode \in {"Safe", "Cautious"} /\ program.safety[f] = Enclosing
         /\ \A site : InUnsafe(f, site) <=> "unsafe block" \in Range(site.path) \/ program.safety[f] = UnsafeCode
         /\ program.safety[f] \in {NoSource, Enclosing, UnsafeCode}
<1> DEFINE safety == program.safety[f]
           unsafety == targets[f].unsafety
<1>1. safety \in 0..2 /\ unsafety = IF safety = 0 THEN 0 ELSE 2 + safety
  BY SafetyType
<1> HIDE DEF safety, unsafety
<1>2. safety \in {NoSource, Enclosing, UnsafeCode}
  BY ONLY <1>1 DEF NoSource, Enclosing, UnsafeCode
<1>3. unsafety = NoSource <=> safety = NoSource
  BY ONLY <1>1 DEF NoSource
<1>4. unsafety \in {Tainted(UnsafeCode), Unsafe(UnsafeCode)} <=> safety = UnsafeCode
  BY ONLY <1>1 DEF UnsafeCode, Tainted, Unsafe
<1>5. unsafety \in {Tainted(Enclosing), Unsafe(Enclosing)} <=> safety = Enclosing
  BY ONLY <1>1 DEF Enclosing, Tainted, Unsafe
<1>6. unsafety = Unsafe(UnsafeCode) <=> safety = UnsafeCode
  BY ONLY <1>1 DEF UnsafeCode, Unsafe
<1>7. Skipped(f) <=> \/ mode = "Safe" /\ unsafety # NoSource
                     \/ mode # "Unsafe" /\ unsafety \in {Tainted(UnsafeCode), Unsafe(UnsafeCode)}
  BY Zenon DEF unsafety, Skipped
<1>8. CountsAsUnsafe(unsafety) <=>
          \/ unsafety \in {Tainted(UnsafeCode), Unsafe(UnsafeCode)}
          \/ mode \in {"Safe", "Cautious"} /\ unsafety \in {Tainted(Enclosing), Unsafe(Enclosing)}
  BY Zenon DEF CountsAsUnsafe
<1>9. \A site : InUnsafe(f, site) <=> "unsafe block" \in Range(site.path) \/ unsafety = Unsafe(UnsafeCode)
  BY Zenon DEF unsafety, InUnsafe
<1>10. /\ Skipped(f) <=> \/ mode = "Safe" /\ safety # NoSource
                         \/ mode # "Unsafe" /\ safety = UnsafeCode
       /\ CountsAsUnsafe(unsafety) <=>
              \/ safety = UnsafeCode
              \/ mode \in {"Safe", "Cautious"} /\ safety = Enclosing
       /\ \A site : InUnsafe(f, site) <=> "unsafe block" \in Range(site.path) \/ safety = UnsafeCode
  BY ONLY <1>3, <1>4, <1>5, <1>6, <1>7, <1>8, <1>9, Zenon
<1> QED BY <1>2, <1>10 DEF safety, unsafety

\* The table follows from what is made at each place, and from the unsafety of the targets.
LEMMA InvFollowsTable ==
  ASSUME IInv
  PROVE  FollowsTable
<1> SUFFICES ASSUME phase = "batch", NEW f \in Selected,
                    \A t \in DOMAIN targets[f].reach : targets[f].reach[t].source = NoSource,
                    NEW i \in DOMAIN program.sites[f],
                    Range(program.sites[f][i].path) \subseteq {"unsafe block"},
                    program.sites[f][i].node = "expression",
                    Proposed(f, program.sites[f][i]) # <<>>
             PROVE  LET made == {k \in Mutations : mutations[k].fn = f /\ mutations[k].site = i}
                        cell == Cell(f, program.sites[f][i])
                    IN /\ cell = "" <=> made = {}
                       /\ \A k \in made : IsUnsafe(mutations[k]) <=> cell = "unsafe M"
  BY Zenon DEF FollowsTable
<1> DEFINE site == program.sites[f][i]
           made == {k \in Mutations : mutations[k].fn = f /\ mutations[k].site = i}
<1>1. program \in Programs /\ f \in DOMAIN targets /\ f \in Fns
  BY ProgramsAssumption DEF IInv, GraphInv, ReachInv, Selected
<1>2. targets[f].unsafety = ItemUnsafety(f)
  BY <1>1 DEF IInv, TaintInv, Untainted
<1>3. Mutations = DOMAIN mutations
  <2>1. mutations \in Seq(Range(mutations)) /\ graph.n = Len(mutations)
    BY DEF IInv, MutationsInv, ConflictsInv, Late
  <2> QED BY ONLY <2>1 DEF Mutations
<1>4. made = {} <=> Skipped(f) \/ ~Offered(site)
  <2>1. MadeFrom(Range(mutations))
    BY DEF IInv, MadeInv
  <2>2. made # {} <=> \E m \in Range(mutations) : m.fn = f /\ m.site = i
    BY <1>3 DEF Range
  <2>3. HasProposals(f, site) <=> Offered(site)
    BY DEF HasProposals
  <2>4. Skipped(f) => \A m \in Range(mutations) : m.fn # f
    BY <2>1 DEF MadeFrom
  <2>5. ~Skipped(f) => MadeAt(Range(mutations), f, i, site)
    BY <2>1 DEF MadeFrom
  <2> QED BY <2>2, <2>3, <2>4, <2>5 DEF MadeAt
<1>5. ASSUME NEW k \in made
      PROVE  IsUnsafe(mutations[k]) <=> InUnsafe(f, site) \/ CountsAsUnsafe(targets[f].unsafety)
  <2>1. mutations[k] \in Range(mutations) /\ mutations[k].fn = f /\ mutations[k].site = i
    BY <1>3, <1>5 DEF Range
  <2>2. ~Skipped(f)
    BY <1>4, <1>5
  <2>3. MadeAt(Range(mutations), f, i, site)
    BY <2>2 DEF IInv, MadeInv, MadeFrom
  <2>4. mutations[k].inUnsafe = InUnsafe(f, site)
    BY <2>1, <2>3 DEF MadeAt
  <2> QED BY <2>1, <2>4 DEF IsUnsafe
<1> DEFINE below == "unsafe block" \in Range(site.path)
           safety == program.safety[f]
<1>6. Offered(site) <=> (below => mode = "Unsafe")
  BY DEF Offered, Closed, Transparent
<1>7. /\ Skipped(f) <=> \/ mode = "Safe" /\ safety # NoSource
                        \/ mode # "Unsafe" /\ safety = UnsafeCode
      /\ CountsAsUnsafe(targets[f].unsafety) <=>
             \/ safety = UnsafeCode
             \/ mode \in {"Safe", "Cautious"} /\ safety = Enclosing
      /\ InUnsafe(f, site) <=> below \/ safety = UnsafeCode
      /\ safety \in {NoSource, Enclosing, UnsafeCode}
  BY <1>1, <1>2, SafelyReached
<1> HIDE DEF below, safety, site, made
<1>8. CASE safety = UnsafeCode \/ below
  <2>1. Cell(f, site) = IF mode = "Unsafe" THEN "unsafe M" ELSE ""
    BY ONLY <1>8 DEF below, safety, Cell
  <2>2. made = {} <=> mode # "Unsafe"
    BY ONLY <1>4, <1>6, <1>7, <1>8 DEF NoSource, UnsafeCode
  <2>3. \A k \in made : IsUnsafe(mutations[k])
    BY ONLY <1>5, <1>7, <1>8
  <2> QED BY <2>1, <2>2, <2>3 DEF site, made
<1>9. CASE safety = Enclosing /\ ~below
  <2>1. Cell(f, site) = CASE mode = "Safe" -> "" [] mode = "Cautious" -> "unsafe M" [] OTHER -> "M"
    <3>1. ~(safety = UnsafeCode \/ below)
      BY ONLY <1>9 DEF Enclosing, UnsafeCode
    <3> QED BY ONLY <1>9, <3>1 DEF below, safety, Cell
  <2>2. made = {} <=> mode = "Safe"
    BY ONLY <1>4, <1>6, <1>7, <1>9 DEF NoSource, Enclosing, UnsafeCode
  <2>3. \A k \in made : IsUnsafe(mutations[k]) <=> mode \in {"Safe", "Cautious"}
    BY ONLY <1>5, <1>7, <1>9 DEF Enclosing, UnsafeCode
  <2> QED BY <2>1, <2>2, <2>3 DEF site, made
<1>10. CASE safety = NoSource /\ ~below
  <2>1. Cell(f, site) = "M"
    <3>1. ~(safety = UnsafeCode \/ below) /\ safety # Enclosing
      BY ONLY <1>10 DEF NoSource, Enclosing, UnsafeCode
    <3> QED BY ONLY <3>1 DEF below, safety, Cell
  <2>2. made # {}
    BY ONLY <1>4, <1>6, <1>7, <1>10 DEF NoSource, UnsafeCode
  <2>3. \A k \in made : ~IsUnsafe(mutations[k])
    BY ONLY <1>5, <1>7, <1>10 DEF NoSource, Enclosing, UnsafeCode
  <2> QED BY <2>1, <2>2, <2>3 DEF site, made
<1> QED BY <1>7, <1>8, <1>9, <1>10 DEF site, made

\* For every program, limits and options, what each flag of the unsafe targeting makes of code in unsafe code, beside an
\* unsafe block and elsewhere is what the table of UnsafeTargeting says, as long as no unsafe code leads there.
THEOREM TableHolds == Spec => []FollowsTable
<1>1. IInv => FollowsTable
  BY InvFollowsTable
<1> QED BY <1>1, Invariant, PTL

-----------------------------------------------------------------------------
(* The distances and sources of the walks *)

\* What may be said of functions: how far they are, and how unsafe the paths to them.
Lengths == [Fns -> Nat]
Sources == [Fns -> NoSource..UnsafeCode]

\* What a walk may know of a function is no shorter and no less safe than the paths from its test.
Sound(t, f, source, at) ==
    /\ \A away \in Lengths : NotTooLong({t}, away) => away[f] <= at
    /\ \A worst \in Sources : NotTooSafe(t, worst) => source <= worst[f]

\* What a walk knows of a function, and a target of a test.
ReachType == [distance : Nat, source : NoSource..UnsafeCode]

\* The distances in the graph, while it is recorded: a function that is not recorded and makes calls is as far as
\* the recording has come.
RecordingInv ==
    phase = "graph" =>
        /\ \A t \in Tests : CalleesOf(t) \subseteq Handled \cup callers
        /\ cutCallers \subseteq program.counted /\ (cutCallers # {} => AtDepthLimit)
        /\ \E away \in Lengths :
            /\ NotTooLong(Tests, away)
            /\ \A f \in Fns : f \notin recorded /\ CallsOf(f) # {} => away[f] = distance
            /\ \A c \in program.calls :
                c[1] \in recorded /\ c[2] \notin Handled \cup callers => away[c[1]] + Cost(c[1]) > distance

\* Then a function that is not recorded makes no calls, or none within the mutation depth.
RecordedInv ==
    phase # "graph" =>
        \E away \in Lengths :
            /\ NotTooLong(Tests, away)
            /\ \A f \in Fns : f \notin recorded /\ CallsOf(f) # {} => away[f] + Cost(f) >= limits.mutation

\* The limits are some of the limits; what is known of distances and sources are such.
TypeInv ==
    /\ limits \in Limits /\ distance \in Nat
    /\ \A e \in ToSet(queue) : e[2] \in NoSource..UnsafeCode
    /\ \A f \in DOMAIN reached : reached[f] \in ReachType
    /\ \A f \in DOMAIN targets : targets[f].distance \in Nat /\ \A t \in DOMAIN targets[f].reach : targets[f].reach[t] \in ReachType

\* The walk has been at a function as near as it knows it to be, and followed its calls from there.
Near(f) ==
    /\ f \in program.mutable =>
        /\ Recorded(walker, f)
        /\ targets[f].reach[walker].distance <= reached[f].distance /\ targets[f].distance <= reached[f].distance
    /\ \A c \in CallsOf(f) :
        \/ walker \in truncated /\ reached[f].distance + Cost(f) >= limits.mutation
        \/ c[2] \in DOMAIN reached /\ reached[c[2]].distance <= reached[f].distance + Cost(f)

\* The walk has been at a function by a path as unsafe as it knows.
Worst(f) ==
    /\ f \in program.mutable => Recorded(walker, f) /\ targets[f].reach[walker].source >= reached[f].source
    /\ \A c \in CallsOf(f) :
        \/ walker \in truncated
        \/ c[2] \in DOMAIN reached /\ reached[c[2]].source >= IF IsUnsafeCall(c) THEN UnsafeCode ELSE reached[f].source

\* What a walk knows is true of its test; where it has not been, as near or as unsafe as it knows, is in its queue.
SearchInv ==
    walker # NoTest =>
        /\ \A f \in CalleesOf(walker) : f \in DOMAIN reached /\ reached[f].distance = 0 /\ reached[f].source >= program.safety[walker]
        /\ \A e \in ToSet(queue) : Sound(walker, e[1], e[2], e[3])
        /\ \A f \in DOMAIN reached : Near(f) \/ \E e \in ToSet(queue) : e[1] = f /\ e[3] <= reached[f].distance
        /\ \A f \in DOMAIN reached : Worst(f) \/ \E e \in ToSet(queue) : e[1] = f /\ e[2] >= reached[f].source

\* No target is nearer or more unsafe than the paths to it.
SoundInv ==
    \A f \in DOMAIN targets :
        /\ \A away \in Lengths : NotTooLong(Tests, away) => away[f] <= targets[f].distance
        /\ \A t \in DOMAIN targets[f].reach : Sound(t, f, targets[f].reach[t].source, targets[f].reach[t].distance)

\* Test t has left the functions within the mutation depth at their distances from it, or nearer.
Within(t) ==
    \E away \in Lengths :
        /\ NotTooLong({t}, away)
        /\ \A f \in program.mutable : away[f] < limits.mutation => f \in DOMAIN targets /\ targets[f].distance <= away[f]

\* What test t has left on function f is as near and as unsafe as it is.
Exact(t, f) ==
    /\ Recorded(t, f)
    /\ AtLeast({t}, f, targets[f].reach[t].distance) /\ AtMost(t, f, targets[f].reach[t].source)

\* What a walk leaves on the targets, and no later walk takes away.
Left(t) == Within(t) /\ (t \in truncated \/ \A f \in TrulyReached(t) \cap program.mutable : Exact(t, f))

\* Every test that has walked has left what it found.
LeftInv == \A t \in Tests \ (toWalk \cup {walker}) : Left(t)

\* The invariant of the distances and sources.
DistancesInv == RecordingInv /\ RecordedInv /\ TypeInv /\ SearchInv /\ SoundInv /\ LeftInv

-----------------------------------------------------------------------------
(* What the walks know of distances and sources *)

\* How far and how safe the paths are is a matter of the program.
LEMMA SamePaths ==
  ASSUME program' = program
  PROVE  /\ \A ts, away : NotTooLong(ts, away)' <=> NotTooLong(ts, away)
         /\ \A t, source : NotTooSafe(t, source)' <=> NotTooSafe(t, source)
         /\ \A f : Cost(f)' = Cost(f)
         /\ \A c : IsUnsafeCall(c)' <=> IsUnsafeCall(c)
<1>1. \A f : Cost(f)' = Cost(f)
  BY DEF Cost
<1>2. \A c : IsUnsafeCall(c)' <=> IsUnsafeCall(c)
  BY DEF IsUnsafeCall
<1>3. /\ \A x : CalleesOf(x)' = CalleesOf(x)
      /\ \A t : TrulyReached(t)' = TrulyReached(t)
  BY SameProgram
<1>4. \A ts, away : NotTooLong(ts, away)' <=> NotTooLong(ts, away)
  BY <1>1, <1>3 DEF NotTooLong
<1>5. \A t, source : NotTooSafe(t, source)' <=> NotTooSafe(t, source)
  BY <1>2, <1>3 DEF NotTooSafe
<1> QED BY <1>1, <1>2, <1>4, <1>5

\* So are the bounds on distances and sources.
LEMMA SameBounds ==
  ASSUME program' = program
  PROVE  /\ \A ts, f, n : AtLeast(ts, f, n)' <=> AtLeast(ts, f, n)
         /\ \A t, f, n : AtMost(t, f, n)' <=> AtMost(t, f, n)
         /\ \A t, f, source, at : Sound(t, f, source, at)' <=> Sound(t, f, source, at)
<1>1. \A ts, f, n : AtLeast(ts, f, n)' <=> AtLeast(ts, f, n)
  BY SamePaths DEF AtLeast
<1>2. \A t, f, n : AtMost(t, f, n)' <=> AtMost(t, f, n)
  BY SamePaths DEF AtMost
<1>3. \A t, f, source, at : Sound(t, f, source, at)' <=> Sound(t, f, source, at)
  BY SamePaths DEF Sound
<1> QED BY <1>1, <1>2, <1>3

\* The lesser of two numbers.
LEMMA MinOfTwo ==
  ASSUME NEW a \in Nat, NEW b \in Nat
  PROVE  Min({a, b}) = IF a <= b THEN a ELSE b
<1>1. \E x \in {a, b} : \A y \in {a, b} : x <= y
  OBVIOUS
<1>2. Min({a, b}) \in {a, b} /\ \A y \in {a, b} : Min({a, b}) <= y
  BY <1>1 DEF Min
<1> HIDE DEF Min
<1> QED BY <1>2

\* What is known of a function becomes better, of no other.
BetterKnown(now, known, f, source, at) ==
    /\ DOMAIN now = DOMAIN known \cup {f}
    /\ \A g \in DOMAIN known \ {f} : now[g] = known[g]
    /\ now[f] \in ReachType /\ now[f].distance <= at /\ now[f].source >= source
    /\ f \in DOMAIN known => now[f].distance <= known[f].distance /\ now[f].source >= known[f].source
    /\ now[f].distance = at \/ (f \in DOMAIN known /\ now[f].distance = known[f].distance)
    /\ now[f].source = source \/ (f \in DOMAIN known /\ now[f].source = known[f].source)

\* To improve what is known of a function makes it better by the distance and the source found.
LEMMA ImproveImproves ==
  ASSUME NEW known, \A g \in DOMAIN known : known[g] \in ReachType,
         NEW f, NEW source \in NoSource..UnsafeCode, NEW at \in Nat
  PROVE  BetterKnown(Improve(known, f, source, at), known, f, source, at)
<1> DEFINE now == Improve(known, f, source, at)
           best == IF f \in DOMAIN known
                   THEN [distance |-> Min({at, known[f].distance}), source |-> Max({source, known[f].source})]
                   ELSE [distance |-> at, source |-> source]
<1>1. now = [g \in DOMAIN known \cup {f} |-> IF g = f THEN best ELSE known[g]]
  BY Zenon DEF Improve
<1>2. NoSource..UnsafeCode \subseteq Nat
  BY DEF NoSource, UnsafeCode
<1>3. CASE f \in DOMAIN known
  <2>1. known[f].distance \in Nat /\ known[f].source \in NoSource..UnsafeCode
    BY <1>3 DEF ReachType
  <2>2. Min({at, known[f].distance}) = IF at <= known[f].distance THEN at ELSE known[f].distance
    BY <2>1, MinOfTwo
  <2>3. Max({source, known[f].source}) = IF source >= known[f].source THEN source ELSE known[f].source
    BY <2>1, <1>2, MaxOfTwo
  <2>4. best \in ReachType /\ best.distance = Min({at, known[f].distance}) /\ best.source = Max({source, known[f].source})
    BY <1>3, <2>1, <2>2, <2>3 DEF ReachType
  <2> HIDE DEF best, now
  <2>5. best.distance <= at /\ best.source >= source /\ best.distance <= known[f].distance /\ best.source >= known[f].source
    BY <2>1, <2>2, <2>3, <2>4, <1>2
  <2>6. now[f] = best /\ DOMAIN now = DOMAIN known \cup {f} /\ \A g \in DOMAIN known \ {f} : now[g] = known[g]
    BY <1>1
  <2>7. best.distance \in {at, known[f].distance} /\ best.source \in {source, known[f].source}
    BY <2>2, <2>3, <2>4
  <2> QED BY <1>3, <2>4, <2>5, <2>6, <2>7 DEF now, BetterKnown
<1>4. CASE f \notin DOMAIN known
  <2>1. best \in ReachType /\ best.distance = at /\ best.source = source
    BY <1>4 DEF ReachType
  <2> HIDE DEF best, now
  <2>2. now[f] = best /\ DOMAIN now = DOMAIN known \cup {f} /\ \A g \in DOMAIN known \ {f} : now[g] = known[g]
    BY <1>1
  <2> QED BY <1>2, <1>4, <2>1, <2>2 DEF now, BetterKnown
<1> QED BY <1>3, <1>4

\* The calls that a walk finds: of a function, with a source, at a distance.
Ways == Fns \X (NoSource..UnsafeCode) \X Nat

\* What a walk becomes when it finds these calls: it knows nothing worse than before, and nothing worse than what the
\* calls say; what it knows better than before is in its queue.
Improved(w, walk, ways) ==
    /\ w.queue \in Seq(Ways)
    /\ ToSet(walk.queue) \subseteq ToSet(w.queue) /\ ToSet(w.queue) \subseteq ToSet(walk.queue) \cup ways
    /\ \A f \in DOMAIN w.reached : w.reached[f] \in ReachType
    /\ \A f \in DOMAIN walk.reached :
        /\ f \in DOMAIN w.reached
        /\ w.reached[f].distance <= walk.reached[f].distance /\ w.reached[f].source >= walk.reached[f].source
    /\ \A e \in ways : e[1] \in DOMAIN w.reached /\ w.reached[e[1]].distance <= e[3] /\ w.reached[e[1]].source >= e[2]
    /\ \A f \in DOMAIN w.reached :
        \/ f \in DOMAIN walk.reached /\ walk.reached[f].distance <= w.reached[f].distance
        \/ \E e \in ToSet(w.queue) : e[1] = f /\ e[3] <= w.reached[f].distance
    /\ \A f \in DOMAIN w.reached :
        \/ f \in DOMAIN walk.reached /\ walk.reached[f].source >= w.reached[f].source
        \/ \E e \in ToSet(w.queue) : e[1] = f /\ e[2] >= w.reached[f].source

\* A walk has a queue of calls and knows distances and sources.
Typed(walk) == walk.queue \in Seq(Ways) /\ \A f \in DOMAIN walk.reached : walk.reached[f] \in ReachType

\* Calls found after others.
LEMMA ImprovedOn ==
  ASSUME NEW w2, NEW w1, NEW w0, NEW A \in SUBSET Ways, NEW B \in SUBSET Ways, Typed(w0), Improved(w1, w0, A), Improved(w2, w1, B)
  PROVE  Improved(w2, w0, A \cup B)
<1>0. NoSource..UnsafeCode \subseteq Nat
  BY DEF NoSource, UnsafeCode
<1>1. /\ \A f \in DOMAIN w0.reached : w0.reached[f].distance \in Nat /\ w0.reached[f].source \in Nat
      /\ \A f \in DOMAIN w1.reached : w1.reached[f].distance \in Nat /\ w1.reached[f].source \in Nat
      /\ \A f \in DOMAIN w2.reached : w2.reached[f].distance \in Nat /\ w2.reached[f].source \in Nat
  BY <1>0 DEF Typed, Improved, ReachType
<1>2. \A e \in Ways : e[2] \in Nat /\ e[3] \in Nat
  BY <1>0 DEF Ways
<1>3. /\ w2.queue \in Seq(Ways) /\ \A f \in DOMAIN w2.reached : w2.reached[f] \in ReachType
      /\ ToSet(w0.queue) \subseteq ToSet(w2.queue) /\ ToSet(w2.queue) \subseteq ToSet(w0.queue) \cup A \cup B
      /\ ToSet(w1.queue) \subseteq ToSet(w2.queue)
  BY DEF Improved
<1>4. ASSUME NEW f \in DOMAIN w1.reached
      PROVE  /\ f \in DOMAIN w2.reached
             /\ w2.reached[f].distance <= w1.reached[f].distance /\ w2.reached[f].source >= w1.reached[f].source
  BY DEF Improved
<1>5. ASSUME NEW f \in DOMAIN w0.reached
      PROVE  /\ f \in DOMAIN w2.reached
             /\ w2.reached[f].distance <= w0.reached[f].distance /\ w2.reached[f].source >= w0.reached[f].source
  <2>1. /\ f \in DOMAIN w1.reached
        /\ w1.reached[f].distance <= w0.reached[f].distance /\ w1.reached[f].source >= w0.reached[f].source
    BY DEF Improved
  <2> QED BY <2>1, <1>4, <1>1
<1>6. ASSUME NEW e \in A \cup B
      PROVE  e[1] \in DOMAIN w2.reached /\ w2.reached[e[1]].distance <= e[3] /\ w2.reached[e[1]].source >= e[2]
  <2>1. CASE e \in B
    BY <2>1 DEF Improved
  <2>2. CASE e \in A
    <3>1. e[1] \in DOMAIN w1.reached /\ w1.reached[e[1]].distance <= e[3] /\ w1.reached[e[1]].source >= e[2]
      BY <2>2 DEF Improved
    <3> QED BY <3>1, <1>4, <1>1, <1>2
  <2> QED BY <2>1, <2>2
<1>7. ToSet(w1.queue) \subseteq Ways /\ ToSet(w2.queue) \subseteq Ways
  <2>1. w1.queue \in Seq(Ways) /\ w2.queue \in Seq(Ways)
    BY DEF Improved
  <2> HIDE DEF Ways
  <2> QED BY <2>1 DEF ToSet
<1>8. ASSUME NEW f \in DOMAIN w2.reached
      PROVE  \/ f \in DOMAIN w0.reached /\ w0.reached[f].distance <= w2.reached[f].distance
             \/ \E e \in ToSet(w2.queue) : e[1] = f /\ e[3] <= w2.reached[f].distance
  <2>1. CASE \E e \in ToSet(w2.queue) : e[1] = f /\ e[3] <= w2.reached[f].distance
    BY <2>1
  <2>2. CASE f \in DOMAIN w1.reached /\ w1.reached[f].distance <= w2.reached[f].distance
    <3>1. CASE f \in DOMAIN w0.reached /\ w0.reached[f].distance <= w1.reached[f].distance
      BY <2>2, <3>1, <1>1
    <3>2. CASE \E e \in ToSet(w1.queue) : e[1] = f /\ e[3] <= w1.reached[f].distance
      <4>1. PICK e \in ToSet(w1.queue) : e[1] = f /\ e[3] <= w1.reached[f].distance
        BY <3>2
      <4>2. e \in ToSet(w2.queue) /\ e[3] \in Nat
        BY <1>2, <1>3, <1>7
      <4> QED BY <4>1, <4>2, <2>2, <1>1
    <3> QED BY <3>1, <3>2, <2>2 DEF Improved
  <2> QED BY <2>1, <2>2 DEF Improved
<1>9. ASSUME NEW f \in DOMAIN w2.reached
      PROVE  \/ f \in DOMAIN w0.reached /\ w0.reached[f].source >= w2.reached[f].source
             \/ \E e \in ToSet(w2.queue) : e[1] = f /\ e[2] >= w2.reached[f].source
  <2>1. CASE \E e \in ToSet(w2.queue) : e[1] = f /\ e[2] >= w2.reached[f].source
    BY <2>1
  <2>2. CASE f \in DOMAIN w1.reached /\ w1.reached[f].source >= w2.reached[f].source
    <3>1. CASE f \in DOMAIN w0.reached /\ w0.reached[f].source >= w1.reached[f].source
      BY <2>2, <3>1, <1>1
    <3>2. CASE \E e \in ToSet(w1.queue) : e[1] = f /\ e[2] >= w1.reached[f].source
      <4>1. PICK e \in ToSet(w1.queue) : e[1] = f /\ e[2] >= w1.reached[f].source
        BY <3>2
      <4>2. e \in ToSet(w2.queue) /\ e[2] \in Nat
        BY <1>2, <1>3, <1>7
      <4> QED BY <4>1, <4>2, <2>2, <1>1
    <3> QED BY <3>1, <3>2, <2>2 DEF Improved
  <2> QED BY <2>1, <2>2 DEF Improved
<1> QED BY <1>3, <1>5, <1>6, <1>8, <1>9 DEF Improved

\* A call is put at the back of the queue or in front of it.
LEMMA AppendHolds ==
  ASSUME NEW S, NEW q \in Seq(S), NEW e \in S
  PROVE  /\ Append(q, e) \in Seq(S) /\ ToSet(Append(q, e)) = ToSet(q) \cup {e}
         /\ <<e>> \o q \in Seq(S) /\ ToSet(<<e>> \o q) = ToSet(q) \cup {e}
<1>1. Append(q, e) \in Seq(S) /\ <<e>> \o q \in Seq(S)
  OBVIOUS
<1>2. ToSet(Append(q, e)) = ToSet(q) \cup {e}
  <2> DEFINE r == Append(q, e)
  <2>1. DOMAIN r = DOMAIN q \cup {Len(q) + 1} /\ r[Len(q) + 1] = e
    OBVIOUS
  <2>2. \A i \in DOMAIN q : r[i] = q[i]
    OBVIOUS
  <2> HIDE DEF r
  <2> QED BY <2>1, <2>2 DEF ToSet, r
<1>3. ToSet(<<e>> \o q) = ToSet(q) \cup {e}
  <2> DEFINE r == <<e>> \o q
  <2>1. r[1] = e /\ DOMAIN r = 1..(Len(q) + 1) /\ DOMAIN q = 1..Len(q) /\ Len(q) \in Nat
    OBVIOUS
  <2>2. \A i \in DOMAIN q : r[i + 1] = q[i]
    OBVIOUS
  <2> HIDE DEF r
  <2>3. \A i \in DOMAIN q : i + 1 \in DOMAIN r
    BY <2>1
  <2>4. \A i \in DOMAIN r : i = 1 \/ i - 1 \in DOMAIN q
    BY <2>1
  <2>5. \A i \in DOMAIN r : r[i] = e \/ \E j \in DOMAIN q : r[i] = q[j]
    <3> SUFFICES ASSUME NEW i \in DOMAIN r, i # 1 PROVE \E j \in DOMAIN q : r[i] = q[j]
      BY <2>1
    <3>1. i - 1 \in DOMAIN q /\ (i - 1) + 1 = i
      BY <2>1, <2>4
    <3> QED BY <3>1, <2>2
  <2>6. \A j \in DOMAIN q : \E i \in DOMAIN r : r[i] = q[j]
    BY <2>2, <2>3
  <2>7. 1 \in DOMAIN r
    BY <2>1
  <2> QED BY <2>1, <2>5, <2>6, <2>7 DEF ToSet, r
<1> QED BY <1>1, <1>2, <1>3

\* One call found.
LEMMA FollowImproves ==
  ASSUME NEW walk, Typed(walk), NEW call \in Ways, NEW toBack \in BOOLEAN
  PROVE  Improved(Follow(walk, call[1], call[2], call[3], toBack), walk, {call})
<1> DEFINE w == Follow(walk, call[1], call[2], call[3], toBack)
           f == call[1]
           source == call[2]
           at == call[3]
           known == walk.reached
<1>0. f \in Fns /\ source \in NoSource..UnsafeCode /\ at \in Nat /\ <<f, source, at>> = call /\ NoSource..UnsafeCode \subseteq Nat
  BY DEF Ways, NoSource, UnsafeCode
<1>1. \A g \in DOMAIN known : known[g] \in ReachType /\ known[g].distance \in Nat /\ known[g].source \in Nat
  BY <1>0 DEF Typed, ReachType
<1>2. walk.queue \in Seq(Ways)
  BY DEF Typed
<1>3. CASE ~Improves(known, f, source, at)
  <2>1. w = walk
    BY <1>3 DEF Follow
  <2> HIDE DEF w
  <2>2. f \in DOMAIN known /\ ~(at < known[f].distance) /\ ~(source > known[f].source)
    BY <1>3 DEF Improves
  <2>3. known[f].distance <= at /\ known[f].source >= source
    BY <2>2, <1>0, <1>1
  <2>4. Improved(walk, walk, {call})
    BY <2>2, <2>3, <1>1, <1>2 DEF Improved
  <2> QED BY <2>1, <2>4 DEF w
<1>4. CASE Improves(known, f, source, at)
  <2>1. /\ w.reached = Improve(known, f, source, at)
        /\ w.queue = IF toBack THEN Append(walk.queue, <<f, source, at>>) ELSE <<<<f, source, at>>>> \o walk.queue
    BY <1>4 DEF Follow
  <2> DEFINE now == w.reached
  <2>2. BetterKnown(now, known, f, source, at)
    <3>1. w.reached = Improve(known, f, source, at)
      BY <2>1
    <3>2. \A g \in DOMAIN known : known[g] \in ReachType
      BY <1>1
    <3> HIDE DEF w, known, f, source, at
    <3> QED BY ONLY <3>1, <3>2, <1>0, ImproveImproves
  <2>3. w.queue \in Seq(Ways) /\ ToSet(w.queue) = ToSet(walk.queue) \cup {call}
    <3> HIDE DEF Ways, w
    <3>1. w.queue = IF toBack THEN Append(walk.queue, call) ELSE <<call>> \o walk.queue
      BY <2>1, <1>0
    <3>2. call \in Ways
      OBVIOUS
    <3> QED BY ONLY <3>1, <3>2, <1>2, AppendHolds
  <2> HIDE DEF w, known, f, source, at
  <2> USE <2>2 DEF BetterKnown
  <2>4. \A g \in DOMAIN now : now[g] \in ReachType /\ now[g].distance \in Nat /\ now[g].source \in Nat
    BY <2>2, <1>0, <1>1 DEF ReachType
  <2>5. \A g \in DOMAIN known : g \in DOMAIN now /\ now[g].distance <= known[g].distance /\ now[g].source >= known[g].source
    <3> SUFFICES ASSUME NEW g \in DOMAIN known
                 PROVE  g \in DOMAIN now /\ now[g].distance <= known[g].distance /\ now[g].source >= known[g].source
      OBVIOUS
    <3>1. CASE g = f
      BY <3>1, <2>2
    <3>2. CASE g # f
      BY <3>2, <2>2, <1>1
    <3> QED BY <3>1, <3>2
  <2>6. call \in ToSet(w.queue) /\ call[1] = f /\ call[2] = source /\ call[3] = at
    BY <2>3 DEF f, source, at
  <2>7. ASSUME NEW g \in DOMAIN now
        PROVE  /\ \/ g \in DOMAIN known /\ known[g].distance <= now[g].distance
                  \/ \E e \in ToSet(w.queue) : e[1] = g /\ e[3] <= now[g].distance
               /\ \/ g \in DOMAIN known /\ known[g].source >= now[g].source
                  \/ \E e \in ToSet(w.queue) : e[1] = g /\ e[2] >= now[g].source
    <3>1. CASE g # f
      BY <3>1, <2>2, <1>1
    <3>2. CASE g = f
      <4>1. \/ g \in DOMAIN known /\ known[g].distance <= now[g].distance
            \/ call[1] = g /\ call[3] <= now[g].distance
        BY <3>2, <2>2, <2>4, <2>6, <1>0, <1>1
      <4>2. \/ g \in DOMAIN known /\ known[g].source >= now[g].source
            \/ call[1] = g /\ call[2] >= now[g].source
        BY <3>2, <2>2, <2>4, <2>6, <1>0, <1>1
      <4> QED BY <4>1, <4>2, <2>6
    <3> QED BY <3>1, <3>2
  <2>8. f \in DOMAIN now /\ now[f].distance <= at /\ now[f].source >= source
    BY <2>2
  <2> QED BY <2>3, <2>4, <2>5, <2>6, <2>7, <2>8 DEF Improved, w, known, f, source, at
<1> QED BY <1>3, <1>4

\* The calls found, one after another.
LEMMA FollowAllImproves ==
  ASSUME NEW walk, Typed(walk), NEW calls \in Seq(Ways), NEW toBack \in BOOLEAN
  PROVE  Improved(FollowAll(walk, calls, toBack), walk, ToSet(calls))
<1> DEFINE after == CHOOSE f : Follows(f, walk, calls, toBack)
           First(n) == {calls[i] : i \in 1..n}
           Wrong == {n \in 0..Len(calls) : ~Improved(after[n], walk, First(n))}
<1>1. FollowAll(walk, calls, toBack) = after[Len(calls)]
  BY DEF FollowAll, Follows
<1>2. \E f : Follows(f, walk, calls, toBack)
  <2>1. Len(calls) \in Nat
    OBVIOUS
  <2> QED BY ONLY <2>1, FollowAllExists
<1>3. Follows(after, walk, calls, toBack)
  BY <1>2
<1>4. ASSUME NEW n \in 0..Len(calls)
      PROVE  after[n] = IF n = 0 THEN walk
                        ELSE Follow(after[n - 1], calls[n][1], calls[n][2], calls[n][3], toBack)
  BY <1>3 DEF Follows
<1> HIDE DEF after, Ways
<1>5. ASSUME Wrong # {}
      PROVE  FALSE
  <2>0. Wrong \in SUBSET Nat
    OBVIOUS
  <2> HIDE DEF Wrong
  <2>1. PICK n \in Wrong : \A m \in Wrong : n <= m
    BY <2>0, <1>5, LeastNatural
  <2>2. n \in 0..Len(calls) /\ ~Improved(after[n], walk, First(n))
    BY DEF Wrong
  <2>3. n # 0
    <3>1. after[0] = walk
      BY <1>4
    <3>2. First(0) = {}
      OBVIOUS
    <3>3. Improved(walk, walk, {})
      <4>1. \A f \in DOMAIN walk.reached : walk.reached[f].distance \in Nat /\ walk.reached[f].source \in Int
        BY DEF Typed, ReachType, NoSource, UnsafeCode
      <4> QED BY <4>1 DEF Improved, Typed
    <3> QED BY <3>1, <3>2, <3>3, <2>2
  <2>4. n \in 1..Len(calls) /\ n - 1 \in 0..Len(calls) /\ n - 1 \notin Wrong
    BY <2>1, <2>2, <2>3
  <2>5. Improved(after[n - 1], walk, First(n - 1))
    BY <2>4 DEF Wrong
  <2>6. after[n] = Follow(after[n - 1], calls[n][1], calls[n][2], calls[n][3], toBack)
    BY <2>2, <2>3, <1>4
  <2>7. calls[n] \in Ways
    BY <2>4
  <2>8. First(n) = First(n - 1) \cup {calls[n]}
    <3>1. 1..n = 1..(n - 1) \cup {n}
      BY <2>4
    <3> QED BY <3>1
  <2>9. First(n - 1) \in SUBSET Ways
    <3>1. \A i \in 1..(n - 1) : calls[i] \in Ways
      BY <2>4
    <3> QED BY <3>1
  <2> HIDE DEF First
  <2>10. Improved(after[n], after[n - 1], {calls[n]})
    <3>1. Typed(after[n - 1])
      BY <2>5 DEF Improved, Typed
    <3>2. Improved(Follow(after[n - 1], calls[n][1], calls[n][2], calls[n][3], toBack), after[n - 1], {calls[n]})
      BY ONLY <3>1, <2>7, toBack \in BOOLEAN, FollowImproves
    <3> QED BY <2>6, <3>2
  <2>11. {calls[n]} \in SUBSET Ways
    BY <2>7
  <2>12. Improved(after[n], walk, First(n - 1) \cup {calls[n]})
    BY ONLY <2>5, <2>9, <2>10, <2>11, Typed(walk), ImprovedOn
  <2> QED BY <2>8, <2>12, <2>2
<1>6. Improved(after[Len(calls)], walk, First(Len(calls)))
  <2>1. Len(calls) \in 0..Len(calls)
    OBVIOUS
  <2> HIDE DEF First
  <2> QED BY <2>1, <1>5
<1>7. First(Len(calls)) = ToSet(calls)
  BY DEF ToSet
<1> QED BY <1>1, <1>6, <1>7

\* What recording test t on function f leaves: nothing worse than before, nothing worse than what is recorded, and nothing
\* that is neither of the two.
Closer(new, t, f, source, at) ==
    /\ DOMAIN targets \subseteq DOMAIN new
    /\ \A g \in DOMAIN new : new[g].distance \in Nat /\ \A u \in DOMAIN new[g].reach : new[g].reach[u] \in ReachType
    /\ f \in program.mutable =>
        /\ f \in DOMAIN new /\ new[f].distance <= at
        /\ t \in DOMAIN new[f].reach /\ new[f].reach[t].distance <= at /\ new[f].reach[t].source >= source
    /\ \A g \in DOMAIN targets :
        /\ new[g].distance <= targets[g].distance
        /\ \A u \in DOMAIN targets[g].reach :
            /\ u \in DOMAIN new[g].reach /\ new[g].reach[u].distance <= targets[g].reach[u].distance
            /\ new[g].reach[u].source >= targets[g].reach[u].source
            /\ u # t => new[g].reach[u] = targets[g].reach[u]
    /\ \A g \in DOMAIN new :
        /\ (g \in DOMAIN targets /\ new[g].distance = targets[g].distance) \/ (g = f /\ new[g].distance = at)
        /\ \A u \in DOMAIN new[g].reach :
            /\ \/ g \in DOMAIN targets /\ u \in DOMAIN targets[g].reach /\ new[g].reach[u].distance = targets[g].reach[u].distance
               \/ g = f /\ u = t /\ new[g].reach[u].distance = at
            /\ \/ g \in DOMAIN targets /\ u \in DOMAIN targets[g].reach /\ new[g].reach[u].source = targets[g].reach[u].source
               \/ g = f /\ u = t /\ new[g].reach[u].source = source

\* record_target leaves that.
LEMMA RecordTargetCloser ==
  ASSUME TypeInv, NEW t, NEW f, NEW source \in NoSource..UnsafeCode, NEW at \in Nat
  PROVE  Closer(RecordTarget(t, f, source, at), t, f, source, at)
<1>0. ASSUME NEW g \in DOMAIN targets
      PROVE  /\ targets[g].distance \in Nat
             /\ \A u \in DOMAIN targets[g].reach :
                    /\ targets[g].reach[u] \in ReachType
                    /\ targets[g].reach[u].distance \in Nat /\ targets[g].reach[u].source \in Int
  BY DEF TypeInv, ReachType, NoSource, UnsafeCode
<1>1. CASE f \notin program.mutable
  <2>1. RecordTarget(t, f, source, at) = targets
    BY <1>1 DEF RecordTarget
  <2> QED BY <1>0, <1>1, <2>1 DEF Closer
<1>2. CASE f \in program.mutable
  <2> DEFINE old == IF f \in DOMAIN targets THEN targets[f]
                    ELSE [distance |-> at, unsafety |-> ItemUnsafety(f), reach |-> <<>>]
             rec == [distance |-> Min({at, old.distance}),
                     unsafety |-> Max({Tainted(source), old.unsafety}),
                     reach |-> Improve(old.reach, t, source, at)]
             new == RecordTarget(t, f, source, at)
  <2>1. new = [g \in DOMAIN targets \cup {f} |-> IF g = f THEN rec ELSE targets[g]]
    BY <1>2 DEF RecordTarget
  <2>2. old.distance \in Nat /\ \A u \in DOMAIN old.reach : old.reach[u] \in ReachType
    BY <1>0
  <2>3. /\ f \in DOMAIN targets => old = targets[f]
        /\ f \notin DOMAIN targets => old.distance = at /\ DOMAIN old.reach = {}
    OBVIOUS
  <2>4. rec.distance = Min({at, old.distance}) /\ rec.reach = Improve(old.reach, t, source, at)
    OBVIOUS
  <2> HIDE DEF old, rec, new
  <2>5. rec.distance \in {at, old.distance} /\ rec.distance <= at /\ rec.distance <= old.distance /\ rec.distance \in Nat
    BY <2>2, <2>4, MinOfTwo
  <2>6. BetterKnown(rec.reach, old.reach, t, source, at)
    BY <2>2, <2>4, ImproveImproves
  <2>7. DOMAIN new = DOMAIN targets \cup {f} /\ new[f] = rec /\ \A g \in DOMAIN targets \ {f} : new[g] = targets[g]
    BY <2>1
  <2>8. \A u \in DOMAIN rec.reach : rec.reach[u] \in ReachType
    BY <2>2, <2>6 DEF BetterKnown
  <2>9. /\ new[f].distance <= at /\ t \in DOMAIN new[f].reach
        /\ new[f].reach[t].distance <= at /\ new[f].reach[t].source >= source
    BY <2>5, <2>6, <2>7 DEF BetterKnown
  <2>10. ASSUME NEW g \in DOMAIN targets
         PROVE  /\ new[g].distance <= targets[g].distance
                /\ \A u \in DOMAIN targets[g].reach :
                    /\ u \in DOMAIN new[g].reach /\ new[g].reach[u].distance <= targets[g].reach[u].distance
                    /\ new[g].reach[u].source >= targets[g].reach[u].source
                    /\ u # t => new[g].reach[u] = targets[g].reach[u]
    <3>1. CASE g # f
      <4>1. new[g] = targets[g]
        BY <3>1, <2>7
      <4> QED BY <4>1, <1>0
    <3>2. CASE g = f
      <4>1. old = targets[g] /\ new[g] = rec
        BY <3>2, <2>3, <2>7
      <4>2. ASSUME NEW u \in DOMAIN old.reach
            PROVE  /\ u \in DOMAIN rec.reach /\ rec.reach[u].distance <= old.reach[u].distance
                   /\ rec.reach[u].source >= old.reach[u].source
                   /\ u # t => rec.reach[u] = old.reach[u]
        <5>1. CASE u = t
          BY <5>1, <2>6 DEF BetterKnown
        <5>2. CASE u # t
          <6>1. rec.reach[u] = old.reach[u] /\ u \in DOMAIN rec.reach
            BY <5>2, <2>6 DEF BetterKnown
          <6>2. old.reach[u].distance \in Nat /\ old.reach[u].source \in Int
            BY <1>0, <4>1
          <6> QED BY <6>1, <6>2
        <5> QED BY <5>1, <5>2
      <4> QED BY <4>1, <4>2, <2>5
    <3> QED BY <3>1, <3>2
  <2>11. ASSUME NEW g \in DOMAIN new
         PROVE  /\ new[g].distance \in Nat /\ \A u \in DOMAIN new[g].reach : new[g].reach[u] \in ReachType
                /\ (g \in DOMAIN targets /\ new[g].distance = targets[g].distance) \/ (g = f /\ new[g].distance = at)
                /\ \A u \in DOMAIN new[g].reach :
                    /\ \/ /\ g \in DOMAIN targets /\ u \in DOMAIN targets[g].reach
                          /\ new[g].reach[u].distance = targets[g].reach[u].distance
                       \/ g = f /\ u = t /\ new[g].reach[u].distance = at
                    /\ \/ /\ g \in DOMAIN targets /\ u \in DOMAIN targets[g].reach
                          /\ new[g].reach[u].source = targets[g].reach[u].source
                       \/ g = f /\ u = t /\ new[g].reach[u].source = source
    <3>1. CASE g # f
      <4>1. g \in DOMAIN targets /\ new[g] = targets[g]
        BY <3>1, <2>7
      <4> QED BY <4>1, <1>0
    <3>2. CASE g = f
      <4>1. new[g] = rec
        BY <3>2, <2>7
      <4>2. (g \in DOMAIN targets /\ rec.distance = targets[g].distance) \/ rec.distance = at
        BY <3>2, <2>3, <2>5
      <4>3. ASSUME NEW u \in DOMAIN rec.reach
            PROVE  /\ (u \in DOMAIN old.reach /\ rec.reach[u].distance = old.reach[u].distance)
                        \/ (u = t /\ rec.reach[u].distance = at)
                   /\ (u \in DOMAIN old.reach /\ rec.reach[u].source = old.reach[u].source)
                        \/ (u = t /\ rec.reach[u].source = source)
        <5>1. CASE u = t
          BY <5>1, <2>6 DEF BetterKnown
        <5>2. CASE u # t
          BY <5>2, <2>6 DEF BetterKnown
        <5> QED BY <5>1, <5>2
      <4>4. \A u \in DOMAIN old.reach : g \in DOMAIN targets /\ old = targets[g]
        BY <3>2, <2>3
      <4> QED BY <3>2, <4>1, <4>2, <4>3, <4>4, <2>5, <2>8
    <3> QED BY <3>1, <3>2
  <2> QED BY <2>7, <2>9, <2>10, <2>11 DEF Closer, new
<1> QED BY <1>1, <1>2

-----------------------------------------------------------------------------
(* The distances in the graph *)

\* What a call says of its caller and its callee.
LEMMA CallsAreOf ==
  ASSUME program \in Programs, NEW c \in program.calls
  PROVE  /\ c[1] \in Tests \cup Fns /\ c[2] \in Fns
         /\ c \in CallsOf(c[1]) /\ c[2] \in CalleesOf(c[1])
<1>1. c \in (Tests \cup Fns) \X Fns \X BOOLEAN
  BY ProgramsAssumption
<1>2. c \in CallsOf(c[1])
  BY DEF CallsOf
<1> QED BY <1>1, <1>2 DEF CalleesOf

\* Functions that are not recorded and make calls are as far as the recording has come, in every round of it.
LEMMA RecordCallersKeeps ==
  ASSUME GraphInv, TypeInv, RecordingInv, RecordCallers
  PROVE  RecordingInv'
<1> DEFINE new == callers \ recorded
           cut == IF AtDepthLimit THEN new \cap program.counted ELSE {}
           walked == new \ cut
<1>1. /\ program' = program /\ limits' = limits /\ distance' = distance /\ phase' = phase /\ phase = "graph"
      /\ recorded' = recorded \cup walked
      /\ cutCallers' = cutCallers \cup {f \in cut : CallsOf(f) # {}}
      /\ callers' = UNION {CalleesOf(f) : f \in walked \ program.counted}
  BY DEF RecordCallers
<1>2. /\ \A x : CallsOf(x)' = CallsOf(x) /\ CalleesOf(x)' = CalleesOf(x)
      /\ \A ts, away : NotTooLong(ts, away)' <=> NotTooLong(ts, away)
      /\ \A f : Cost(f)' = Cost(f)
  BY <1>1, SameProgram, SamePaths
<1>3. AtDepthLimit' <=> AtDepthLimit
  BY <1>1 DEF AtDepthLimit
<1>4. callers \subseteq Fns /\ program \in Programs
  BY DEF GraphInv
<1>5. PICK away \in Lengths :
        /\ NotTooLong(Tests, away)
        /\ \A f \in Fns : f \notin recorded /\ CallsOf(f) # {} => away[f] = distance
        /\ \A c \in program.calls :
            c[1] \in recorded /\ c[2] \notin Handled \cup callers => away[c[1]] + Cost(c[1]) > distance
  BY <1>1 DEF RecordingInv
<1>6. Handled \cup callers \subseteq Handled' \cup callers'
  BY <1>1, <1>2, <1>4 DEF Handled
<1>7. \A t \in Tests : CalleesOf(t) \subseteq Handled \cup callers
  BY <1>1 DEF RecordingInv
<1>8. cutCallers' \subseteq program.counted /\ (cutCallers' # {} => AtDepthLimit)
  BY <1>1 DEF RecordingInv
<1>9. ASSUME NEW c \in program.calls, c[1] \in recorded', c[2] \notin Handled' \cup callers'
      PROVE  away[c[1]] + Cost(c[1]) > distance
  <2>1. c[1] \in Tests \cup Fns /\ c \in CallsOf(c[1]) /\ c[2] \in CalleesOf(c[1])
    BY <1>4, CallsAreOf
  <2>2. CASE c[1] \in recorded
    BY <1>5, <1>6, <1>9, <2>2
  <2>3. CASE c[1] \in walked
    <3>1. c[1] \in program.counted
      BY <1>1, <1>9, <2>1, <2>3
    <3>2. away[c[1]] = distance
      BY <1>4, <1>5, <2>1, <2>3
    <3>3. Cost(c[1]) = 1 /\ distance \in Nat
      BY <3>1 DEF Cost, TypeInv
    <3> QED BY <3>2, <3>3
  <2> QED BY <1>1, <1>9, <2>2, <2>3
<1>10. \A f \in Fns : f \notin recorded' /\ CallsOf(f) # {} => away[f] = distance
  BY <1>1, <1>5
<1> HIDE DEF new, cut, walked
<1>11. \E a \in Lengths :
        /\ NotTooLong(Tests, a)
        /\ \A f \in Fns : f \notin recorded' /\ CallsOf(f) # {} => a[f] = distance'
        /\ \A c \in program.calls : c[1] \in recorded' /\ c[2] \notin Handled' \cup callers' => a[c[1]] + Cost(c[1]) > distance'
  BY <1>1, <1>5, <1>9, <1>10
<1>12. \A t \in Tests : CalleesOf(t) \subseteq Handled' \cup callers'
  BY <1>6, <1>7
<1> QED BY <1>1, <1>2, <1>3, <1>8, <1>11, <1>12 DEF RecordingInv, Lengths

\* When a distance is recorded, all functions that are not recorded and make calls can be put further away.
LEMMA AllFurther ==
  ASSUME GraphInv, TypeInv, RecordingInv, phase = "graph", callers = {}
  PROVE  \E away \in Lengths :
            /\ NotTooLong(Tests, away)
            /\ \A f \in Fns \ Handled : away[f] = distance + 1
            /\ \A f \in cutCallers : f \notin recorded /\ CallsOf(f) # {} => away[f] = distance
            /\ \A c \in program.calls : c[1] \in recorded /\ c[2] \notin Handled => away[c[1]] + Cost(c[1]) > distance
<1>1. PICK old \in Lengths :
        /\ NotTooLong(Tests, old)
        /\ \A f \in Fns : f \notin recorded /\ CallsOf(f) # {} => old[f] = distance
        /\ \A c \in program.calls : c[1] \in recorded /\ c[2] \notin Handled => old[c[1]] + Cost(c[1]) > distance
  BY DEF RecordingInv
<1> DEFINE away == [f \in Fns |-> IF f \in Handled THEN old[f] ELSE distance + 1]
<1>2. distance \in Nat /\ \A f \in Fns : old[f] \in Nat /\ Cost(f) \in {0, 1}
  BY <1>1 DEF TypeInv, Lengths, Cost
<1>3. away \in Lengths
  BY <1>2 DEF Lengths
<1>4. ASSUME NEW t \in Tests, NEW f \in CalleesOf(t)
      PROVE  away[f] = 0
  <2>1. f \in Fns /\ f \in Handled
    BY CalleesAreFns DEF GraphInv, RecordingInv
  <2>2. old[f] = 0
    BY <1>1 DEF NotTooLong
  <2> QED BY <2>1, <2>2
<1>5. ASSUME NEW c \in program.calls, c[1] \in Fns
      PROVE  away[c[2]] <= away[c[1]] + Cost(c[1])
  <2>1. c[2] \in Fns /\ c \in CallsOf(c[1])
    BY CallsAreOf DEF GraphInv
  <2>2. old[c[2]] <= old[c[1]] + Cost(c[1])
    BY <1>1, <1>5 DEF NotTooLong
  <2>3. CASE c[1] \notin Handled
    <3>1. old[c[1]] = distance /\ away[c[1]] = distance + 1
      BY <1>1, <1>5, <2>1, <2>3 DEF Handled
    <3>2. away[c[2]] = old[c[2]] \/ away[c[2]] = distance + 1
      BY <2>1
    <3> QED BY <3>1, <3>2, <2>1, <2>2, <1>2, <1>5
  <2>4. CASE c[1] \in Handled /\ c[2] \in Handled
    BY <2>1, <2>2, <2>4, <1>5
  <2>5. CASE c[1] \in Handled /\ c[2] \notin Handled
    <3>1. away[c[1]] = old[c[1]] /\ away[c[2]] = distance + 1
      BY <2>1, <2>5, <1>5
    <3>2. old[c[1]] + Cost(c[1]) > distance
      <4>1. CASE c[1] \in recorded
        BY <4>1, <1>1, <2>5
      <4>2. CASE c[1] \notin recorded
        <5>1. c[1] \in program.counted
          BY <4>2, <2>1, <2>5 DEF Handled, RecordingInv
        <5>2. old[c[1]] = distance
          BY <4>2, <1>1, <1>5, <2>1
        <5>3. Cost(c[1]) = 1
          BY <5>1 DEF Cost
        <5> QED BY <5>2, <5>3, <1>2
      <4> QED BY <4>1, <4>2
    <3> QED BY <3>1, <3>2, <1>2, <1>5
  <2> QED BY <2>3, <2>4, <2>5
<1>6. NotTooLong(Tests, away)
  BY <1>4, <1>5 DEF NotTooLong
<1>7. \A f \in Fns \ Handled : away[f] = distance + 1
  OBVIOUS
<1>8. \A f \in Fns : f \in Handled => away[f] = old[f]
  OBVIOUS
<1>9. \A f \in cutCallers : f \notin recorded /\ CallsOf(f) # {} => away[f] = distance
  BY <1>1, <1>8 DEF Handled, GraphInv
<1>10. ASSUME NEW c \in program.calls, c[1] \in recorded, c[2] \notin Handled
       PROVE  away[c[1]] + Cost(c[1]) > distance
  <2>1. c[1] \in Fns /\ c[1] \in Handled
    BY <1>10 DEF Handled, GraphInv
  <2> QED BY <1>1, <1>8, <1>10, <2>1
<1> HIDE DEF away
<1> QED BY <1>3, <1>6, <1>7, <1>9, <1>10

\* The recording keeps the distances of what is still to be recorded.
LEMMA RecordingStep ==
  ASSUME GraphInv, TypeInv, RecordingInv, [Next]_vars
  PROVE  RecordingInv'
<1>1. CASE RecordCallers
  BY <1>1, RecordCallersKeeps
<1>2. CASE NextDistance
  <2> SUFFICES ASSUME phase' = "graph" PROVE RecordingInv'
    BY DEF RecordingInv
  <2>1. /\ UNCHANGED <<program, recorded, cutCallers, limits>> /\ phase = "graph" /\ callers = {}
        /\ ~AtDepthLimit /\ distance' = distance + 1 /\ callers' = found
    BY <1>2 DEF NextDistance
  <2>2. /\ \A x : CallsOf(x)' = CallsOf(x) /\ CalleesOf(x)' = CalleesOf(x)
        /\ \A ts, a : NotTooLong(ts, a)' <=> NotTooLong(ts, a)
        /\ \A f : Cost(f)' = Cost(f)
    BY <2>1, SameProgram, SamePaths
  <2>3. Handled' = Handled /\ cutCallers' = {}
    BY <2>1, <2>2 DEF Handled, RecordingInv
  <2>4. PICK away \in Lengths :
            /\ NotTooLong(Tests, away)
            /\ \A f \in Fns \ Handled : away[f] = distance + 1
    BY <2>1, AllFurther
  <2>5. \A f \in Fns : f \notin recorded /\ CallsOf(f) # {} => away[f] = distance + 1
    BY <2>4, <2>1, <2>3 DEF Handled
  <2>6. ASSUME NEW c \in program.calls, c[1] \in recorded, c[2] \notin Handled \cup callers'
        PROVE  FALSE
    <3>1. c[2] \in CalleesOf(c[1])
      BY CallsAreOf DEF GraphInv
    <3> QED BY <3>1, <2>1, <2>6 DEF GraphInv
  <2>7. \A t \in Tests : CalleesOf(t) \subseteq Handled \cup callers'
    BY <2>1 DEF RecordingInv
  <2> QED BY <2>1, <2>2, <2>3, <2>4, <2>5, <2>6, <2>7 DEF RecordingInv, Lengths
<1>3. CASE ~(RecordCallers \/ NextDistance)
  <2>1. /\ UNCHANGED <<program, limits, distance, callers, recorded, cutCallers>>
        /\ phase' = "graph" => phase = "graph"
    <3>1. CASE WalkAction
      BY <3>1, <1>3 DEF WalkAction, StartWalk, WalkStep, EndWalk
    <3>2. CASE ~WalkAction
      BY <3>2, OtherSteps DEF graphVars
    <3> QED BY <3>1, <3>2
  <2>2. /\ \A x : CallsOf(x)' = CallsOf(x) /\ CalleesOf(x)' = CalleesOf(x)
        /\ \A ts, a : NotTooLong(ts, a)' <=> NotTooLong(ts, a)
        /\ \A f : Cost(f)' = Cost(f)
    BY <2>1, SameProgram, SamePaths
  <2>3. Handled' = Handled
    BY <2>1, <2>2 DEF Handled
  <2>4. AtDepthLimit' <=> AtDepthLimit
    BY <2>1 DEF AtDepthLimit
  <2> QED BY <2>1, <2>2, <2>3, <2>4 DEF RecordingInv, Lengths
<1> QED BY <1>1, <1>2, <1>3

\* When the recording ends, what is not recorded makes no calls, or none within the depth limit.
LEMMA RecordedAtLast ==
  ASSUME GraphInv, TypeInv, RecordingInv, NextDistance, phase' = "walk"
  PROVE  RecordedInv'
<1>1. /\ UNCHANGED <<program, recorded, limits>> /\ phase = "graph" /\ callers = {} /\ found = {}
  BY DEF NextDistance, GraphInv
<1>2. /\ \A x : CallsOf(x)' = CallsOf(x)
      /\ \A ts, a : NotTooLong(ts, a)' <=> NotTooLong(ts, a)
      /\ \A f : Cost(f)' = Cost(f)
  BY <1>1, SameProgram, SamePaths
<1>3. limits.mutation \in Nat /\ distance \in Nat /\ \A f : Cost(f) \in {0, 1}
  BY LimitsAssumption DEF TypeInv, Cost
<1>4. PICK away \in Lengths :
        /\ NotTooLong(Tests, away)
        /\ \A f \in Fns \ Handled : away[f] = distance + 1
        /\ \A f \in cutCallers : f \notin recorded /\ CallsOf(f) # {} => away[f] = distance
  BY <1>1, AllFurther
<1>5. \A f \in Fns : away[f] \in Nat
  BY <1>4 DEF Lengths
<1>6. CASE AtDepthLimit
  <2>1. distance + 1 >= limits.mutation
    <3>1. limits.depth \in Nat /\ limits.depth >= limits.mutation /\ distance + 1 >= limits.depth
      BY <1>6, LimitsAssumption DEF AtDepthLimit, TypeInv
    <3> QED BY <3>1, <1>3
  <2>2. ASSUME NEW f \in Fns, f \notin recorded, CallsOf(f) # {}
        PROVE  away[f] + Cost(f) >= limits.mutation
    <3>1. CASE f \notin Handled
      <4>1. away[f] = distance + 1
        BY <3>1, <1>4
      <4> QED BY <4>1, <2>1, <1>3
    <3>2. CASE f \in Handled
      <4>1. f \in cutCallers
        BY <2>2, <3>2 DEF Handled
      <4>2. away[f] = distance /\ Cost(f) = 1
        BY <4>1, <1>1, <1>4, <2>2 DEF RecordingInv, Cost
      <4> QED BY <4>2, <2>1, <1>3
    <3> QED BY <3>1, <3>2
  <2> QED BY <1>1, <1>2, <1>4, <2>2 DEF RecordedInv, Lengths
<1>7. CASE ~AtDepthLimit
  <2> DEFINE far == [f \in Fns |-> IF f \in Handled THEN away[f] ELSE away[f] + limits.mutation]
  <2>1. far \in Lengths
    BY <1>3, <1>5 DEF Lengths
  <2>2. cutCallers = {} /\ \A f \in Handled : f \in recorded \/ CallsOf(f) = {}
    BY <1>1, <1>7 DEF RecordingInv, Handled
  <2>3. ASSUME NEW t \in Tests, NEW f \in CalleesOf(t)
        PROVE  far[f] = 0
    <3>1. f \in Fns /\ f \in Handled
      BY <1>1, CalleesAreFns DEF GraphInv
    <3>2. away[f] = 0
      BY <1>4 DEF NotTooLong
    <3> QED BY <3>1, <3>2
  <2>4. ASSUME NEW c \in program.calls, c[1] \in Fns
        PROVE  far[c[2]] <= far[c[1]] + Cost(c[1])
    <3>1. c[2] \in Fns /\ c \in CallsOf(c[1]) /\ c[2] \in CalleesOf(c[1])
      BY CallsAreOf DEF GraphInv
    <3>2. away[c[2]] <= away[c[1]] + Cost(c[1])
      BY <1>4, <2>4 DEF NotTooLong
    <3>3. c[1] \in Handled => c[2] \in Handled
      BY <3>1, <2>2, <1>1 DEF GraphInv
    <3>4. CASE c[1] \in Handled
      BY <2>4, <3>1, <3>2, <3>3, <3>4
    <3>5. CASE c[1] \notin Handled
      <4>1. far[c[1]] = away[c[1]] + limits.mutation
        BY <2>4, <3>5
      <4>2. far[c[2]] <= away[c[2]] + limits.mutation
        BY <3>1, <1>3, <1>5
      <4>3. far[c[2]] \in Nat
        BY <3>1, <1>3, <1>5
      <4> HIDE DEF far
      <4> QED BY <4>1, <4>2, <4>3, <3>1, <3>2, <1>3, <1>5, <2>4
    <3> QED BY <3>4, <3>5
  <2>5. NotTooLong(Tests, far)
    BY <2>3, <2>4 DEF NotTooLong
  <2>6. ASSUME NEW f \in Fns, f \notin recorded, CallsOf(f) # {}
        PROVE  far[f] + Cost(f) >= limits.mutation
    <3>1. f \notin Handled
      BY <2>2, <2>6
    <3>2. far[f] = away[f] + limits.mutation
      BY <3>1
    <3> HIDE DEF far
    <3> QED BY <3>2, <1>3, <1>5
  <2> HIDE DEF far
  <2> QED BY <1>1, <1>2, <2>1, <2>5, <2>6 DEF RecordedInv, Lengths
<1> QED BY <1>6, <1>7

\* What the recording has left out stays far.
LEMMA RecordedStep ==
  ASSUME GraphInv, TypeInv, RecordingInv, RecordedInv, [Next]_vars
  PROVE  RecordedInv'
<1> SUFFICES ASSUME phase' # "graph" PROVE RecordedInv'
  BY DEF RecordedInv
<1>1. CASE phase = "graph"
  <2>1. NextDistance /\ phase' = "walk"
    <3>1. CASE WalkAction
      BY <3>1, <1>1 DEF WalkAction, RecordCallers, NextDistance, StartWalk, WalkStep, EndWalk
    <3>2. CASE ~WalkAction
      BY <3>2, <1>1, OtherSteps
    <3> QED BY <3>1, <3>2
  <2> QED BY <2>1, RecordedAtLast
<1>2. CASE phase # "graph"
  <2>1. UNCHANGED <<program, limits, recorded>>
    <3>1. CASE WalkAction
      BY <3>1, <1>2 DEF WalkAction, RecordCallers, NextDistance, StartWalk, WalkStep, EndWalk
    <3>2. CASE ~WalkAction
      BY <3>2, OtherSteps DEF graphVars
    <3> QED BY <3>1, <3>2
  <2>2. /\ \A x : CallsOf(x)' = CallsOf(x)
        /\ \A ts, a : NotTooLong(ts, a)' <=> NotTooLong(ts, a)
        /\ \A f : Cost(f)' = Cost(f)
    BY <2>1, SameProgram, SamePaths
  <2> QED BY <1>2, <2>1, <2>2 DEF RecordedInv, Lengths
<1> QED BY <1>1, <1>2

-----------------------------------------------------------------------------
(* The steps of a walk *)

\* The call as a walk finds it that takes its caller with this source, at this distance.
Along(c, source, at) == <<c[2], IF IsUnsafeCall(c) THEN UnsafeCode ELSE source, at + Cost(c[1])>>

\* A walk starts with the calls of its test.
LEMMA StartWalkImproves ==
  ASSUME GraphInv, NEW t \in Tests, StartWalk(t)
  PROVE  Improved([reached |-> reached', queue |-> queue'], [reached |-> <<>>, queue |-> <<>>],
                  {<<f, program.safety[t], 0>> : f \in CalleesOf(t)})
<1> DEFINE walk == [reached |-> <<>>, queue |-> <<>>]
           Calls(callees) == [i \in DOMAIN callees |-> <<callees[i], program.safety[t], 0>>]
<1>1. PICK callees \in SetToSeqs(CalleesOf(t)) :
         LET start == FollowAll(walk, Calls(callees), TRUE)
         IN queue' = start.queue /\ reached' = start.reached
  BY DEF StartWalk
<1>2. CalleesOf(t) \subseteq Fns /\ IsFiniteSet(CalleesOf(t))
  BY CalleesAreFns, CallsAreFinite DEF GraphInv
<1>3. callees \in Seq(CalleesOf(t)) /\ ToSet(callees) = CalleesOf(t)
  BY <1>1, <1>2, OrderHoldsAll
<1>4. program.safety[t] \in NoSource..UnsafeCode
  BY ProgramsAssumption DEF GraphInv, NoSource, UnsafeCode
<1> DEFINE calls == Calls(callees)
<1>5. calls \in Seq(Ways)
  <2>1. \A i \in DOMAIN callees : callees[i] \in Fns
    BY <1>2, <1>3
  <2>2. DOMAIN callees = 1..Len(callees) /\ Len(callees) \in Nat
    BY <1>3
  <2>3. \A i \in DOMAIN callees : <<callees[i], program.safety[t], 0>> \in Ways
    BY <2>1, <1>4 DEF Ways
  <2> HIDE DEF Ways
  <2> QED BY <2>2, <2>3
<1>6. ToSet(calls) = {<<f, program.safety[t], 0>> : f \in CalleesOf(t)}
  BY <1>3 DEF ToSet
<1>7. Typed(walk)
  BY DEF Typed
<1> DEFINE start == FollowAll(walk, calls, TRUE)
<1>8. Improved(start, walk, ToSet(calls))
  <2> HIDE DEF calls, walk, Calls
  <2> QED BY ONLY <1>5, <1>7, FollowAllImproves
<1>9. queue' = start.queue /\ reached' = start.reached
  BY <1>1
<1> HIDE DEF start, walk
<1>10. Improved([reached |-> reached', queue |-> queue'], walk, ToSet(calls))
  BY <1>8, <1>9 DEF Improved
<1> HIDE DEF calls
<1> QED BY <1>6, <1>10 DEF walk

\* What a step of a walk does that takes function f with this source at this distance: it records the test on it, and finds
\* its calls, unless a limit cuts the walk there, which is past the mutation depth if the calls are recorded.
Taking(f, source, at) ==
    /\ f \in Fns /\ source \in NoSource..UnsafeCode /\ at \in Nat
    /\ ToSet(queue) = ToSet(Tail(queue)) \cup {<<f, source, at>>}
    /\ Closer(targets', walker, f, source, at)
    /\ LET after == [reached |-> reached', queue |-> queue']
           before == [reached |-> reached, queue |-> Tail(queue)]
       IN \/ Improved(after, before, {Along(c, source, at) : c \in CallsOf(f)})
          \/ /\ Improved(after, before, {})
             /\ walker \in truncated' /\ CallsOf(f) # {}
             /\ f \in recorded => at + Cost(f) >= limits.mutation

\* A step of a walk takes a call from the front of the queue, records its target and follows the calls from there.
LEMMA WalkStepTakes ==
  ASSUME GraphInv, WalkerInv, WalkInv, TypeInv, WalkStep
  PROVE  Taking(Head(queue)[1], Head(queue)[2], Head(queue)[3])
<1> DEFINE f == Head(queue)[1]
           source == Head(queue)[2]
           at == Head(queue)[3]
           counts == f \in program.counted
           next == IF counts THEN at + 1 ELSE at
           calls == IF f \in recorded THEN CallsOf(f) ELSE {}
           cut == limits.trace # NoLimit /\ next >= limits.trace
           S == IF cut THEN {} ELSE calls
           Way(c) == <<c[2], IF IsUnsafeCall(c) THEN UnsafeCode ELSE source, next>>
           walk == [reached |-> reached, queue |-> Tail(queue)]
           Found1(q) == [i \in DOMAIN q |-> Way(q[i])]
<1>1. /\ queue # <<>>
      /\ targets' = RecordTarget(walker, f, source, at)
      /\ truncated' = IF f \in cutCallers \/ (cut /\ calls # {}) THEN truncated \cup {walker} ELSE truncated
  BY DEF WalkStep
<1>2. PICK q \in SetToSeqs(S) :
         LET w == FollowAll(walk, Found1(q), counts)
         IN queue' = w.queue /\ reached' = w.reached
  BY DEF WalkStep
<1>3. walker \in Tests /\ walker # NoTest
  BY <1>1, FnsAssumption DEF WalkerInv
<1>4. queue \in Seq(Found) /\ Head(queue) \in Found /\ Tail(queue) \in Seq(Found) /\ Head(queue) = queue[1]
      /\ ToSet(queue) = ToSet(Tail(queue)) \cup {Head(queue)}
  <2>1. queue \in Seq(Found) /\ queue # <<>>
    BY <1>1 DEF WalkInv
  <2> HIDE DEF Found
  <2> QED BY ONLY <2>1, PopLeaves
<1>5. /\ f \in Fns /\ source \in NoSource..UnsafeCode /\ at \in Nat /\ Head(queue) = <<f, source, at>>
      /\ f \in Handled
  <2>1. f \in Fns /\ at \in Nat /\ Head(queue) = <<f, source, at>>
    BY <1>4 DEF Found
  <2>2. source \in NoSource..UnsafeCode
    BY <1>4 DEF TypeInv
  <2>3. f \in FnsOf(queue)
    BY <1>4 DEF FnsOf, ToSet
  <2> QED BY <2>1, <2>2, <2>3, <1>3 DEF WalkInv
<1>6. Typed(walk)
  <2>1. Tail(queue) \in Seq(Ways)
    <3>1. \A e \in ToSet(Tail(queue)) : e \in Ways
      <4>1. \A e \in Found : e[2] \in NoSource..UnsafeCode => e \in Ways
        BY DEF Found, Ways
      <4>2. ToSet(Tail(queue)) \subseteq Found
        <5> HIDE DEF Found
        <5>1. Tail(queue) \in Seq(Found)
          BY <1>4
        <5> QED BY <5>1 DEF ToSet
      <4> QED BY <4>1, <4>2, <1>4 DEF TypeInv
    <3>2. DOMAIN Tail(queue) = 1..Len(Tail(queue)) /\ Len(Tail(queue)) \in Nat /\ Tail(queue) = [i \in DOMAIN Tail(queue) |-> Tail(queue)[i]]
      <4> DEFINE r == Tail(queue)
      <4> HIDE DEF Found, r
      <4>1. r \in Seq(Found)
        BY <1>4 DEF r
      <4>2. DOMAIN r = 1..Len(r) /\ Len(r) \in Nat /\ r = [i \in DOMAIN r |-> r[i]]
        BY <4>1
      <4> QED BY <4>2 DEF r
    <3> DEFINE r == Tail(queue)
    <3>3. \A i \in DOMAIN r : r[i] \in Ways
      BY <3>1 DEF ToSet
    <3> HIDE DEF Ways, r
    <3>4. DOMAIN r = 1..Len(r) /\ Len(r) \in Nat /\ r = [i \in DOMAIN r |-> r[i]]
      BY <3>2 DEF r
    <3>5. r \in Seq(Ways)
      BY <3>3, <3>4
    <3> QED BY <3>5 DEF r
  <2> QED BY <2>1 DEF Typed, TypeInv
<1>7. next = at + Cost(f) /\ next \in Nat
  BY <1>5 DEF Cost
<1>8. IsFiniteSet(S) /\ S \subseteq CallsOf(f)
  BY CallsAreFinite, FS_EmptySet DEF GraphInv
<1>9. q \in Seq(S) /\ ToSet(q) = S
  BY <1>2, <1>8, OrderHoldsAll
<1>10. \A c \in CallsOf(f) : Way(c) = Along(c, source, at) /\ Way(c) \in Ways
  <2>1. \A c \in CallsOf(f) : c[2] \in Fns /\ c[1] = f
    BY ProgramsAssumption DEF CallsOf, GraphInv
  <2>2. \A c \in CallsOf(f) : Way(c) = Along(c, source, at)
    BY <1>7, <2>1 DEF Along
  <2>3. UnsafeCode \in NoSource..UnsafeCode
    BY DEF UnsafeCode, NoSource
  <2> HIDE DEF next
  <2>4. \A c \in CallsOf(f) : Way(c) \in Ways
    BY <1>5, <1>7, <2>1, <2>3 DEF Ways
  <2> QED BY <2>2, <2>4
<1>11. Found1(q) \in Seq(Ways) /\ ToSet(Found1(q)) = {Along(c, source, at) : c \in S}
  <2> HIDE DEF Way, Ways, S
  <2>1. \A i \in DOMAIN q : q[i] \in S /\ Way(q[i]) \in Ways /\ Way(q[i]) = Along(q[i], source, at)
    BY <1>8, <1>9, <1>10
  <2>2. DOMAIN q = 1..Len(q) /\ Len(q) \in Nat
    BY <1>9
  <2>3. Found1(q) \in Seq(Ways)
    BY <2>1, <2>2
  <2>4. ToSet(Found1(q)) = {Way(c) : c \in ToSet(q)}
    BY DEF ToSet
  <2>5. {Way(c) : c \in ToSet(q)} = {Along(c, source, at) : c \in S}
    BY <1>8, <1>9, <1>10
  <2> QED BY <2>3, <2>4, <2>5
<1> DEFINE w == FollowAll(walk, Found1(q), counts)
           after == [reached |-> reached', queue |-> queue']
           before == [reached |-> reached, queue |-> Tail(queue)]
<1>12. Improved(after, before, {Along(c, source, at) : c \in S})
  <2>1. counts \in BOOLEAN
    OBVIOUS
  <2>2. queue' = w.queue /\ reached' = w.reached
    BY <1>2
  <2>3. Improved(w, walk, ToSet(Found1(q)))
    <3> HIDE DEF walk, Found1, counts
    <3> QED BY ONLY <1>6, <1>11, <2>1, FollowAllImproves
  <2> HIDE DEF w
  <2>4. Improved(after, walk, ToSet(Found1(q)))
    <3> HIDE DEF walk, Found1
    <3> QED BY <2>2, <2>3 DEF Improved
  <2> QED BY <1>11, <2>4
<1>13. Closer(targets', walker, f, source, at)
  <2>1. targets' = RecordTarget(walker, f, source, at)
    BY <1>1
  <2> QED BY ONLY <1>5, <2>1, TypeInv, RecordTargetCloser
<1>14. CASE S = CallsOf(f)
  <2>1. Improved(after, before, {Along(c, source, at) : c \in CallsOf(f)})
    BY <1>12, <1>14
  <2> HIDE DEF f, source, at, S
  <2> QED BY <1>4, <1>5, <1>13, <2>1 DEF Taking, f, source, at
<1>15. CASE S # CallsOf(f)
  <2>1. S = {} /\ CallsOf(f) # {}
    BY <1>15
  <2>2. walker \in truncated'
    <3>1. CASE f \in recorded
      BY <3>1, <1>1, <1>15
    <3>2. CASE f \notin recorded
      BY <3>2, <1>1, <1>5, <2>1 DEF Handled
    <3> QED BY <3>1, <3>2
  <2>3. f \in recorded => at + Cost(f) >= limits.mutation
    <3> SUFFICES ASSUME f \in recorded PROVE next >= limits.mutation
      BY <1>7
    <3>1. limits.trace # NoLimit /\ next >= limits.trace
      BY <1>15
    <3>2. limits.trace \in Nat /\ limits.trace >= limits.mutation /\ limits.mutation \in Nat
      BY <3>1, LimitsAssumption DEF TypeInv
    <3> HIDE DEF next
    <3> QED BY <3>1, <3>2, <1>7
  <2>4. Improved(after, before, {})
    BY <1>12, <2>1
  <2> HIDE DEF f, source, at, S
  <2> QED BY <1>4, <1>5, <1>13, <2>1, <2>2, <2>3, <2>4 DEF Taking, f, source, at
<1> QED BY <1>14, <1>15

\* Paths that are nowhere too long for some tests are so for fewer.
LEMMA FewerTests ==
  ASSUME NEW away, NEW t \in Tests, NotTooLong(Tests, away)
  PROVE  NotTooLong({t}, away)
BY DEF NotTooLong

\* What is known at the caller stays sound along a call.
LEMMA SoundAlong ==
  ASSUME program \in Programs, NEW t, NEW f \in Fns, f \in TrulyReached(t), NEW source \in NoSource..UnsafeCode, NEW at \in Nat,
         Sound(t, f, source, at), NEW c \in CallsOf(f)
  PROVE  Sound(t, Along(c, source, at)[1], Along(c, source, at)[2], Along(c, source, at)[3])
<1>1. c \in program.calls /\ c[1] = f /\ c[2] \in Fns
  BY ProgramsAssumption DEF CallsOf
<1>2. Cost(f) \in {0, 1}
  BY DEF Cost
<1>3. ASSUME NEW away \in Lengths, NotTooLong({t}, away)
      PROVE  away[c[2]] <= at + Cost(f)
  <2>1. away[f] <= at
    BY <1>3 DEF Sound
  <2>2. away[c[2]] <= away[f] + Cost(f)
    BY <1>1, <1>3 DEF NotTooLong
  <2>3. away[f] \in Nat /\ away[c[2]] \in Nat
    BY <1>1 DEF Lengths
  <2> QED BY <2>1, <2>2, <2>3, <1>2
<1>4. ASSUME NEW worst \in Sources, NotTooSafe(t, worst)
      PROVE  (IF IsUnsafeCall(c) THEN UnsafeCode ELSE source) <= worst[c[2]]
  <2>1. source <= worst[f]
    BY <1>4 DEF Sound
  <2>2. worst[c[2]] >= IF IsUnsafeCall(c) THEN UnsafeCode ELSE worst[f]
    BY <1>1, <1>4 DEF NotTooSafe
  <2>3. worst[f] \in Int /\ worst[c[2]] \in Int /\ source \in Int
    BY <1>1 DEF Sources, NoSource, UnsafeCode
  <2>4. CASE IsUnsafeCall(c)
    BY <2>2, <2>3, <2>4 DEF UnsafeCode
  <2>5. CASE ~IsUnsafeCall(c)
    BY <2>1, <2>2, <2>3, <2>5
  <2> QED BY <2>4, <2>5
<1>5. Along(c, source, at)[1] = c[2] /\ Along(c, source, at)[3] = at + Cost(f)
      /\ Along(c, source, at)[2] = IF IsUnsafeCall(c) THEN UnsafeCode ELSE source
  BY <1>1 DEF Along
<1> QED BY <1>3, <1>4, <1>5 DEF Sound

\* What a step of a walk changes, whether it follows calls or not.
TakenOn(f, source, at) ==
    LET W == {Along(c, source, at) : c \in CallsOf(f)}
    IN  /\ ToSet(Tail(queue)) \subseteq ToSet(queue') /\ ToSet(queue') \subseteq ToSet(Tail(queue)) \cup W
        /\ \A g \in DOMAIN reached' : reached'[g] \in ReachType
        /\ \A g \in DOMAIN reached :
            /\ g \in DOMAIN reached'
            /\ reached'[g].distance <= reached[g].distance /\ reached'[g].source >= reached[g].source
        /\ \A g \in DOMAIN reached' :
            \/ g \in DOMAIN reached /\ reached[g].distance <= reached'[g].distance
            \/ \E e \in ToSet(queue') : e[1] = g /\ e[3] <= reached'[g].distance
        /\ \A g \in DOMAIN reached' :
            \/ g \in DOMAIN reached /\ reached[g].source >= reached'[g].source
            \/ \E e \in ToSet(queue') : e[1] = g /\ e[2] >= reached'[g].source
        /\ \/ \A c \in CallsOf(f) :
                /\ c[2] \in DOMAIN reached' /\ reached'[c[2]].distance <= at + Cost(f)
                /\ reached'[c[2]].source >= IF IsUnsafeCall(c) THEN UnsafeCode ELSE source
           \/ walker \in truncated' /\ CallsOf(f) # {} /\ (f \in recorded => at + Cost(f) >= limits.mutation)

\* Both ways, a step changes no more than this.
LEMMA TakingIsOn ==
  ASSUME NEW f, NEW source, NEW at, Taking(f, source, at)
  PROVE  TakenOn(f, source, at)
<1> DEFINE W == {Along(c, source, at) : c \in CallsOf(f)}
           after == [reached |-> reached', queue |-> queue']
           before == [reached |-> reached, queue |-> Tail(queue)]
<1>0. after.reached = reached' /\ after.queue = queue' /\ before.reached = reached /\ before.queue = Tail(queue)
  OBVIOUS
<1>1. CASE Improved(after, before, W)
  <2> HIDE DEF after, before, W
  <2>1. ASSUME NEW c \in CallsOf(f)
        PROVE  /\ c[2] \in DOMAIN reached' /\ reached'[c[2]].distance <= at + Cost(f)
               /\ reached'[c[2]].source >= IF IsUnsafeCall(c) THEN UnsafeCode ELSE source
    <3> DEFINE e == Along(c, source, at)
    <3>1. e \in W
      BY DEF W
    <3>2. c[1] = f
      BY DEF CallsOf
    <3>3. e[1] = c[2] /\ e[2] = (IF IsUnsafeCall(c) THEN UnsafeCode ELSE source) /\ e[3] = at + Cost(f)
      BY <3>2 DEF Along
    <3> HIDE DEF e
    <3>4. e[1] \in DOMAIN reached' /\ reached'[e[1]].distance <= e[3] /\ reached'[e[1]].source >= e[2]
      BY <3>1, <1>0, <1>1 DEF Improved
    <3> QED BY <3>3, <3>4
  <2> QED BY <1>0, <1>1, <2>1 DEF TakenOn, Improved, W
<1>2. CASE Improved(after, before, {}) /\ walker \in truncated' /\ CallsOf(f) # {} /\ (f \in recorded => at + Cost(f) >= limits.mutation)
  <2> HIDE DEF after, before
  <2> QED BY <1>0, <1>2 DEF TakenOn, Improved
<1> QED BY <1>1, <1>2 DEF Taking

\* Distances stay distances, and sources stay sources.
LEMMA TypeStep ==
  ASSUME GraphInv, WalkerInv, WalkInv, TypeInv, [Next]_vars
  PROVE  TypeInv'
<1>1. CASE RecordCallers \/ NextDistance
  <2>1. UNCHANGED <<limits, queue, reached, targets>> /\ distance' \in Nat
    BY <1>1 DEF RecordCallers, NextDistance, TypeInv
  <2> QED BY <2>1 DEF TypeInv
<1>2. ASSUME NEW t \in Tests, StartWalk(t)
      PROVE  TypeInv'
  <2> DEFINE after == [reached |-> reached', queue |-> queue']
             walk == [reached |-> <<>>, queue |-> <<>>]
             W == {<<f, program.safety[t], 0>> : f \in CalleesOf(t)}
  <2>1. Improved(after, walk, W)
    BY <1>2, StartWalkImproves
  <2>2. UNCHANGED <<limits, distance, targets>>
    BY <1>2 DEF StartWalk
  <2>3. after.reached = reached' /\ after.queue = queue'
    OBVIOUS
  <2> HIDE DEF after, walk, W
  <2>4. queue' \in Seq(Ways) /\ \A g \in DOMAIN reached' : reached'[g] \in ReachType
    BY <2>1, <2>3 DEF Improved
  <2>5. \A e \in ToSet(queue') : e \in Ways
    <3> HIDE DEF Ways
    <3> QED BY <2>4 DEF ToSet
  <2>6. \A e \in ToSet(queue') : e[2] \in NoSource..UnsafeCode
    BY <2>5 DEF Ways
  <2> QED BY <2>2, <2>4, <2>6 DEF TypeInv, ToSet
<1>3. CASE WalkStep
  <2> DEFINE f == Head(queue)[1]
             source == Head(queue)[2]
             at == Head(queue)[3]
  <2>1. Taking(f, source, at)
    BY <1>3, WalkStepTakes
  <2>2. UNCHANGED <<limits, distance>>
    BY <1>3 DEF WalkStep
  <2> HIDE DEF f, source, at
  <2>3. TakenOn(f, source, at)
    BY <2>1, TakingIsOn
  <2>4. ASSUME NEW e \in ToSet(queue')
        PROVE  e[2] \in NoSource..UnsafeCode
    <3>1. CASE e \in ToSet(Tail(queue))
      BY <3>1, <2>1 DEF Taking, TypeInv
    <3>2. CASE \E c \in CallsOf(f) : e = Along(c, source, at)
      BY <3>2, <2>1 DEF Taking, Along, NoSource, UnsafeCode
    <3> QED BY <3>1, <3>2, <2>3 DEF TakenOn
  <2>5. \A g \in DOMAIN reached' : reached'[g] \in ReachType
    BY <2>3 DEF TakenOn
  <2>6. \A g \in DOMAIN targets' : targets'[g].distance \in Nat /\ \A u \in DOMAIN targets'[g].reach : targets'[g].reach[u] \in ReachType
    BY <2>1 DEF Taking, Closer
  <2> QED BY <2>2, <2>4, <2>5, <2>6 DEF TypeInv, ToSet
<1>4. CASE EndWalk
  <2>1. UNCHANGED <<limits, distance, queue, targets>> /\ reached' = <<>>
    BY <1>4 DEF EndWalk
  <2> QED BY <2>1 DEF TypeInv, ToSet
<1>5. CASE ~WalkAction
  <2>1. UNCHANGED <<limits, distance, queue, reached, targets>>
    BY <1>5, OtherSteps DEF graphVars
  <2> QED BY <2>1 DEF TypeInv, ToSet
<1> QED BY <1>1, <1>2, <1>3, <1>4, <1>5 DEF WalkAction

\* A step of a walk takes a function that the test reaches, with what is sound of it.
LEMMA TakenIsSound ==
  ASSUME GraphInv, WalkerInv, WalkInv, TypeInv, SearchInv, WalkStep
  PROVE  \E f \in Fns, source \in NoSource..UnsafeCode, at \in Nat :
            /\ walker \in Tests /\ walker # NoTest
            /\ f \in TrulyReached(walker) /\ f \in Handled
            /\ Sound(walker, f, source, at)
            /\ Taking(f, source, at) /\ TakenOn(f, source, at)
<1> DEFINE f == Head(queue)[1]
           source == Head(queue)[2]
           at == Head(queue)[3]
<1>1. Taking(f, source, at)
  BY WalkStepTakes
<1>2. queue # <<>>
  BY DEF WalkStep
<1>3. walker \in Tests /\ walker # NoTest
  BY <1>2, FnsAssumption DEF WalkerInv
<1> HIDE DEF f, source, at
<1>4. <<f, source, at>> \in ToSet(queue) /\ f \in Fns /\ source \in NoSource..UnsafeCode /\ at \in Nat
  BY <1>1 DEF Taking
<1>5. Sound(walker, f, source, at)
  BY <1>3, <1>4 DEF SearchInv
<1>6. f \in FnsOf(queue)
  BY <1>4 DEF FnsOf, ToSet
<1>7. f \in TrulyReached(walker) /\ f \in Handled
  BY <1>3, <1>6 DEF WalkInv
<1> QED BY <1>1, <1>3, <1>4, <1>5, <1>7, TakingIsOn

\* Where a limit cuts a walk, the calls are past the mutation depth.
LEMMA CutIsFar ==
  ASSUME TypeInv, RecordedInv, phase # "graph", walker \in Tests, NEW f \in Fns, NEW source, NEW at \in Nat,
         Sound(walker, f, source, at), CallsOf(f) # {}, f \in recorded => at + Cost(f) >= limits.mutation
  PROVE  at + Cost(f) >= limits.mutation
<1> SUFFICES ASSUME f \notin recorded PROVE at + Cost(f) >= limits.mutation
  OBVIOUS
<1>1. PICK away \in Lengths :
        /\ NotTooLong(Tests, away)
        /\ \A g \in Fns : g \notin recorded /\ CallsOf(g) # {} => away[g] + Cost(g) >= limits.mutation
  BY DEF RecordedInv
<1>2. NotTooLong({walker}, away)
  BY <1>1, FewerTests
<1>3. away[f] <= at
  BY <1>1, <1>2 DEF Sound
<1>4. away[f] \in Nat /\ Cost(f) \in {0, 1} /\ limits.mutation \in Nat
  BY <1>1, LimitsAssumption DEF Lengths, Cost, TypeInv
<1> QED BY <1>1, <1>3, <1>4

\* What the walk has been at as near as it knew, it has when it takes another function; and it has been so at that one.
LEMMA NearAfter ==
  ASSUME GraphInv, WalkerInv, WalkInv, TypeInv, RecordedInv, SearchInv, WalkStep,
         NEW g \in DOMAIN reached'
  PROVE  Near(g)' \/ \E e \in ToSet(queue') : e[1] = g /\ e[3] <= reached'[g].distance
<1> SUFFICES ASSUME ~\E e \in ToSet(queue') : e[1] = g /\ e[3] <= reached'[g].distance
             PROVE  Near(g)'
  OBVIOUS
<1>1. PICK f \in Fns, source \in NoSource..UnsafeCode, at \in Nat :
            /\ walker \in Tests /\ walker # NoTest
            /\ f \in TrulyReached(walker) /\ f \in Handled
            /\ Sound(walker, f, source, at)
            /\ Taking(f, source, at) /\ TakenOn(f, source, at)
  BY TakenIsSound
<1>2. UNCHANGED <<program, limits, recorded, walker>> /\ phase = "walk" /\ truncated \subseteq truncated'
  BY DEF WalkStep
<1>3. (\A x : CallsOf(x)' = CallsOf(x)) /\ \A h : Cost(h)' = Cost(h)
  BY <1>2, SameProgram, SamePaths
<1>4. Closer(targets', walker, f, source, at)
  BY <1>1 DEF Taking
<1>5. g \in DOMAIN reached /\ reached[g].distance = reached'[g].distance
      /\ \A h \in DOMAIN reached : /\ h \in DOMAIN reached' /\ reached[h].distance \in Nat /\ reached'[h].distance \in Nat
                                   /\ reached'[h].distance <= reached[h].distance
  <2>1. \A h \in DOMAIN reached : h \in DOMAIN reached' /\ reached'[h].distance <= reached[h].distance
    BY <1>1 DEF TakenOn
  <2>2. \A h \in DOMAIN reached : reached[h].distance \in Nat
    BY DEF TypeInv, ReachType
  <2>3. \A h \in DOMAIN reached' : reached'[h].distance \in Nat
    BY <1>1 DEF TakenOn, ReachType
  <2>4. g \in DOMAIN reached /\ reached[g].distance <= reached'[g].distance
    BY <1>1 DEF TakenOn
  <2> QED BY <2>1, <2>2, <2>3, <2>4
<1>6. Cost(g) \in {0, 1} /\ Cost(f) \in {0, 1} /\ limits.mutation \in Nat
  BY LimitsAssumption DEF Cost, TypeInv
<1>7. CASE Near(g)
  <2>1. ASSUME g \in program.mutable
        PROVE  /\ g \in DOMAIN targets' /\ walker \in DOMAIN targets'[g].reach
               /\ targets'[g].reach[walker].distance <= reached'[g].distance /\ targets'[g].distance <= reached'[g].distance
    <3>1. /\ g \in DOMAIN targets /\ walker \in DOMAIN targets[g].reach
          /\ targets[g].reach[walker].distance <= reached[g].distance /\ targets[g].distance <= reached[g].distance
      BY <1>7, <2>1 DEF Near, Recorded
    <3>2. /\ g \in DOMAIN targets' /\ walker \in DOMAIN targets'[g].reach
          /\ targets'[g].distance <= targets[g].distance
          /\ targets'[g].reach[walker].distance <= targets[g].reach[walker].distance
      BY <1>4, <3>1 DEF Closer
    <3>3. /\ targets[g].distance \in Nat /\ targets[g].reach[walker].distance \in Nat
      BY <3>1 DEF TypeInv, ReachType
    <3>4. /\ targets'[g].distance \in Nat /\ targets'[g].reach[walker].distance \in Nat
      BY <1>4, <3>2 DEF Closer, ReachType
    <3> QED BY <3>1, <3>2, <3>3, <3>4, <1>5
  <2>2. ASSUME NEW c \in CallsOf(g)
        PROVE  \/ walker \in truncated' /\ reached'[g].distance + Cost(g) >= limits.mutation
               \/ c[2] \in DOMAIN reached' /\ reached'[c[2]].distance <= reached'[g].distance + Cost(g)
    <3>1. CASE walker \in truncated /\ reached[g].distance + Cost(g) >= limits.mutation
      BY <3>1, <1>2, <1>5
    <3>2. CASE c[2] \in DOMAIN reached /\ reached[c[2]].distance <= reached[g].distance + Cost(g)
      BY <3>2, <1>5, <1>6
    <3> QED BY <3>1, <3>2, <1>7 DEF Near
  <2> QED BY <2>1, <2>2, <1>2, <1>3 DEF Near, Recorded
<1>8. CASE \E e \in ToSet(queue) : e[1] = g /\ e[3] <= reached[g].distance
  <2>1. g = f /\ at <= reached'[g].distance
    <3>1. PICK e \in ToSet(queue) : e[1] = g /\ e[3] <= reached[g].distance
      BY <1>8
    <3>2. e \notin ToSet(Tail(queue))
      BY <3>1, <1>1, <1>5 DEF TakenOn
    <3>3. e = <<f, source, at>>
      BY <3>2, <1>1 DEF Taking
    <3> QED BY <3>1, <3>3, <1>5
  <2>2. ASSUME g \in program.mutable
        PROVE  /\ g \in DOMAIN targets' /\ walker \in DOMAIN targets'[g].reach
               /\ targets'[g].reach[walker].distance <= reached'[g].distance /\ targets'[g].distance <= reached'[g].distance
    <3>1. /\ g \in DOMAIN targets' /\ walker \in DOMAIN targets'[g].reach
          /\ targets'[g].reach[walker].distance <= at /\ targets'[g].distance <= at
      BY <1>4, <2>1, <2>2 DEF Closer
    <3>2. /\ targets'[g].distance \in Nat /\ targets'[g].reach[walker].distance \in Nat
      BY <1>4, <3>1 DEF Closer, ReachType
    <3> QED BY <3>1, <3>2, <2>1, <1>5
  <2>3. ASSUME NEW c \in CallsOf(g)
        PROVE  \/ walker \in truncated' /\ reached'[g].distance + Cost(g) >= limits.mutation
               \/ c[2] \in DOMAIN reached' /\ reached'[c[2]].distance <= reached'[g].distance + Cost(g)
    <3>1. CASE c[2] \in DOMAIN reached' /\ reached'[c[2]].distance <= at + Cost(f)
      <4>1. reached'[c[2]].distance \in Nat
        BY <3>1, <1>1 DEF TakenOn, ReachType
      <4> QED BY <3>1, <4>1, <2>1, <1>5, <1>6
    <3>2. CASE walker \in truncated' /\ (f \in recorded => at + Cost(f) >= limits.mutation)
      <4>1. CallsOf(f) # {}
        BY <2>1, <2>3
      <4>2. at + Cost(f) >= limits.mutation
        BY <3>2, <4>1, <1>1, <1>2, CutIsFar
      <4> QED BY <3>2, <4>2, <2>1, <1>5, <1>6
    <3> QED BY <3>1, <3>2, <2>1, <1>1 DEF TakenOn
  <2> QED BY <2>2, <2>3, <1>2, <1>3 DEF Near, Recorded
<1>9. walker # NoTest
  BY <1>1
<1> QED BY <1>5, <1>7, <1>8, <1>9 DEF SearchInv

\* The same of how unsafe it is.
LEMMA WorstAfter ==
  ASSUME GraphInv, WalkerInv, WalkInv, TypeInv, SearchInv, WalkStep,
         NEW g \in DOMAIN reached'
  PROVE  Worst(g)' \/ \E e \in ToSet(queue') : e[1] = g /\ e[2] >= reached'[g].source
<1> SUFFICES ASSUME ~\E e \in ToSet(queue') : e[1] = g /\ e[2] >= reached'[g].source
             PROVE  Worst(g)'
  OBVIOUS
<1>1. PICK f \in Fns, source \in NoSource..UnsafeCode, at \in Nat :
            /\ walker \in Tests /\ walker # NoTest
            /\ f \in TrulyReached(walker) /\ f \in Handled
            /\ Sound(walker, f, source, at)
            /\ Taking(f, source, at) /\ TakenOn(f, source, at)
  BY TakenIsSound
<1>2. UNCHANGED <<program, limits, recorded, walker>> /\ phase = "walk" /\ truncated \subseteq truncated'
  BY DEF WalkStep
<1>3. (\A x : CallsOf(x)' = CallsOf(x)) /\ \A c : IsUnsafeCall(c)' <=> IsUnsafeCall(c)
  BY <1>2, SameProgram, SamePaths
<1>4. Closer(targets', walker, f, source, at)
  BY <1>1 DEF Taking
<1>5. g \in DOMAIN reached /\ reached[g].source = reached'[g].source
      /\ \A h \in DOMAIN reached : /\ h \in DOMAIN reached' /\ reached[h].source \in Int /\ reached'[h].source \in Int
                                   /\ reached'[h].source >= reached[h].source
  <2>1. \A h \in DOMAIN reached : h \in DOMAIN reached' /\ reached'[h].source >= reached[h].source
    BY <1>1 DEF TakenOn
  <2>2. \A h \in DOMAIN reached : reached[h].source \in Int
    BY DEF TypeInv, ReachType, NoSource, UnsafeCode
  <2>3. \A h \in DOMAIN reached' : reached'[h].source \in Int
    BY <1>1 DEF TakenOn, ReachType, NoSource, UnsafeCode
  <2>4. g \in DOMAIN reached /\ reached[g].source >= reached'[g].source
    BY <1>1 DEF TakenOn
  <2> QED BY <2>1, <2>2, <2>3, <2>4
<1>6. source \in Int /\ UnsafeCode \in Int
  BY DEF NoSource, UnsafeCode
<1>7. CASE Worst(g)
  <2>1. ASSUME g \in program.mutable
        PROVE  /\ g \in DOMAIN targets' /\ walker \in DOMAIN targets'[g].reach
               /\ targets'[g].reach[walker].source >= reached'[g].source
    <3>1. /\ g \in DOMAIN targets /\ walker \in DOMAIN targets[g].reach
          /\ targets[g].reach[walker].source >= reached[g].source
      BY <1>7, <2>1 DEF Worst, Recorded
    <3>2. /\ g \in DOMAIN targets' /\ walker \in DOMAIN targets'[g].reach
          /\ targets'[g].reach[walker].source >= targets[g].reach[walker].source
      BY <1>4, <3>1 DEF Closer
    <3>3. targets[g].reach[walker].source \in Int
      BY <3>1 DEF TypeInv, ReachType, NoSource, UnsafeCode
    <3>4. targets'[g].reach[walker].source \in Int
      BY <1>4, <3>2 DEF Closer, ReachType, NoSource, UnsafeCode
    <3> QED BY <3>1, <3>2, <3>3, <3>4, <1>5
  <2>2. ASSUME NEW c \in CallsOf(g)
        PROVE  \/ walker \in truncated'
               \/ /\ c[2] \in DOMAIN reached'
                  /\ reached'[c[2]].source >= IF IsUnsafeCall(c) THEN UnsafeCode ELSE reached'[g].source
    <3>1. CASE walker \in truncated
      BY <3>1, <1>2
    <3>2. CASE c[2] \in DOMAIN reached /\ reached[c[2]].source >= IF IsUnsafeCall(c) THEN UnsafeCode ELSE reached[g].source
      BY <3>2, <1>5, <1>6
    <3> QED BY <3>1, <3>2, <1>7 DEF Worst
  <2> QED BY <2>1, <2>2, <1>2, <1>3 DEF Worst, Recorded
<1>8. CASE \E e \in ToSet(queue) : e[1] = g /\ e[2] >= reached[g].source
  <2>1. g = f /\ source >= reached'[g].source
    <3>1. PICK e \in ToSet(queue) : e[1] = g /\ e[2] >= reached[g].source
      BY <1>8
    <3>2. e \notin ToSet(Tail(queue))
      BY <3>1, <1>1, <1>5 DEF TakenOn
    <3>3. e = <<f, source, at>>
      BY <3>2, <1>1 DEF Taking
    <3> QED BY <3>1, <3>3, <1>5
  <2>2. ASSUME g \in program.mutable
        PROVE  /\ g \in DOMAIN targets' /\ walker \in DOMAIN targets'[g].reach
               /\ targets'[g].reach[walker].source >= reached'[g].source
    <3>1. /\ g \in DOMAIN targets' /\ walker \in DOMAIN targets'[g].reach
          /\ targets'[g].reach[walker].source >= source
      BY <1>4, <2>1, <2>2 DEF Closer
    <3>2. targets'[g].reach[walker].source \in Int
      BY <1>4, <3>1 DEF Closer, ReachType, NoSource, UnsafeCode
    <3> QED BY <3>1, <3>2, <2>1, <1>5, <1>6
  <2>3. ASSUME NEW c \in CallsOf(g)
        PROVE  \/ walker \in truncated'
               \/ /\ c[2] \in DOMAIN reached'
                  /\ reached'[c[2]].source >= IF IsUnsafeCall(c) THEN UnsafeCode ELSE reached'[g].source
    <3>1. CASE c[2] \in DOMAIN reached' /\ reached'[c[2]].source >= IF IsUnsafeCall(c) THEN UnsafeCode ELSE source
      <4>1. reached'[c[2]].source \in Int
        BY <3>1, <1>1 DEF TakenOn, ReachType, NoSource, UnsafeCode
      <4> QED BY <3>1, <4>1, <2>1, <1>5, <1>6
    <3>2. CASE walker \in truncated'
      BY <3>2
    <3> QED BY <3>1, <3>2, <2>1, <1>1 DEF TakenOn
  <2> QED BY <2>2, <2>3, <1>2, <1>3 DEF Worst, Recorded
<1>9. walker # NoTest
  BY <1>1
<1> QED BY <1>5, <1>7, <1>8, <1>9 DEF SearchInv

\* A walk keeps in its queue what it has not been at as near or as unsafe as it knows it.
LEMMA SearchStep ==
  ASSUME GraphInv, WalkerInv, WalkInv, TypeInv, RecordedInv, SearchInv, [Next]_vars
  PROVE  SearchInv'
<1>1. CASE RecordCallers \/ NextDistance
  <2>1. walker = NoTest /\ walker' = walker
    BY <1>1 DEF RecordCallers, NextDistance, WalkerInv
  <2> QED BY <2>1 DEF SearchInv
<1>2. ASSUME NEW t \in Tests, StartWalk(t)
      PROVE  SearchInv'
  <2> DEFINE after == [reached |-> reached', queue |-> queue']
             walk == [reached |-> <<>>, queue |-> <<>>]
             W == {<<f, program.safety[t], 0>> : f \in CalleesOf(t)}
  <2>1. Improved(after, walk, W)
    BY <1>2, StartWalkImproves
  <2>2. program' = program /\ walker' = t
    BY <1>2 DEF StartWalk
  <2>3. /\ \A x : CalleesOf(x)' = CalleesOf(x)
        /\ \A u, f, source, at : Sound(u, f, source, at)' <=> Sound(u, f, source, at)
    BY <2>2, SameProgram, SameBounds
  <2>4. after.reached = reached' /\ after.queue = queue' /\ DOMAIN walk.reached = {} /\ ToSet(walk.queue) = {}
    BY DEF ToSet
  <2> HIDE DEF after, walk
  <2>5. ASSUME NEW f \in CalleesOf(t)
        PROVE  f \in DOMAIN reached' /\ reached'[f].distance = 0 /\ reached'[f].source >= program.safety[t]
    <3>1. <<f, program.safety[t], 0>> \in W
      OBVIOUS
    <3> HIDE DEF W
    <3> DEFINE e == <<f, program.safety[t], 0>>
    <3>2. e[1] \in DOMAIN reached' /\ reached'[e[1]].distance <= e[3] /\ reached'[e[1]].source >= e[2]
      <4> HIDE DEF e
      <4>1. e \in W
        BY <3>1 DEF e
      <4> QED BY <4>1, <2>1, <2>4 DEF Improved
    <3>3. f \in DOMAIN reached' /\ reached'[f].distance <= 0 /\ reached'[f].source >= program.safety[t]
      BY <3>2
    <3>4. reached'[f].distance \in Nat
      BY <3>3, <2>1, <2>4 DEF Improved, ReachType
    <3> QED BY <3>3, <3>4
  <2>6. ASSUME NEW e \in ToSet(queue')
        PROVE  Sound(t, e[1], e[2], e[3])
    <3>1. e \in W
      BY <2>1, <2>4 DEF Improved
    <3>2. PICK f \in CalleesOf(t) : e = <<f, program.safety[t], 0>>
      BY <3>1
    <3>3. \A away \in Lengths : NotTooLong({t}, away) => away[f] <= 0
      BY DEF NotTooLong
    <3>4. f \in Fns /\ program.safety[t] \in 0..2
      BY CalleesAreFns, ProgramsAssumption DEF GraphInv
    <3>5. ASSUME NEW worst \in Sources, NotTooSafe(t, worst)
          PROVE  program.safety[t] <= worst[f]
      <4>1. worst[f] >= program.safety[t]
        BY <3>5 DEF NotTooSafe
      <4>2. worst[f] \in Int
        BY <3>4 DEF Sources, NoSource, UnsafeCode
      <4> QED BY <4>1, <4>2, <3>4
    <3>6. Sound(t, f, program.safety[t], 0)
      BY <3>3, <3>5 DEF Sound
    <3> QED BY <3>2, <3>6
  <2> HIDE DEF W
  <2>7. ASSUME NEW f \in DOMAIN reached'
        PROVE  /\ \E e \in ToSet(queue') : e[1] = f /\ e[3] <= reached'[f].distance
               /\ \E e \in ToSet(queue') : e[1] = f /\ e[2] >= reached'[f].source
    BY <2>1, <2>4 DEF Improved
  <2> QED BY <2>2, <2>3, <2>5, <2>6, <2>7 DEF SearchInv, ToSet
<1>3. CASE WalkStep
  <2>1. PICK f \in Fns, source \in NoSource..UnsafeCode, at \in Nat :
            /\ walker \in Tests /\ walker # NoTest
            /\ f \in TrulyReached(walker) /\ f \in Handled
            /\ Sound(walker, f, source, at)
            /\ Taking(f, source, at) /\ TakenOn(f, source, at)
    BY <1>3, TakenIsSound
  <2>2. program' = program /\ walker' = walker
    BY <1>3 DEF WalkStep
  <2>3. /\ \A x : CalleesOf(x)' = CalleesOf(x)
        /\ \A u, g, s, a : Sound(u, g, s, a)' <=> Sound(u, g, s, a)
    BY <2>2, SameProgram, SameBounds
  <2>4. ASSUME NEW g \in CalleesOf(walker)
        PROVE  g \in DOMAIN reached' /\ reached'[g].distance = 0 /\ reached'[g].source >= program.safety[walker]
    <3>1. g \in DOMAIN reached /\ reached[g].distance = 0 /\ reached[g].source >= program.safety[walker]
      BY <2>1 DEF SearchInv
    <3>2. g \in DOMAIN reached' /\ reached'[g].distance <= reached[g].distance /\ reached'[g].source >= reached[g].source
      BY <2>1, <3>1 DEF TakenOn
    <3>3. reached'[g].distance \in Nat /\ reached'[g].source \in Int
      BY <2>1, <3>2 DEF TakenOn, ReachType, NoSource, UnsafeCode
    <3>4. reached[g].source \in Int
      BY <3>1 DEF TypeInv, ReachType, NoSource, UnsafeCode
    <3>5. program.safety[walker] \in Int
      BY <2>1, ProgramsAssumption DEF GraphInv
    <3> QED BY <3>1, <3>2, <3>3, <3>4, <3>5
  <2>5. ASSUME NEW e \in ToSet(queue')
        PROVE  Sound(walker, e[1], e[2], e[3])
    <3>1. CASE e \in ToSet(Tail(queue))
      <4>1. e \in ToSet(queue)
        BY <3>1, <2>1 DEF Taking
      <4> QED BY <4>1, <2>1 DEF SearchInv
    <3>2. CASE \E c \in CallsOf(f) : e = Along(c, source, at)
      <4>1. PICK c \in CallsOf(f) : e = Along(c, source, at)
        BY <3>2
      <4>2. Sound(walker, Along(c, source, at)[1], Along(c, source, at)[2], Along(c, source, at)[3])
        BY <2>1, SoundAlong DEF GraphInv
      <4> QED BY <4>1, <4>2
    <3> QED BY <3>1, <3>2, <2>1 DEF TakenOn
  <2>6. ASSUME NEW g \in DOMAIN reached'
        PROVE  /\ Near(g)' \/ \E e \in ToSet(queue') : e[1] = g /\ e[3] <= reached'[g].distance
               /\ Worst(g)' \/ \E e \in ToSet(queue') : e[1] = g /\ e[2] >= reached'[g].source
    BY <1>3, NearAfter, WorstAfter
  <2> QED BY <2>2, <2>3, <2>4, <2>5, <2>6 DEF SearchInv, ToSet
<1>4. CASE EndWalk
  <2>1. walker' = NoTest
    BY <1>4 DEF EndWalk
  <2> QED BY <2>1 DEF SearchInv
<1>5. CASE ~WalkAction
  <2>1. UNCHANGED <<program, limits, walker, queue, reached, targets, truncated>>
    BY <1>5, OtherSteps DEF graphVars
  <2>2. /\ \A x : CallsOf(x)' = CallsOf(x) /\ CalleesOf(x)' = CalleesOf(x)
        /\ \A u, g, s, a : Sound(u, g, s, a)' <=> Sound(u, g, s, a)
        /\ \A f : Cost(f)' = Cost(f)
        /\ \A c : IsUnsafeCall(c)' <=> IsUnsafeCall(c)
    BY <2>1, SameProgram, SamePaths, SameBounds
  <2>3. \A f : Near(f)' <=> Near(f)
    BY <2>1, <2>2 DEF Near, Recorded
  <2>4. \A f : Worst(f)' <=> Worst(f)
    BY <2>1, <2>2 DEF Worst, Recorded
  <2> QED BY <2>1, <2>2, <2>3, <2>4 DEF SearchInv, ToSet
<1> QED BY <1>1, <1>2, <1>3, <1>4, <1>5 DEF WalkAction

\* What is left on the targets is sound.
LEMMA SoundStep ==
  ASSUME GraphInv, WalkerInv, WalkInv, TypeInv, SearchInv, SoundInv, [Next]_vars
  PROVE  SoundInv'
<1>1. CASE WalkStep
  <2>1. PICK f \in Fns, source \in NoSource..UnsafeCode, at \in Nat :
            /\ walker \in Tests /\ walker # NoTest
            /\ f \in TrulyReached(walker) /\ f \in Handled
            /\ Sound(walker, f, source, at)
            /\ Taking(f, source, at) /\ TakenOn(f, source, at)
    BY <1>1, TakenIsSound
  <2>2. program' = program
    BY <1>1 DEF WalkStep
  <2>3. /\ \A ts, a : NotTooLong(ts, a)' <=> NotTooLong(ts, a)
        /\ \A u, g, s, a : Sound(u, g, s, a)' <=> Sound(u, g, s, a)
    BY <2>2, SamePaths, SameBounds
  <2>4. Closer(targets', walker, f, source, at)
    BY <2>1 DEF Taking
  <2>5. ASSUME NEW g \in DOMAIN targets', NEW away \in Lengths, NotTooLong(Tests, away)
        PROVE  away[g] <= targets'[g].distance
    <3>1. CASE g \in DOMAIN targets /\ targets'[g].distance = targets[g].distance
      BY <3>1, <2>5 DEF SoundInv
    <3>2. CASE g = f /\ targets'[g].distance = at
      <4>1. NotTooLong({walker}, away)
        BY <2>1, <2>5, FewerTests
      <4> QED BY <3>2, <4>1, <2>1 DEF Sound
    <3> QED BY <3>1, <3>2, <2>4 DEF Closer
  <2>6. ASSUME NEW g \in DOMAIN targets', NEW u \in DOMAIN targets'[g].reach
        PROVE  Sound(u, g, targets'[g].reach[u].source, targets'[g].reach[u].distance)
    <3> DEFINE now == targets'[g].reach[u]
    <3>1. /\ \/ g \in DOMAIN targets /\ u \in DOMAIN targets[g].reach /\ now.distance = targets[g].reach[u].distance
             \/ g = f /\ u = walker /\ now.distance = at
          /\ \/ g \in DOMAIN targets /\ u \in DOMAIN targets[g].reach /\ now.source = targets[g].reach[u].source
             \/ g = f /\ u = walker /\ now.source = source
      BY <2>4 DEF Closer
    <3> HIDE DEF now
    <3>2. (g \in DOMAIN targets /\ u \in DOMAIN targets[g].reach) => Sound(u, g, targets[g].reach[u].source, targets[g].reach[u].distance)
      BY DEF SoundInv
    <3>3. \A away \in Lengths : NotTooLong({u}, away) => away[g] <= now.distance
      BY <3>1, <3>2, <2>1 DEF Sound
    <3>4. \A worst \in Sources : NotTooSafe(u, worst) => now.source <= worst[g]
      BY <3>1, <3>2, <2>1 DEF Sound
    <3>5. Sound(u, g, now.source, now.distance)
      BY <3>3, <3>4 DEF Sound
    <3> QED BY <3>5 DEF now
  <2> QED BY <2>3, <2>5, <2>6 DEF SoundInv, Lengths
<1>2. CASE ~WalkStep
  <2>1. UNCHANGED <<program, targets>>
    <3>1. CASE WalkAction
      BY <3>1, <1>2 DEF WalkAction, RecordCallers, NextDistance, StartWalk, EndWalk
    <3>2. CASE ~WalkAction
      BY <3>2, OtherSteps DEF graphVars
    <3> QED BY <3>1, <3>2
  <2>2. /\ \A ts, a : NotTooLong(ts, a)' <=> NotTooLong(ts, a)
        /\ \A u, g, s, a : Sound(u, g, s, a)' <=> Sound(u, g, s, a)
    BY <2>1, SamePaths, SameBounds
  <2> QED BY <2>1, <2>2 DEF SoundInv, Lengths
<1> QED BY <1>1, <1>2

-----------------------------------------------------------------------------
(* What the walks leave *)

\* The distances that the walk knows, none of them more than n.
Cap(n) == [g \in Fns |-> IF g \in DOMAIN reached /\ reached[g].distance < n THEN reached[g].distance ELSE n]

\* When nothing is left in the queue, the distances that the walk knows are nowhere too long.
LEMMA CapHolds ==
  ASSUME GraphInv, TypeInv, SearchInv, walker \in Tests, queue = <<>>, NEW n \in Nat, walker \in truncated => n <= limits.mutation
  PROVE  Cap(n) \in [Fns -> 0..n] /\ NotTooLong({walker}, Cap(n))
<1>1. walker # NoTest /\ ToSet(queue) = {}
  BY FnsAssumption DEF ToSet
<1>2. \A g \in DOMAIN reached : reached[g].distance \in Nat
  BY DEF TypeInv, ReachType
<1>3. \A g \in Fns : Cap(n)[g] \in 0..n /\ (g \in DOMAIN reached => Cap(n)[g] <= reached[g].distance)
  BY <1>2 DEF Cap
<1>4. Cap(n) \in [Fns -> 0..n]
  BY <1>3 DEF Cap
<1>5. ASSUME NEW f \in CalleesOf(walker)
      PROVE  Cap(n)[f] = 0
  <2>1. f \in DOMAIN reached /\ reached[f].distance = 0 /\ f \in Fns
    BY <1>1, CalleesAreFns DEF SearchInv, GraphInv
  <2> QED BY <2>1, <1>3
<1>6. ASSUME NEW c \in program.calls, c[1] \in Fns
      PROVE  Cap(n)[c[2]] <= Cap(n)[c[1]] + Cost(c[1])
  <2>1. c[2] \in Fns /\ c \in CallsOf(c[1])
    BY CallsAreOf DEF GraphInv
  <2>2. Cost(c[1]) \in {0, 1} /\ Cap(n)[c[2]] \in 0..n /\ limits.mutation \in Nat
    BY <2>1, <1>3, LimitsAssumption DEF Cost, TypeInv
  <2>3. CASE ~(c[1] \in DOMAIN reached /\ reached[c[1]].distance < n)
    <3>1. Cap(n)[c[1]] = n
      BY <2>3, <1>6 DEF Cap
    <3> QED BY <3>1, <2>2
  <2>4. CASE c[1] \in DOMAIN reached /\ reached[c[1]].distance < n
    <3>1. Cap(n)[c[1]] = reached[c[1]].distance
      BY <2>4, <1>6 DEF Cap
    <3>2. Near(c[1])
      BY <2>4, <1>1 DEF SearchInv
    <3>3. CASE walker \in truncated /\ reached[c[1]].distance + Cost(c[1]) >= limits.mutation
      BY <3>1, <3>3, <2>2, <2>4, <1>2
    <3>4. CASE c[2] \in DOMAIN reached /\ reached[c[2]].distance <= reached[c[1]].distance + Cost(c[1])
      <4>1. Cap(n)[c[2]] <= reached[c[2]].distance
        BY <3>4, <2>1, <1>3
      <4> QED BY <3>1, <3>4, <4>1, <2>2, <2>4, <1>2
    <3> QED BY <3>2, <3>3, <3>4, <2>1 DEF Near
  <2> QED BY <2>3, <2>4
<1> QED BY <1>4, <1>5, <1>6 DEF NotTooLong

\* What a walk leaves when it ends.
LEMMA WalkLeaves ==
  ASSUME GraphInv, TypeInv, WalkInv, SearchInv, SoundInv, walker \in Tests, queue = <<>>
  PROVE  Left(walker)
<1>1. walker # NoTest /\ ToSet(queue) = {} /\ FnsOf(queue) = {}
  BY FnsAssumption DEF ToSet, FnsOf
<1>2. \A g \in DOMAIN reached : reached[g].distance \in Nat /\ Near(g) /\ Worst(g)
  BY <1>1 DEF SearchInv, TypeInv, ReachType
<1>3. program.mutable \subseteq Fns /\ limits.mutation \in Nat
  BY ProgramsAssumption, LimitsAssumption DEF GraphInv, TypeInv
<1>4. Within(walker)
  <2> DEFINE away == Cap(limits.mutation)
  <2>1. away \in Lengths /\ NotTooLong({walker}, away)
    <3>1. limits.mutation \in Nat /\ limits.mutation <= limits.mutation
      BY <1>3
    <3>2. Cap(limits.mutation) \in [Fns -> 0..limits.mutation] /\ NotTooLong({walker}, Cap(limits.mutation))
      BY ONLY <3>1, GraphInv, TypeInv, SearchInv, walker \in Tests, queue = <<>>, CapHolds
    <3> QED BY <3>1, <3>2 DEF Lengths
  <2>2. ASSUME NEW f \in program.mutable, away[f] < limits.mutation
        PROVE  f \in DOMAIN targets /\ targets[f].distance <= away[f]
    <3>1. f \in DOMAIN reached /\ away[f] = reached[f].distance
      BY <2>2, <1>3 DEF Cap
    <3>2. Recorded(walker, f) /\ targets[f].distance <= reached[f].distance
      BY <3>1, <1>2 DEF Near
    <3> HIDE DEF away
    <3> QED BY <3>1, <3>2 DEF Recorded
  <2> HIDE DEF away
  <2> QED BY <2>1, <2>2 DEF Within
<1>5. ASSUME walker \notin truncated, NEW f \in TrulyReached(walker) \cap program.mutable
      PROVE  Exact(walker, f)
  <2>1. TrulyReached(walker) \subseteq DOMAIN reached
    <3>1. ClosedFrom(walker, DOMAIN reached)
      BY <1>1, <1>5 DEF ClosedFrom, WalkInv, Visited
    <3>2. DOMAIN reached \in SUBSET Fns
      BY <1>1 DEF TrulyReached, WalkInv
    <3> QED BY <3>1, <3>2, ReachesOn DEF GraphInv
  <2>2. f \in DOMAIN reached /\ f \in Fns
    BY <2>1, <1>3
  <2> DEFINE left == targets[f].reach[walker]
  <2>3. /\ Recorded(walker, f) /\ left.distance <= reached[f].distance /\ left.source >= reached[f].source
    BY <2>2, <1>2 DEF Near, Worst
  <2>4. left.distance \in Nat /\ left.source \in NoSource..UnsafeCode
    BY <2>3 DEF TypeInv, ReachType, Recorded
  <2>5. AtLeast({walker}, f, left.distance)
    <3>1. Cap(left.distance) \in [Fns -> 0..left.distance] /\ NotTooLong({walker}, Cap(left.distance))
      BY <1>5, <2>4, CapHolds
    <3>2. Cap(left.distance)[f] = left.distance
      BY <2>2, <2>3, <2>4, <1>2 DEF Cap
    <3> QED BY <3>1, <3>2 DEF AtLeast
  <2>6. AtMost(walker, f, left.source)
    <3> DEFINE worst == [g \in Fns |-> IF g \in DOMAIN reached THEN reached[g].source ELSE NoSource]
    <3>1. \A g \in DOMAIN reached : reached[g].source \in NoSource..UnsafeCode
      BY DEF TypeInv, ReachType
    <3>2. worst \in [Fns -> NoSource..UnsafeCode]
      BY <3>1 DEF NoSource, UnsafeCode
    <3>3. \A g \in CalleesOf(walker) : worst[g] >= program.safety[walker]
      BY <1>1, CalleesAreFns DEF SearchInv, GraphInv
    <3>4. ASSUME NEW c \in program.calls, c[1] \in TrulyReached(walker)
          PROVE  worst[c[2]] >= IF IsUnsafeCall(c) THEN UnsafeCode ELSE worst[c[1]]
      <4>1. c[2] \in Fns /\ c[1] \in Fns /\ c \in CallsOf(c[1])
        BY <3>4, CallsAreOf DEF GraphInv, TrulyReached
      <4>2. c[1] \in DOMAIN reached /\ Worst(c[1])
        BY <3>4, <2>1, <1>2
      <4>3. c[2] \in DOMAIN reached /\ reached[c[2]].source >= IF IsUnsafeCall(c) THEN UnsafeCode ELSE reached[c[1]].source
        BY <4>1, <4>2, <1>5 DEF Worst
      <4> QED BY <4>1, <4>2, <4>3
    <3>5. worst[f] = reached[f].source
      BY <2>2
    <3> HIDE DEF worst
    <3>6. NotTooSafe(walker, worst)
      BY <3>3, <3>4 DEF NotTooSafe
    <3>7. left.source <= worst[f]
      <4>1. Sound(walker, f, left.source, left.distance)
        BY <2>3 DEF SoundInv, Recorded
      <4> HIDE DEF left
      <4> QED BY <4>1, <3>2, <3>6 DEF Sound, Sources
    <3>8. worst[f] = left.source
      <4>1. worst[f] \in Int /\ left.source \in Int
        BY <3>2, <2>2, <2>4 DEF NoSource, UnsafeCode
      <4> HIDE DEF left
      <4> QED BY <4>1, <3>5, <3>7, <2>3
    <3> QED BY <3>2, <3>6, <3>8 DEF AtMost
  <2> QED BY <2>3, <2>5, <2>6 DEF Exact
<1> QED BY <1>4, <1>5 DEF Left

\* A walk leaves what other tests have left on the targets, or makes it nearer.
LEMMA LeftStays ==
  ASSUME program' = program, limits' = limits, TypeInv, limits.mutation \in Nat, program.mutable \subseteq Fns,
         NEW t, t \in truncated => t \in truncated',
         \A f \in DOMAIN targets :
             /\ f \in DOMAIN targets' /\ targets'[f].distance \in Nat /\ targets'[f].distance <= targets[f].distance
             /\ t \in DOMAIN targets[f].reach => t \in DOMAIN targets'[f].reach /\ targets'[f].reach[t] = targets[f].reach[t],
         Left(t)
  PROVE  Left(t)'
<1>1. /\ \A ts, away : NotTooLong(ts, away)' <=> NotTooLong(ts, away)
      /\ \A ts, f, n : AtLeast(ts, f, n)' <=> AtLeast(ts, f, n)
      /\ \A u, f, n : AtMost(u, f, n)' <=> AtMost(u, f, n)
      /\ \A u : TrulyReached(u)' = TrulyReached(u)
  BY SamePaths, SameBounds, SameProgram
<1>2. Within(t)'
  <2>1. PICK away \in Lengths :
            /\ NotTooLong({t}, away)
            /\ \A f \in program.mutable : away[f] < limits.mutation => f \in DOMAIN targets /\ targets[f].distance <= away[f]
    BY DEF Left, Within
  <2>2. ASSUME NEW f \in program.mutable, away[f] < limits.mutation
        PROVE  f \in DOMAIN targets' /\ targets'[f].distance <= away[f]
    <3>1. f \in DOMAIN targets /\ targets[f].distance <= away[f]
      BY <2>1, <2>2
    <3>2. f \in DOMAIN targets' /\ targets'[f].distance <= targets[f].distance /\ targets'[f].distance \in Nat
      BY <3>1
    <3>3. targets[f].distance \in Nat /\ away[f] \in Nat
      BY <3>1 DEF TypeInv, Lengths
    <3> QED BY <3>1, <3>2, <3>3
  <2> QED BY <1>1, <2>1, <2>2 DEF Within, Lengths
<1>3. ASSUME NEW f, Exact(t, f)
      PROVE  Exact(t, f)'
  BY <1>1, <1>3 DEF Exact, Recorded
<1> QED BY <1>1, <1>2, <1>3 DEF Left

\* What has been left stays left, and a walk that ends adds what it leaves.
LEMMA LeftStep ==
  ASSUME GraphInv, WalkerInv, WalkInv, TypeInv, SearchInv, SoundInv, LeftInv, [Next]_vars
  PROVE  LeftInv'
<1>0. limits.mutation \in Nat /\ program.mutable \subseteq Fns /\ \A f \in DOMAIN targets : targets[f].distance \in Nat
  BY ProgramsAssumption, LimitsAssumption DEF GraphInv, TypeInv
<1>1. ASSUME UNCHANGED <<program, limits, targets, truncated>>, NEW t, Left(t)
      PROVE  Left(t)'
  BY <1>0, <1>1, LeftStays
<1>2. CASE RecordCallers \/ NextDistance
  <2>1. UNCHANGED <<program, limits, targets, truncated, toWalk, walker>>
    BY <1>2 DEF RecordCallers, NextDistance
  <2> QED BY <2>1, <1>1 DEF LeftInv
<1>3. ASSUME NEW t \in Tests, StartWalk(t)
      PROVE  LeftInv'
  <2>1. UNCHANGED <<program, limits, targets, truncated>> /\ toWalk' = toWalk \ {t} /\ walker' = t /\ t \in toWalk
    BY <1>3 DEF StartWalk
  <2>2. walker = NoTest
    BY <1>3 DEF StartWalk
  <2>3. ASSUME NEW u \in Tests \ (toWalk' \cup {walker'})
        PROVE  u \in Tests \ (toWalk \cup {walker})
    BY <2>1, <2>2, FnsAssumption
  <2> QED BY <2>1, <2>3, <1>1 DEF LeftInv
<1>4. CASE WalkStep
  <2>1. PICK f \in Fns, source \in NoSource..UnsafeCode, at \in Nat : Taking(f, source, at)
    BY <1>4, TakenIsSound
  <2>2. Closer(targets', walker, f, source, at)
    BY <2>1 DEF Taking
  <2>3. UNCHANGED <<program, limits, toWalk, walker>> /\ truncated \subseteq truncated'
    BY <1>4 DEF WalkStep
  <2>4. ASSUME NEW u \in Tests \ (toWalk \cup {walker})
        PROVE  Left(u)'
    <3>1. u # walker /\ Left(u)
      BY DEF LeftInv
    <3>2. ASSUME NEW g \in DOMAIN targets
          PROVE  /\ g \in DOMAIN targets' /\ targets'[g].distance \in Nat /\ targets'[g].distance <= targets[g].distance
                 /\ u \in DOMAIN targets[g].reach => u \in DOMAIN targets'[g].reach /\ targets'[g].reach[u] = targets[g].reach[u]
      BY <2>2, <3>1 DEF Closer
    <3> QED BY ONLY <3>1, <3>2, <2>3, <1>0, TypeInv, LeftStays
  <2> QED BY <2>3, <2>4 DEF LeftInv
<1>5. CASE EndWalk
  <2>1. UNCHANGED <<program, limits, targets, truncated, toWalk>> /\ walker # NoTest /\ queue = <<>>
    BY <1>5 DEF EndWalk
  <2>2. Left(walker)
    BY <2>1, WalkLeaves DEF WalkerInv
  <2>3. \A u \in Tests \ toWalk' : Left(u)
    BY <2>1, <2>2 DEF LeftInv
  <2> QED BY <2>1, <2>3, <1>1 DEF LeftInv
<1>6. CASE ~WalkAction
  <2>1. UNCHANGED <<program, limits, targets, truncated, toWalk, walker>>
    BY <1>6, OtherSteps DEF graphVars
  <2> QED BY <2>1, <1>1 DEF LeftInv
<1> QED BY <1>2, <1>3, <1>4, <1>5, <1>6 DEF WalkAction

\* At first nothing is recorded, and every function may be as near as the tests themselves.
LEMMA InitDistances ==
  ASSUME Init
  PROVE  DistancesInv
<1>1. /\ program \in Programs /\ limits \in Limits /\ phase = "graph" /\ distance = 0
      /\ callers = UNION {CalleesOf(t) : t \in Tests}
      /\ recorded = {} /\ cutCallers = {} /\ toWalk = Tests /\ walker = NoTest
      /\ DOMAIN queue = {} /\ DOMAIN reached = {} /\ DOMAIN targets = {}
  BY DEF Init, GraphInit
<1>2. RecordingInv
  <2> DEFINE away == [f \in Fns |-> 0]
  <2>1. away \in Lengths /\ \A f \in Fns : away[f] = 0
    BY DEF Lengths
  <2>2. NotTooLong(Tests, away)
    <3>1. \A t \in Tests : CalleesOf(t) \subseteq Fns
      BY <1>1, CalleesAreFns
    <3>2. ASSUME NEW c \in program.calls, c[1] \in Fns
          PROVE  away[c[2]] <= away[c[1]] + Cost(c[1])
      <4>1. c[2] \in Fns /\ Cost(c[1]) \in {0, 1}
        BY <1>1, CallsAreOf DEF Cost
      <4> QED BY <3>2, <4>1, <2>1
    <3> HIDE DEF away
    <3> QED BY <3>1, <3>2, <2>1 DEF NotTooLong
  <2> HIDE DEF away
  <2>3. \A f \in Fns : f \notin recorded /\ CallsOf(f) # {} => away[f] = distance
    BY <1>1, <2>1
  <2> QED BY <1>1, <2>1, <2>2, <2>3 DEF RecordingInv
<1>3. RecordedInv
  BY <1>1 DEF RecordedInv
<1>4. TypeInv
  BY <1>1 DEF TypeInv, ToSet
<1>5. SearchInv
  BY <1>1 DEF SearchInv
<1>6. SoundInv
  BY <1>1 DEF SoundInv
<1>7. LeftInv
  BY <1>1 DEF LeftInv
<1> QED BY <1>2, <1>3, <1>4, <1>5, <1>6, <1>7 DEF DistancesInv

\* Every step of the pass keeps the distances and sources right.
LEMMA StepDistances ==
  ASSUME IInv, DistancesInv, [Next]_vars
  PROVE  DistancesInv'
<1> USE DEF IInv, DistancesInv
<1>1. RecordingInv' /\ RecordedInv'
  BY RecordingStep, RecordedStep
<1>2. TypeInv'
  BY TypeStep
<1>3. SearchInv'
  BY SearchStep
<1>4. SoundInv'
  BY SoundStep
<1>5. LeftInv'
  BY LeftStep
<1> QED BY <1>1, <1>2, <1>3, <1>4, <1>5

\* The distances and sources are right throughout the pass.
LEMMA DistancesInvariant == Spec => [](IInv /\ DistancesInv)
<1>1. Init => DistancesInv
  BY InitDistances
<1>2. IInv /\ DistancesInv /\ [Next]_vars => DistancesInv'
  BY StepDistances
<1> QED BY <1>1, <1>2, Invariant, PTL DEF Spec

-----------------------------------------------------------------------------
(* That the targets are exact *)

\* Distances that are nowhere too long are so when none of them counts more than n.
LEMMA NoFurther ==
  ASSUME program \in Programs, NEW ts, NEW away \in Lengths, NotTooLong(ts, away), NEW f \in Fns, NEW n \in Nat, n <= away[f]
  PROVE  AtLeast(ts, f, n)
<1> DEFINE capped == [g \in Fns |-> IF away[g] <= n THEN away[g] ELSE n]
<1>1. \A g \in Fns : away[g] \in Nat
  BY DEF Lengths
<1>2. capped \in [Fns -> 0..n] /\ capped[f] = n
  BY <1>1
<1>3. ASSUME NEW t \in ts, NEW g \in CalleesOf(t)
      PROVE  capped[g] = 0
  <2>1. g \in Fns /\ away[g] = 0
    BY CalleesAreFns DEF NotTooLong
  <2> QED BY <2>1
<1>4. ASSUME NEW c \in program.calls, c[1] \in Fns
      PROVE  capped[c[2]] <= capped[c[1]] + Cost(c[1])
  <2>1. c[2] \in Fns /\ Cost(c[1]) \in {0, 1}
    BY CallsAreOf DEF Cost
  <2>2. away[c[2]] <= away[c[1]] + Cost(c[1])
    BY <1>4 DEF NotTooLong
  <2> QED BY <1>1, <1>4, <2>1, <2>2
<1> HIDE DEF capped
<1> QED BY <1>2, <1>3, <1>4 DEF AtLeast, NotTooLong

\* The nearest distances that the tests have left are nowhere too long for all tests together.
LEMMA NearestOfAll ==
  ASSUME program \in Programs, limits.mutation \in Nat, program.mutable \subseteq Fns, \A t \in Tests : Within(t)
  PROVE  \E away \in [Fns -> 0..limits.mutation] :
            /\ NotTooLong(Tests, away)
            /\ \A f \in program.mutable : away[f] < limits.mutation => f \in DOMAIN targets /\ targets[f].distance <= away[f]
<1> DEFINE Far == limits.mutation
           Of(t, away) ==
               /\ NotTooLong({t}, away)
               /\ \A f \in program.mutable : away[f] < Far => f \in DOMAIN targets /\ targets[f].distance <= away[f]
           from == [t \in Tests |-> CHOOSE away \in Lengths : Of(t, away)]
           Known(f) == {n \in 0..Far : n = Far \/ \E t \in Tests : from[t][f] <= n}
           Least(f, n) == n \in Known(f) /\ \A m \in Known(f) : n <= m
           away == [f \in Fns |-> CHOOSE n \in 0..Far : Least(f, n)]
<1>1. \A t \in Tests : from[t] \in Lengths /\ Of(t, from[t])
  BY DEF Within
<1> HIDE DEF from
<1>2. \A t \in Tests, f \in Fns : from[t][f] \in Nat
  BY <1>1 DEF Lengths
<1>3. ASSUME NEW f \in Fns
      PROVE  away[f] \in 0..Far /\ Least(f, away[f])
  <2>1. Known(f) \in SUBSET Nat /\ Known(f) # {}
    <3>1. Far \in Known(f)
      OBVIOUS
    <3> QED BY <3>1
  <2> HIDE DEF Known
  <2>2. \E n \in Known(f) : \A m \in Known(f) : n <= m
    BY ONLY <2>1, LeastNatural
  <2>3. Known(f) \subseteq 0..Far
    BY DEF Known
  <2>4. \E n \in 0..Far : Least(f, n)
    BY <2>2, <2>3
  <2> HIDE DEF Least
  <2> QED BY <2>4
<1>4. away \in [Fns -> 0..Far]
  <2>1. \A f \in Fns : away[f] \in 0..Far
    BY <1>3
  <2> QED BY <2>1
<1> HIDE DEF away
<1>5. ASSUME NEW f \in Fns, NEW t \in Tests
      PROVE  away[f] <= from[t][f]
  <2>1. away[f] \in 0..Far /\ from[t][f] \in Nat /\ Far \in Nat
    BY <1>2, <1>3
  <2>2. CASE from[t][f] <= Far
    <3>1. from[t][f] \in Known(f)
      BY <2>1, <2>2
    <3> QED BY <3>1, <1>3
  <2>3. CASE ~(from[t][f] <= Far)
    BY <2>1, <2>3
  <2> QED BY <2>2, <2>3
<1>6. ASSUME NEW f \in Fns, away[f] # Far
      PROVE  \E t \in Tests : from[t][f] = away[f]
  <2>1. PICK t \in Tests : from[t][f] <= away[f]
    BY <1>3, <1>6
  <2> QED BY <2>1, <1>2, <1>3, <1>5
<1>7. ASSUME NEW t \in Tests, NEW f \in CalleesOf(t)
      PROVE  away[f] = 0
  <2>1. f \in Fns /\ from[t][f] = 0
    BY <1>1, CalleesAreFns DEF NotTooLong
  <2> QED BY <2>1, <1>3, <1>5
<1>8. ASSUME NEW c \in program.calls, c[1] \in Fns
      PROVE  away[c[2]] <= away[c[1]] + Cost(c[1])
  <2>1. c[2] \in Fns /\ Cost(c[1]) \in {0, 1}
    BY CallsAreOf DEF Cost
  <2>2. away[c[1]] \in 0..Far /\ away[c[2]] \in 0..Far
    BY <1>3, <1>8, <2>1
  <2>3. CASE away[c[1]] = Far
    BY <2>1, <2>2, <2>3
  <2>4. CASE away[c[1]] # Far
    <3>1. PICK t \in Tests : from[t][c[1]] = away[c[1]]
      BY <1>6, <1>8, <2>4
    <3>2. from[t][c[2]] <= from[t][c[1]] + Cost(c[1])
      BY <1>1, <1>8 DEF NotTooLong
    <3>3. away[c[2]] <= from[t][c[2]] /\ from[t][c[2]] \in Nat
      BY <1>2, <1>5, <2>1
    <3> QED BY <3>1, <3>2, <3>3, <2>1, <2>2
  <2> QED BY <2>3, <2>4
<1>9. ASSUME NEW f \in program.mutable, away[f] < limits.mutation
      PROVE  f \in DOMAIN targets /\ targets[f].distance <= away[f]
  <2>1. PICK t \in Tests : from[t][f] = away[f]
    BY <1>6, <1>9
  <2> QED BY <2>1, <1>1, <1>9
<1> QED BY <1>4, <1>7, <1>8, <1>9 DEF NotTooLong

\* When the walks are done, the targets are exact.
LEMMA InvTargetsExact ==
  ASSUME IInv, DistancesInv
  PROVE  TargetsExact
<1> SUFFICES ASSUME phase = "mutate" PROVE TargetsExact
  BY DEF TargetsExact, WalksDone
<1>1. program \in Programs /\ walker = NoTest /\ toWalk = {} /\ \A t \in Tests : Left(t)
  BY FnsAssumption DEF IInv, GraphInv, WalkerInv, DistancesInv, LeftInv
<1>2. program.mutable \subseteq Fns /\ limits.mutation \in Nat
  BY <1>1, ProgramsAssumption, LimitsAssumption DEF DistancesInv, TypeInv
<1>3. \A f \in DOMAIN targets : \A t \in DOMAIN targets[f].reach : f \in TrulyReached(t)
  BY DEF IInv, ReachInv
<1>4. ASSUME NEW t \in Tests \ truncated, NEW f \in TrulyReached(t) \cap program.mutable
      PROVE  /\ f \in DOMAIN targets /\ t \in DOMAIN targets[f].reach
             /\ IsDistance({t}, f, targets[f].reach[t].distance)
             /\ IsSource(t, f, targets[f].reach[t].source)
  <2> DEFINE at == targets[f].reach[t].distance
             source == targets[f].reach[t].source
  <2>1. Recorded(t, f) /\ AtLeast({t}, f, at) /\ AtMost(t, f, source)
    BY <1>1 DEF Left, Exact
  <2>2. at \in Nat /\ source \in Int /\ Sound(t, f, source, at)
    BY <2>1 DEF Recorded, DistancesInv, TypeInv, ReachType, SoundInv, NoSource, UnsafeCode
  <2> HIDE DEF at, source
  <2>3. ~AtLeast({t}, f, at + 1)
    <3> SUFFICES ASSUME NEW away \in [Fns -> 0..(at + 1)], NotTooLong({t}, away), away[f] = at + 1
                 PROVE  FALSE
      BY DEF AtLeast
    <3>1. away \in Lengths
      BY <2>2 DEF Lengths
    <3> QED BY <3>1, <2>2 DEF Sound
  <2>4. ~AtMost(t, f, source - 1)
    <3> SUFFICES ASSUME NEW worst \in Sources, NotTooSafe(t, worst), worst[f] = source - 1
                 PROVE  FALSE
      BY DEF AtMost, Sources
    <3> QED BY <2>2 DEF Sound
  <2> QED BY <2>1, <2>3, <2>4 DEF Recorded, IsDistance, IsSource, at, source
<1>5. ASSUME NEW f \in program.mutable, ~AtLeast(Tests, f, limits.mutation)
      PROVE  f \in DOMAIN targets /\ IsDistance(Tests, f, targets[f].distance)
  <2>1. PICK away \in [Fns -> 0..limits.mutation] :
            /\ NotTooLong(Tests, away)
            /\ \A g \in program.mutable : away[g] < limits.mutation => g \in DOMAIN targets /\ targets[g].distance <= away[g]
    BY <1>1, <1>2, NearestOfAll DEF Left
  <2>2. f \in Fns /\ away[f] \in 0..limits.mutation
    BY <1>2
  <2>3. away[f] < limits.mutation
    <3>1. away[f] # limits.mutation
      BY <1>5, <2>1 DEF AtLeast
    <3> QED BY <3>1, <2>2, <1>2
  <2>4. f \in DOMAIN targets /\ targets[f].distance <= away[f]
    BY <2>1, <2>3
  <2>5. \A longer \in Lengths : NotTooLong(Tests, longer) => longer[f] <= targets[f].distance
    BY <2>4 DEF DistancesInv, SoundInv
  <2>6. targets[f].distance \in Nat
    BY <2>4 DEF DistancesInv, TypeInv
  <2>7. away \in Lengths
    BY <1>2 DEF Lengths
  <2>8. AtLeast(Tests, f, targets[f].distance)
    BY <1>1, <2>1, <2>2, <2>4, <2>5, <2>6, <2>7, NoFurther
  <2>9. ~AtLeast(Tests, f, targets[f].distance + 1)
    <3> DEFINE n == targets[f].distance
    <3> SUFFICES ASSUME NEW longer \in [Fns -> 0..(n + 1)], NotTooLong(Tests, longer), longer[f] = n + 1
                 PROVE  FALSE
      BY DEF AtLeast
    <3>1. longer \in Lengths
      BY <2>6 DEF Lengths
    <3> QED BY <3>1, <2>5, <2>6
  <2> QED BY <2>4, <2>8, <2>9 DEF IsDistance
<1> QED BY <1>3, <1>4, <1>5 DEF TargetsExact

\* What the walks leave on the targets is true of the program, whatever its calls and the limits: a test is recorded on
\* functions that it reaches only; one that no limit cut is recorded on all of them, at its least distance and with its
\* most unsafe path; and a function within the mutation depth is a target at its distance from the nearest test, even
\* where limits cut the walks (call_graph.rs, reachable_fns).
THEOREM TargetsAreExact == Spec => []TargetsExact
<1>1. IInv /\ DistancesInv => TargetsExact
  BY InvTargetsExact
<1> QED BY <1>1, DistancesInvariant, PTL

-----------------------------------------------------------------------------
(* What the operators propose *)

\* The values of fn_return_default for the type from its constructor at i inwards, when those from the next are known.
ValuesFrom(ty, of, i) ==
    LET DefaultValue == IF ty[i] \in DefaultHeads THEN {<<"default">>} ELSE {}
        Wrapped(constructor) == {<<constructor>> \o v : v \in of[i + 1]}
    IN IF i > Len(ty) THEN {}
       ELSE IF i - 1 > MaxTyDepth THEN DefaultValue
       ELSE CASE ty[i] \in DOMAIN Literals -> {<<v>> : v \in Literals[ty[i]]}
              [] ty[i] = "ref" /\ i < Len(ty) /\ ty[i + 1] = "str" -> {<<"empty">>, <<"xyzzy">>}
              [] ty[i] = "Result" -> Wrapped("Ok")
              [] ty[i] = "Option" -> {<<"None">>} \cup Wrapped("Some")
              [] ty[i] = "Vec" -> {<<"Vec::new()">>} \cup Wrapped("Vec::from")
              [] OTHER -> DefaultValue

\* What the recursion of Replacements says of the values from each constructor inwards.
HoldsValues(of, ty) == of = [i \in 1..(Len(ty) + 1) |-> ValuesFrom(ty, of, i)]

\* There are values as the recursion says.
LEMMA ValuesExist ==
  ASSUME NEW ty, Len(ty) \in Nat
  PROVE  \E of : HoldsValues(of, ty)
<1> DEFINE Top == Len(ty) + 1
           Missing == {n \in 0..Len(ty) : ~\E f : f = [i \in (Top - n)..Top |-> ValuesFrom(ty, f, i)]}
<1>1. Missing \in SUBSET Nat
  OBVIOUS
<1>2. \A f, i : i > Len(ty) => ValuesFrom(ty, f, i) = {}
  BY Zenon DEF ValuesFrom
<1>3. ASSUME Missing # {}
      PROVE  FALSE
  <2> HIDE DEF Missing
  <2>1. PICK n \in Missing : \A m \in Missing : n <= m
    BY <1>1, <1>3, LeastNatural
  <2>2. n # 0
    <3>1. [i \in (Top - 0)..Top |-> {}] = [i \in (Top - 0)..Top |-> ValuesFrom(ty, [j \in (Top - 0)..Top |-> {}], i)]
      BY <1>2
    <3> QED BY <3>1 DEF Missing
  <2>3. n \in 1..Len(ty) /\ n - 1 \in 0..Len(ty) /\ n - 1 \notin Missing
    <3>1. n \in 0..Len(ty)
      BY DEF Missing
    <3> QED BY <2>1, <2>2, <3>1
  <2>4. PICK f : f = [i \in (Top - (n - 1))..Top |-> ValuesFrom(ty, f, i)]
    BY <2>3 DEF Missing
  <2> DEFINE g == [i \in (Top - n)..Top |-> ValuesFrom(ty, f, i)]
  <2>5. \A i \in (Top - (n - 1))..Top : g[i] = f[i]
    <3> SUFFICES ASSUME NEW i \in (Top - (n - 1))..Top PROVE g[i] = f[i]
      OBVIOUS
    <3>1. f[i] = ValuesFrom(ty, f, i)
      BY <2>4
    <3>2. i \in (Top - n)..Top
      BY <2>3
    <3> QED BY <3>1, <3>2
  <2>6. \A i \in (Top - n)..Top : ValuesFrom(ty, g, i) = ValuesFrom(ty, f, i)
    <3> SUFFICES ASSUME NEW i \in (Top - n)..Top PROVE ValuesFrom(ty, g, i) = ValuesFrom(ty, f, i)
      OBVIOUS
    <3>1. CASE i > Len(ty)
      BY <3>1, <1>2
    <3>2. CASE ~(i > Len(ty))
      <4>0. i + 1 \in (Top - (n - 1))..Top
        BY <2>3, <3>2
      <4> HIDE DEF g
      <4>1. g[i + 1] = f[i + 1]
        BY <2>5, <4>0
      <4> QED BY <4>1 DEF ValuesFrom
    <3> QED BY <3>1, <3>2
  <2>7. g = [i \in (Top - n)..Top |-> ValuesFrom(ty, g, i)]
    BY <2>6
  <2> QED BY <2>1, <2>7 DEF Missing
<1>4. Len(ty) \in 0..Len(ty) /\ (Top - Len(ty))..Top = 1..(Len(ty) + 1)
  OBVIOUS
<1> QED BY <1>3, <1>4 DEF HoldsValues

\* A value of the type from its constructor at i inwards, as the compiler checks it.
IsConstructor(x, ty, i) ==
    /\ i <= Len(ty)
    /\ CASE x \in {"None", "Some"} -> ty[i] = "Option"
         [] x = "Ok" -> ty[i] = "Result"
         [] x \in {"Vec::new()", "Vec::from"} -> ty[i] = "Vec"
         [] x \in {"empty", "xyzzy"} -> SubSeq(ty, i, Len(ty)) = <<"ref", "str">>
         [] x = "default" -> ty[i] \in DefaultHeads
         [] OTHER -> ty[i] \in DOMAIN Literals /\ x \in Literals[ty[i]]

Wraps == {"Some", "Ok", "Vec::from"}

IsValueFrom(v, ty, i) ==
    /\ v \in Seq(Range(v)) /\ v # <<>>
    /\ \A j \in DOMAIN v : IsConstructor(v[j], ty, i + j - 1) /\ (j = Len(v) <=> v[j] \notin Wraps)

\* A value without parameters.
LEMMA PlainValue ==
  ASSUME NEW ty, NEW i \in Nat, NEW x, IsConstructor(x, ty, i), x \notin Wraps
  PROVE  IsValueFrom(<<x>>, ty, i)
<1>1. <<x>> \in Seq(Range(<<x>>)) /\ <<x>> # <<>> /\ DOMAIN <<x>> = {1} /\ Len(<<x>>) = 1 /\ <<x>>[1] = x
  BY DEF Range
<1>2. i + 1 - 1 = i
  OBVIOUS
<1> QED BY <1>1, <1>2 DEF IsValueFrom

\* A value with a parameter.
LEMMA WrappedValue ==
  ASSUME NEW ty, NEW i \in Nat, NEW x, IsConstructor(x, ty, i), x \in Wraps, NEW v, IsValueFrom(v, ty, i + 1)
  PROVE  IsValueFrom(<<x>> \o v, ty, i)
<1> DEFINE w == <<x>> \o v
<1>1. v \in Seq(Range(v)) /\ v # <<>>
  BY DEF IsValueFrom
<1>2. Len(v) \in Nat \ {0} /\ DOMAIN v = 1..Len(v)
  BY <1>1
<1>3. Len(w) = Len(v) + 1 /\ DOMAIN w = 1..(Len(v) + 1) /\ w[1] = x /\ \A j \in 2..(Len(v) + 1) : w[j] = v[j - 1]
  BY <1>1
<1>4. w \in Seq(Range(w))
  <2>1. <<x>> \in Seq(Range(v) \cup {x}) /\ v \in Seq(Range(v) \cup {x})
    BY <1>1
  <2>2. w \in Seq(Range(v) \cup {x})
    BY <2>1
  <2> HIDE DEF w
  <2> QED BY <2>2 DEF Range
<1> HIDE DEF w
<1>5. ASSUME NEW j \in DOMAIN w
      PROVE  IsConstructor(w[j], ty, i + j - 1) /\ (j = Len(w) <=> w[j] \notin Wraps)
  <2>1. CASE j = 1
    <3>1. i + j - 1 = i /\ w[j] = x /\ j # Len(w)
      BY <2>1, <1>2, <1>3
    <3> QED BY <3>1
  <2>2. CASE j # 1
    <3>0. j \in 2..(Len(v) + 1)
      BY <2>2, <1>2, <1>3
    <3>1. /\ w[j] = v[j - 1]
          /\ j - 1 \in DOMAIN v /\ (j = Len(w) <=> j - 1 = Len(v))
          /\ (i + 1) + (j - 1) - 1 = i + j - 1
      <4>1. w[j] = v[j - 1]
        BY <3>0, <1>3
      <4>2. j - 1 \in DOMAIN v /\ (j = Len(w) <=> j - 1 = Len(v))
        BY <3>0, <1>2, <1>3
      <4>3. (i + 1) + (j - 1) - 1 = i + j - 1
        BY <3>0, <1>2
      <4> QED BY <4>1, <4>2, <4>3
    <3>2. IsConstructor(v[j - 1], ty, (i + 1) + (j - 1) - 1) /\ (j - 1 = Len(v) <=> v[j - 1] \notin Wraps)
      BY <3>1 DEF IsValueFrom
    <3> QED BY <3>1, <3>2
  <2> QED BY <2>1, <2>2
<1>6. w # <<>>
  BY <1>2, <1>3
<1> QED BY <1>4, <1>5, <1>6 DEF IsValueFrom, w

\* The values for a type are values of the type, if those for its parameter are.
LEMMA ValuesFromFit ==
  ASSUME NEW ty, ty \in Seq(Range(ty)), \A k \in DOMAIN ty : ty[k] = "str" => k = Len(ty),
         NEW of, NEW i \in Nat \ {0}, i <= Len(ty) => \A v \in of[i + 1] : IsValueFrom(v, ty, i + 1),
         NEW v \in ValuesFrom(ty, of, i)
  PROVE  IsValueFrom(v, ty, i)
<1> DEFINE DefaultValue == IF ty[i] \in DefaultHeads THEN {<<"default">>} ELSE {}
           Wrapped(constructor) == {<<constructor>> \o w : w \in of[i + 1]}
<1>0. Len(ty) \in Nat /\ DOMAIN ty = 1..Len(ty)
  OBVIOUS
<1>1. i <= Len(ty) /\ Len(ty) \in Nat /\ DOMAIN ty = 1..Len(ty) /\ i \in DOMAIN ty
  <2>1. ~(i > Len(ty))
    <3>1. i > Len(ty) => ValuesFrom(ty, of, i) = {}
      BY Zenon DEF ValuesFrom
    <3> QED BY <3>1
  <2> QED BY <1>0, <2>1
<1>2. CASE v \in DefaultValue
  <2>1. v = <<"default">> /\ ty[i] \in DefaultHeads
    BY <1>2
  <2>2. IsConstructor("default", ty, i) /\ "default" \notin Wraps
    BY <1>1, <2>1 DEF IsConstructor, Wraps
  <2> QED BY <2>1, <2>2, PlainValue
<1>3. CASE ty[i] \in DOMAIN Literals /\ v \in {<<x>> : x \in Literals[ty[i]]}
  <2>1. PICK x \in Literals[ty[i]] : v = <<x>>
    BY <1>3
  <2>2. x \notin {"None", "Some", "Ok", "Vec::new()", "Vec::from", "empty", "xyzzy", "default"}
    BY <1>3, <2>1 DEF Literals
  <2>3. IsConstructor(x, ty, i) /\ x \notin Wraps
    BY <1>1, <1>3, <2>1, <2>2 DEF IsConstructor, Wraps
  <2> QED BY <2>1, <2>3, PlainValue
<1>4. CASE ty[i] = "ref" /\ i < Len(ty) /\ ty[i + 1] = "str" /\ v \in {<<"empty">>, <<"xyzzy">>}
  <2>1. PICK x \in {"empty", "xyzzy"} : v = <<x>>
    BY <1>4
  <2>2. i + 1 = Len(ty)
    <3>1. i + 1 \in DOMAIN ty /\ ty[i + 1] = "str"
      BY <1>1, <1>4
    <3> QED BY <3>1
  <2>3. SubSeq(ty, i, Len(ty)) = <<"ref", "str">>
    <3>1. SubSeq(ty, i, Len(ty)) = [k \in 1..2 |-> ty[i + k - 1]]
      BY <1>1, <2>2
    <3>2. i + 1 - 1 = i /\ i + 2 - 1 = i + 1
      BY <1>1
    <3> QED BY <3>1, <3>2, <1>4
  <2>4. IsConstructor(x, ty, i) /\ x \notin Wraps
    BY <1>1, <2>3 DEF IsConstructor, Wraps
  <2> QED BY <2>1, <2>4, PlainValue
<1>5. ASSUME NEW x, <<ty[i], x>> \in {<<"Result", "Ok">>, <<"Option", "Some">>, <<"Vec", "Vec::from">>}, v \in Wrapped(x)
      PROVE  IsValueFrom(v, ty, i)
  <2>1. IsConstructor(x, ty, i) /\ x \in Wraps
    BY <1>1, <1>5 DEF IsConstructor, Wraps
  <2>2. PICK w \in of[i + 1] : v = <<x>> \o w
    BY <1>5
  <2>3. IsValueFrom(w, ty, i + 1)
    BY <1>1, <2>2
  <2> QED BY <2>1, <2>2, <2>3, WrappedValue
<1>6. ASSUME NEW x, <<ty[i], x>> \in {<<"Option", "None">>, <<"Vec", "Vec::new()">>}, v = <<x>>
      PROVE  IsValueFrom(v, ty, i)
  <2>1. IsConstructor(x, ty, i) /\ x \notin Wraps
    BY <1>1, <1>6 DEF IsConstructor, Wraps
  <2> QED BY <2>1, <1>6, PlainValue
<1>7. \/ v \in DefaultValue
      \/ ty[i] \in DOMAIN Literals /\ v \in {<<x>> : x \in Literals[ty[i]]}
      \/ ty[i] = "ref" /\ i < Len(ty) /\ ty[i + 1] = "str" /\ v \in {<<"empty">>, <<"xyzzy">>}
      \/ ty[i] = "Result" /\ v \in Wrapped("Ok")
      \/ ty[i] = "Option" /\ (v = <<"None">> \/ v \in Wrapped("Some"))
      \/ ty[i] = "Vec" /\ (v = <<"Vec::new()">> \/ v \in Wrapped("Vec::from"))
  BY <1>1, Zenon DEF ValuesFrom
<1>8. /\ ty[i] = "Result" /\ v \in Wrapped("Ok") => IsValueFrom(v, ty, i)
      /\ ty[i] = "Option" /\ v \in Wrapped("Some") => IsValueFrom(v, ty, i)
      /\ ty[i] = "Vec" /\ v \in Wrapped("Vec::from") => IsValueFrom(v, ty, i)
  <2> HIDE DEF Wrapped
  <2> QED BY <1>5
<1>9. /\ ty[i] = "Option" /\ v = <<"None">> => IsValueFrom(v, ty, i)
      /\ ty[i] = "Vec" /\ v = <<"Vec::new()">> => IsValueFrom(v, ty, i)
  BY <1>6
<1> HIDE DEF DefaultValue, Wrapped
<1> QED BY <1>2, <1>3, <1>4, <1>7, <1>8, <1>9

\* What fn_return_default returns is of the type that the function returns.
LEMMA ReplacementsFit ==
  ASSUME NEW ty, ty \in Seq(Range(ty)), ty # <<>>, \A k \in DOMAIN ty : ty[k] = "str" => k = Len(ty), NEW v \in Replacements(ty)
  PROVE  IsValueOf(v, ty)
<1> DEFINE of == CHOOSE of : HoldsValues(of, ty)
           Wrong == {n \in 0..Len(ty) : \E w \in of[Len(ty) + 1 - n] : ~IsValueFrom(w, ty, Len(ty) + 1 - n)}
<1>1. Len(ty) \in Nat \ {0}
  OBVIOUS
<1>2. Replacements(ty) = of[1]
  BY Zenon DEF Replacements, HoldsValues, ValuesFrom
<1>3. HoldsValues(of, ty)
  BY <1>1, ValuesExist
<1> HIDE DEF of
<1>4. \A i \in 1..(Len(ty) + 1) : of[i] = ValuesFrom(ty, of, i)
  BY <1>3 DEF HoldsValues
<1>5. Wrong = {}
  <2> SUFFICES ASSUME Wrong # {} PROVE FALSE
    OBVIOUS
  <2>0. Wrong \in SUBSET Nat
    OBVIOUS
  <2> HIDE DEF Wrong
  <2>1. PICK n \in Wrong : \A m \in Wrong : n <= m
    BY <2>0, LeastNatural
  <2> DEFINE i == Len(ty) + 1 - n
  <2>2. n \in 0..Len(ty) /\ \E w \in of[i] : ~IsValueFrom(w, ty, i)
    BY <2>1 DEF Wrong
  <2>3. i \in 1..(Len(ty) + 1) /\ i \in Nat \ {0}
    BY <1>1, <2>2
  <2>4. ASSUME i <= Len(ty)
        PROVE  \A w \in of[i + 1] : IsValueFrom(w, ty, i + 1)
    <3>1. n - 1 \in 0..Len(ty) /\ Len(ty) + 1 - (n - 1) = i + 1 /\ ~(n <= n - 1)
      BY <1>1, <2>2, <2>4
    <3>2. n - 1 \notin Wrong
      BY <2>1, <3>1
    <3> QED BY <3>1, <3>2 DEF Wrong
  <2> HIDE DEF i
  <2>5. \A w \in ValuesFrom(ty, of, i) : IsValueFrom(w, ty, i)
    BY <2>3, <2>4, ValuesFromFit
  <2> QED BY <1>4, <2>2, <2>3, <2>5
<1>6. \A w \in of[1] : IsValueFrom(w, ty, 1)
  <2>1. Len(ty) \in 0..Len(ty) /\ Len(ty) + 1 - Len(ty) = 1 /\ Len(ty) \notin Wrong
    BY <1>1, <1>5
  <2> QED BY <2>1 DEF Wrong
<1>7. IsValueFrom(v, ty, 1)
  BY <1>2, <1>6
<1>8. ASSUME NEW j \in DOMAIN v
      PROVE  IsConstructor(v[j], ty, j) /\ (j = Len(v) <=> v[j] \notin Wraps)
  <2>1. 1 + j - 1 = j
    BY <1>7 DEF IsValueFrom
  <2> QED BY <1>7, <2>1 DEF IsValueFrom
<1> QED BY <1>8 DEF IsValueOf, IsConstructor, Wraps

\* What is taken of a set for the enumeration, once i elements are.
TakenOf(S, taken, i) == IF i = 0 THEN {} ELSE taken[i - 1] \cup {CHOOSE x \in S \ taken[i - 1] : TRUE}

HoldsTaken(taken, S, n) == taken = [i \in 0..n |-> TakenOf(S, taken, i)]

\* The elements can be taken as the recursion of Enumerated says.
LEMMA TakenExists ==
  ASSUME NEW S, NEW N \in Nat
  PROVE  \E taken : HoldsTaken(taken, S, N)
<1> DEFINE Missing == {n \in 0..N : ~\E f : HoldsTaken(f, S, n)}
<1>1. Missing \in SUBSET Nat
  OBVIOUS
<1>2. ASSUME Missing # {}
      PROVE  FALSE
  <2> HIDE DEF Missing
  <2>1. PICK n \in Missing : \A m \in Missing : n <= m
    BY <1>1, <1>2, LeastNatural
  <2>2. n \in 0..N
    BY <2>1 DEF Missing
  <2>3. n # 0
    <3> DEFINE f == [i \in 0..0 |-> {}]
    <3>1. f = [i \in 0..0 |-> TakenOf(S, f, i)]
      BY DEF TakenOf
    <3> HIDE DEF f
    <3>2. HoldsTaken(f, S, 0)
      BY <3>1 DEF HoldsTaken
    <3> QED BY <2>1, <3>2 DEF Missing
  <2>4. n - 1 \in 0..N /\ n - 1 \notin Missing
    <3>1. n - 1 \in 0..N /\ ~(n <= n - 1)
      BY <2>2, <2>3
    <3> QED BY <2>1, <3>1
  <2>5. PICK f : HoldsTaken(f, S, n - 1)
    BY <2>4 DEF Missing
  <2> DEFINE g == [i \in 0..n |-> TakenOf(S, f, i)]
  <2>6. f = [i \in 0..(n - 1) |-> TakenOf(S, f, i)]
    BY <2>5 DEF HoldsTaken
  <2>7. ASSUME NEW i \in 0..n
        PROVE  TakenOf(S, g, i) = TakenOf(S, f, i)
    <3>1. CASE i = 0
      BY <3>1 DEF TakenOf
    <3>2. CASE i # 0
      <4>1. i - 1 \in 0..(n - 1) /\ i - 1 \in 0..n
        BY <2>2, <3>2
      <4>2. f[i - 1] = TakenOf(S, f, i - 1) /\ g[i - 1] = TakenOf(S, f, i - 1)
        <5>1. g[i - 1] = TakenOf(S, f, i - 1)
          BY <4>1
        <5>2. [k \in 0..(n - 1) |-> TakenOf(S, f, k)][i - 1] = TakenOf(S, f, i - 1)
          BY <4>1
        <5> QED BY <2>6, <5>1, <5>2, Zenon
      <4> HIDE DEF g
      <4> QED BY <4>2 DEF TakenOf
    <3> QED BY <3>1, <3>2
  <2>8. HoldsTaken(g, S, n)
    <3>1. g = [i \in 0..n |-> TakenOf(S, g, i)]
      BY <2>7
    <3> QED BY <3>1 DEF HoldsTaken
  <2> QED BY <2>1, <2>8 DEF Missing
<1> QED BY <1>2

\* The enumeration of a finite set takes its elements: before each step fewer elements are taken than there are.
LEMMA EnumeratedWithin ==
  ASSUME NEW S, IsFiniteSet(S)
  PROVE  Range(Enumerated(S)) \subseteq S
<1> DEFINE N == Cardinality(S)
           taken == CHOOSE taken : HoldsTaken(taken, S, N)
<1>1. N \in Nat
  BY FS_CardinalityType
<1>2. Enumerated(S) = [i \in 1..N |-> CHOOSE x \in S \ taken[i - 1] : TRUE]
  BY Zenon DEF Enumerated, HoldsTaken, TakenOf
<1>3. HoldsTaken(taken, S, N)
  <2> HIDE DEF N
  <2> QED BY <1>1, TakenExists
<1> HIDE DEF taken
<1>4. \A i \in 0..N : taken[i] = TakenOf(S, taken, i)
  BY <1>3 DEF HoldsTaken
<1> DEFINE Few(k) == IsFiniteSet(taken[k]) /\ Cardinality(taken[k]) <= k
           Wrong == {k \in 0..N : ~Few(k)}
<1> HIDE DEF N
<1>5. Wrong = {}
  <2> SUFFICES ASSUME Wrong # {} PROVE FALSE
    OBVIOUS
  <2>0. Wrong \in SUBSET Nat
    BY <1>1
  <2> HIDE DEF Wrong
  <2>1. PICK k \in Wrong : \A m \in Wrong : k <= m
    BY <2>0, LeastNatural
  <2>2. k \in 0..N /\ ~Few(k)
    BY <2>1 DEF Wrong
  <2>3. k # 0
    <3>1. taken[0] = {}
      <4>1. 0 \in 0..N
        BY <1>1
      <4>2. taken[0] = TakenOf(S, taken, 0)
        BY <4>1, <1>4
      <4> QED BY <4>2 DEF TakenOf
    <3>2. Few(0)
      BY <3>1, FS_EmptySet
    <3> QED BY <2>2, <3>2
  <2>4. k - 1 \in 0..N /\ k - 1 \notin Wrong
    <3>1. k - 1 \in 0..N /\ ~(k <= k - 1)
      BY <1>1, <2>2, <2>3
    <3> QED BY <2>1, <3>1
  <2>5. Few(k - 1)
    BY <2>4 DEF Wrong
  <2>6. taken[k] = taken[k - 1] \cup {CHOOSE x \in S \ taken[k - 1] : TRUE}
    BY <1>4, <2>2, <2>3 DEF TakenOf
  <2>7. Few(k)
    <3> DEFINE T == taken[k - 1]
               y == CHOOSE x \in S \ taken[k - 1] : TRUE
    <3>1. taken[k] = T \cup {y} /\ IsFiniteSet(T) /\ Cardinality(T) <= k - 1
      BY <2>5, <2>6
    <3> HIDE DEF T, y
    <3>2. IsFiniteSet(T \cup {y}) /\ Cardinality(T \cup {y}) \in {Cardinality(T), Cardinality(T) + 1} /\ Cardinality(T) \in Nat
      BY <3>1, FS_AddElement, FS_CardinalityType
    <3>3. Cardinality(T \cup {y}) <= k
      BY <1>1, <2>2, <3>1, <3>2
    <3> QED BY <3>1, <3>2, <3>3
  <2> QED BY <2>2, <2>7
<1>6. ASSUME NEW i \in 1..N
      PROVE  Enumerated(S)[i] \in S
  <2>1. i - 1 \in 0..N /\ i - 1 < N
    BY <1>1
  <2>2. Few(i - 1)
    BY <1>5, <2>1
  <2>3. S \ taken[i - 1] # {}
    <3> SUFFICES ASSUME S \subseteq taken[i - 1] PROVE FALSE
      OBVIOUS
    <3>1. N <= Cardinality(taken[i - 1]) /\ Cardinality(taken[i - 1]) \in Nat
      BY <2>2, FS_Subset, FS_CardinalityType DEF N
    <3> QED BY <1>1, <2>1, <2>2, <3>1
  <2>4. Enumerated(S)[i] = CHOOSE x \in S \ taken[i - 1] : TRUE
    BY <1>2
  <2> QED BY <2>3, <2>4
<1>7. DOMAIN Enumerated(S) = 1..N
  BY <1>2
<1> QED BY <1>6, <1>7 DEF Range

\* What a proposal puts in a place compiles there, and does something.
Fits(p, code) == Compiles(p, code) /\ HasEffect(p, code)

\* define_op_swap_operator: the operands implement the operator put between them; an equality stays one, as a comparison does.
LEMMA OpSwapsFit ==
  ASSUME NEW p, ~(p.kind = "binary" /\ p.lets), NEW x \in OpSwaps(p)
  PROVE  Fits(p, x[2])
<1>1. p.kind = "binary" /\ \/ x \in {<<s[1], <<"binary", s[3]>>>> : s \in {s \in Swaps : s[2] = p.op /\ ImplsMatchingOp(p, s[3])}}
                           \/ x \in {<<s[1], <<"binary", s[3]>>>> : s \in {s \in PlainSwaps : s[2] = p.op}}
  BY DEF OpSwaps
<1>2. CASE x \in {<<s[1], <<"binary", s[3]>>>> : s \in {s \in Swaps : s[2] = p.op /\ ImplsMatchingOp(p, s[3])}}
  <2>1. PICK s \in Swaps : ImplsMatchingOp(p, s[3]) /\ x[2] = <<"binary", s[3]>>
    BY <1>2
  <2>2. s[3] \notin {"And", "Or", "Eq", "Ne", "Lt", "Le", "Gt", "Ge"}
    BY DEF Swaps, Both
  <2> QED BY <2>1, <2>2 DEF Fits, Compiles, HasEffect, ImplsMatchingOp
<1>3. CASE x \in {<<s[1], <<"binary", s[3]>>>> : s \in {s \in PlainSwaps : s[2] = p.op}}
  <2>1. PICK s \in PlainSwaps : s[2] = p.op /\ x[2] = <<"binary", s[3]>>
    BY <1>3
  <2>2. /\ s[3] \in {"And", "Or", "Eq", "Ne", "Lt", "Le", "Gt", "Ge"}
        /\ s[3] \in {"Eq", "Ne"} => s[2] \in {"Eq", "Ne"}
        /\ s[3] \in {"Lt", "Le", "Gt", "Ge"} => s[2] \in {"Lt", "Le", "Gt", "Ge"}
    BY DEF PlainSwaps, Both
  <2> QED BY <1>1, <2>1, <2>2 DEF Fits, Compiles, HasEffect
<1> QED BY <1>1, <1>2, <1>3

\* unary_op_delete, bool_expr_negate, range_limit_swap.
LEMMA SimpleOperatorsFit ==
  ASSUME NEW p, ~(p.kind = "binary" /\ p.lets), NEW x \in UnaryOpDelete(p) \cup BoolExprNegate(p) \cup RangeLimitSwap(p)
  PROVE  Fits(p, x[2])
<1>1. CASE x \in UnaryOpDelete(p)
  <2>1. p.operand = p.ty /\ x[2][1] = "operand"
    BY <1>1 DEF UnaryOpDelete
  <2> QED BY <2>1 DEF Fits, Compiles, HasEffect
<1>2. CASE x \in BoolExprNegate(p)
  <2>1. ~p.discarded /\ x[2][1] = IF p.kind = "call" THEN "notBound" ELSE "not"
    BY <1>2 DEF BoolExprNegate
  <2> QED BY <2>1 DEF Fits, Compiles, HasEffect
<1>3. CASE x \in RangeLimitSwap(p)
  <2>1. p.bound \in {<<"int">>, <<"uint">>} /\ x[2][1] = "end"
    BY <1>3 DEF RangeLimitSwap
  <2> QED BY <2>1 DEF Fits, Compiles, HasEffect
<1> QED BY <1>1, <1>2, <1>3

\* call_delete, call_value_default_shadow: the default fits the place, and what it stands for borrows from no temporary.
LEMMA CallOperatorsFit ==
  ASSUME NEW p, NEW refersBack, NEW localOnly, NEW x \in CallOperators(p, refersBack, localOnly)
  PROVE  Fits(p, x[2])
<1>1. x[2][1] \in {"default", "shadowedDefault"} /\ ~p.borrowed /\ DefaultFitsInPlace(p)
  BY DEF CallOperators, NonDefaultCall
<1>2. HasDefault(p.adjusted)
  BY <1>1, Zenon DEF DefaultFitsInPlace
<1>3. ~BorrowsATemporary(p)
  BY <1>1 DEF DefaultFitsInPlace, BorrowsATemporary, BorrowsStablePlace
<1> QED BY <1>1, <1>2, <1>3 DEF Fits, Compiles, HasEffect

\* continue_break_swap: a break gives the loop the unit type, where it had none before.
LEMMA JumpsFit ==
  ASSUME NEW p, CompiledPlace(p), NEW x \in ContinueBreakSwap(p)
  PROVE  Fits(p, x[2])
<1>1. /\ p.kind = "jump" /\ p.loop /\ p.word \in {"break", "continue"}
      /\ p.stands = "lastStatement" /\ p.adjusted = <<"unit">> => p.block = <<"unit">>
      /\ x[2][1] = IF p.word = "break" THEN "continue" ELSE "break"
      /\ p.word = "break" => ~p.moves
      /\ p.word = "continue" => IF p.target = <<"never">> THEN LoopMayBecomeUnit(p) ELSE p.target = <<"unit">>
  BY DEF ContinueBreakSwap, CompiledPlace
<1>2. CASE p.word = "break"
  BY <1>1, <1>2 DEF Fits, Compiles, HasEffect
<1>3. CASE p.word = "continue"
  <2>1. LoopMayBecomeUnit(p) => Asked(p) = <<"unit">>
    BY <1>1 DEF LoopMayBecomeUnit, Asked
  <2> QED BY <1>1, <1>3, <2>1 DEF Fits, Compiles, HasEffect
<1> QED BY <1>1, <1>2, <1>3

\* match_guard_value, struct_field_delete, arg_default_shadow.
LEMMA PartsFit ==
  ASSUME NEW p, NEW x \in MatchGuardValue(p) \cup StructFieldDelete(p) \cup ArgDefaultShadow(p)
  PROVE  Fits(p, x[2])
<1>1. CASE x \in MatchGuardValue(p)
  <2>1. \E i \in DOMAIN p.arms : p.arms[i].guard = "condition" /\ x[2][1] = "guard" /\ x[2][2] = i
    BY <1>1 DEF MatchGuardValue
  <2> QED BY <2>1 DEF Fits, Compiles, HasEffect
<1>2. CASE x \in StructFieldDelete(p)
  <2>1. \E i \in DOMAIN p.fields : /\ x[2][1] = "noField" /\ x[2][2] = i
                                   /\ p.fields[i].given = p.fields[i].inBase /\ p.fields[i].inBase \in CopyTypes
    BY <1>2 DEF StructFieldDelete
  <2> QED BY <2>1 DEF Fits, Compiles, HasEffect
<1>3. CASE x \in ArgDefaultShadow(p)
  <2>1. \E i \in DOMAIN p.names : /\ x[2][1] = "let" /\ x[2][2] = i
                                  /\ HasDefault(p.names[i].ty) /\ p.names[i].written \notin {"impl", "nameless"}
    BY <1>3 DEF ArgDefaultShadow
  <2> QED BY <2>1 DEF Fits, Compiles, HasEffect
<1> QED BY <1>1, <1>2, <1>3

\* fn_return_default.
LEMMA ReturnsFit ==
  ASSUME NEW p, CompiledPlace(p), NEW x \in FnReturnDefault(p)
  PROVE  Fits(p, x[2])
<1>1. p.kind = "fn" /\ x[2][1] = "return" /\ x[2][2] \in Replacements(p.ret)
  BY DEF FnReturnDefault
<1>2. /\ p.ret \in Seq(Range(p.ret)) /\ p.ret # <<>>
      /\ \A i \in DOMAIN p.ret : p.ret[i] = "str" => i = Len(p.ret)
  BY <1>1 DEF CompiledPlace
<1>3. IsValueOf(x[2][2], p.ret)
  BY <1>1, <1>2, ReplacementsFit
<1> QED BY <1>1, <1>3 DEF Fits, Compiles, HasEffect

\* There is a greatest in a set of numbers that has a bound, and Max gives it.
LEMMA MaxOfBounded ==
  ASSUME NEW n \in Nat, NEW S \in SUBSET (1..n), S # {}
  PROVE  Max(S) \in S /\ \A i \in S : i <= Max(S)
<1> DEFINE Gaps == {m \in 0..n : n - m \in S}
<1>1. Gaps \in SUBSET Nat /\ Gaps # {}
  <2>1. PICK i \in S : TRUE
    OBVIOUS
  <2>2. n - i \in 0..n /\ n - (n - i) = i
    BY <2>1
  <2>3. n - i \in Gaps
    BY <2>2
  <2>4. Gaps \in SUBSET Nat
    OBVIOUS
  <2> HIDE DEF Gaps
  <2> QED BY <2>3, <2>4
<1>2. \E m \in Gaps : \A k \in Gaps : m <= k
  <2> HIDE DEF Gaps
  <2> QED BY <1>1, LeastNatural
<1>3. PICK m \in Gaps : \A k \in Gaps : m <= k
  BY <1>2
<1>4. \E i \in S : \A k \in S : i >= k
  <2>1. n - m \in S /\ m \in 0..n
    BY <1>3
  <2>2. ASSUME NEW k \in S
        PROVE  n - m >= k
    <3>1. n - k \in Gaps
      <4>1. n - k \in 0..n /\ n - (n - k) = k
        OBVIOUS
      <4> QED BY <4>1
    <3>2. m <= n - k
      BY <1>3, <3>1
    <3> QED BY <2>1, <3>2
  <2> QED BY <2>1, <2>2
<1>5. Max(S) \in S /\ \A k \in S : Max(S) >= k
  BY <1>4, Zenon DEF Max
<1> QED BY <1>5

\* match_arm_delete: an arm without a guard, which covers every value, stays behind the deleted one.
LEMMA ArmsFit ==
  ASSUME NEW p, CompiledPlace(p), NEW x \in MatchArmDelete(p)
  PROVE  Fits(p, x[2])
<1> DEFINE catchAlls == {i \in DOMAIN p.arms : p.arms[i].guard = "none" /\ IsIrrefutable(p.arms[i])}
           last == Max(catchAlls)
<1>1. /\ p.kind = "match"
      /\ \E i \in DeletableArms(p.arms) : x[2][1] = "noArm" /\ x[2][2] = i
  BY DEF MatchArmDelete
<1>2. PICK i \in DeletableArms(p.arms) : x[2][1] = "noArm" /\ x[2][2] = i
  BY <1>1
<1>3. p.arms \in Seq(Range(p.arms)) /\ \A arm \in Range(p.arms) : IsIrrefutable(arm) => p.values \subseteq arm.covers
  BY <1>1 DEF CompiledPlace
<1>4. catchAlls # {} /\ i \in 1..(last - 1)
  <2>1. DeletableArms(p.arms) = IF catchAlls = {} THEN {} ELSE 1..(last - 1)
    BY Zenon DEF DeletableArms
  <2> HIDE DEF catchAlls, last
  <2> QED BY <1>2, <2>1
<1>5. Len(p.arms) \in Nat /\ DOMAIN p.arms = 1..Len(p.arms)
  BY <1>3
<1>6. last \in catchAlls /\ last \in Nat
  <2>1. catchAlls \in SUBSET (1..Len(p.arms))
    BY <1>5
  <2> HIDE DEF catchAlls
  <2>2. last \in catchAlls
    BY <1>4, <1>5, <2>1, MaxOfBounded
  <2> HIDE DEF last
  <2> QED BY <2>1, <2>2
<1> HIDE DEF last
<1>7. last \in DOMAIN p.arms \ {i} /\ p.arms[last].guard = "none" /\ IsIrrefutable(p.arms[last])
  BY <1>4, <1>6
<1>8. p.values \subseteq p.arms[last].covers
  BY <1>3, <1>7 DEF Range
<1>9. Uncovered(p, DOMAIN p.arms \ {i}) = {}
  BY <1>7, <1>8 DEF Uncovered
<1> QED BY <1>2, <1>9 DEF Fits, Compiles, HasEffect

\* Whatever an operator proposes for a place of a program that compiles, outside of let chains.
LEMMA ProposalsFit ==
  ASSUME NEW p, CompiledPlace(p), ~(p.kind = "binary" /\ p.lets), NEW refersBack, NEW localOnly,
         NEW x \in Proposals(p, refersBack, localOnly)
  PROVE  Fits(p, x[2])
BY OpSwapsFit, SimpleOperatorsFit, CallOperatorsFit, JumpsFit, ArmsFit, PartsFit, ReturnsFit DEF Proposals

\* visit_expr and the functions around it offer no place where a match expression cannot stand.
LEMMA OfferedStands ==
  ASSUME NEW site, Offered(site)
  PROVE  /\ Range(site.path) \cap NoMatchWithin = {}
         /\ site.node \notin NoPlaceForMatch /\ site.node # "let chain operator"
BY Zenon DEF Offered, Closed, Transparent, NoMatchWithin, NoPlaceForMatch

\* What is proposed at a site is proposed for its place.
LEMMA ProposedAt ==
  ASSUME program \in Programs, NEW f \in program.mutable, NEW i \in DOMAIN program.sites[f]
  PROVE  /\ program.sites[f][i].place \in DOMAIN Places
         /\ \E refersBack, localOnly \in BOOLEAN :
              Range(Proposed(f, program.sites[f][i])) \subseteq Proposals(Places[program.sites[f][i].place], refersBack, localOnly)
<1> DEFINE place == program.sites[f][i].place
           back == RefersBack(f, Places[place])
<1>1. place \in DOMAIN Places /\ back \in BOOLEAN /\ program.localOnly \in BOOLEAN
  BY PlacesAssumption DEF RefersBack
<1>2. Proposed(f, program.sites[f][i]) = Enumerated(Proposals(Places[place], back, program.localOnly))
  <2> DEFINE table == ProposalsAt[place]
  <2>1. Proposed(f, program.sites[f][i]) = table[back][program.localOnly]
    BY DEF Proposed
  <2>2. table = [refersBack \in BOOLEAN |-> [localOnly \in BOOLEAN |->
                    Enumerated(Proposals(Places[place], refersBack, localOnly))]]
    BY <1>1, Zenon DEF ProposalsAt
  <2> HIDE DEF table, back, place
  <2>3. table[back] = [localOnly \in BOOLEAN |-> Enumerated(Proposals(Places[place], back, localOnly))]
    BY ONLY <1>1, <2>2, Zenon
  <2>4. table[back][program.localOnly] = Enumerated(Proposals(Places[place], back, program.localOnly))
    BY ONLY <1>1, <2>3, Zenon
  <2> QED BY ONLY <2>1, <2>4
<1> HIDE DEF back
<1>3. IsFiniteSet(Proposals(Places[place], back, program.localOnly))
  BY <1>1, PlacesAssumption
<1>4. Range(Proposed(f, program.sites[f][i])) \subseteq Proposals(Places[place], back, program.localOnly)
  BY <1>2, <1>3, EnumeratedWithin
<1> QED BY <1>1, <1>4

\* Whatever the program, each mutation that is made stands where a match can stand, compiles together with all the others,
\* and changes what the program does (MutationCollector, and the operators of mutest-operators/src).
THEOREM AllCompile == Spec => []MutantsCompile
<1>1. ASSUME program \in Programs
      PROVE  MutantsCompile
  <2>1. ASSUME NEW f \in program.mutable, NEW i \in DOMAIN program.sites[f], Offered(program.sites[f][i]),
               NEW x \in Range(Proposed(f, program.sites[f][i]))
        PROVE  Fits(Places[program.sites[f][i].place], x[2])
    <3> DEFINE p == Places[program.sites[f][i].place]
    <3>1. PICK refersBack, localOnly \in BOOLEAN : x \in Proposals(p, refersBack, localOnly)
      BY <1>1, <2>1, ProposedAt
    <3>2. program.sites[f][i].place \in DOMAIN Places
      BY <1>1, ProposedAt
    <3>3. CompiledPlace(p) /\ ~(p.kind = "binary" /\ p.lets)
      <4>1. CompiledPlace(p)
        BY <3>2, CompiledAssumption
      <4>2. p.kind = "binary" /\ p.lets => program.sites[f][i].node = "let chain operator"
        BY <1>1, CompiledAssumption, Zenon
      <4>3. program.sites[f][i].node # "let chain operator"
        BY <2>1, OfferedStands, Zenon
      <4> QED BY <4>1, <4>2, <4>3, Zenon
    <3> HIDE DEF p
    <3>4. Fits(p, x[2])
      BY <3>1, <3>3, ProposalsFit
    <3> QED BY <3>4 DEF p
  <2>2. ASSUME NEW f \in program.mutable, NEW i \in DOMAIN program.sites[f], Offered(program.sites[f][i])
        PROVE  Range(program.sites[f][i].path) \cap NoMatchWithin = {} /\ program.sites[f][i].node \notin NoPlaceForMatch
    BY <2>2, OfferedStands, Zenon
  <2> QED BY <2>1, <2>2, Zenon DEF MutantsCompile, Fits
<1>2. IInv => program \in Programs
  BY DEF IInv, GraphInv
<1>3. IInv => MutantsCompile
  BY <1>1, <1>2
<1> QED BY <1>3, Invariant, PTL
=============================================================================
