------------------------- MODULE TestIsolationProofs -------------------------
(***************************************************************************)
(* How one test runs, and what becomes of it when it does not end: on a    *)
(* thread of the harness (TestThreads) or in a process of its own          *)
(* (IsolatedProcess).                                                      *)
(*                                                                         *)
(* For any number of tests, mutants and slots: the count of abandoned      *)
(* threads is exact, and no test runs the code of another mutant.          *)
(*                                                                         *)
(* Whatever results a test may have, and wherever the monitor, the owner   *)
(* or the test is stopped: IsolatedProcess keeps OwnedProcess, and a       *)
(* completion is not lost to a cancellation that raced it.                 *)
(***************************************************************************)
EXTENDS TestThreads, IsolatedProcess, FiniteSetTheorems, TLAPS

-----------------------------------------------------------------------------
(* TestThreads *)

Unended(t) == pc[t] # "ended"

\* Who clears the signal of a test first, and what the other side then does.
SignalInv ==
    \A t \in Tests :
        /\ watch[t] = "queued" <=> pc[t] = "queued"
        /\ watch[t] \in {"running", "counting"} => (signal[t] <=> Unended(t))
        /\ watch[t] \in {"uncounting", "joined"} => pc[t] = "ended" /\ ~signal[t]
        /\ watch[t] = "lingering" => ~signal[t]
        /\ pc[t] = "uncount" => watch[t] = "lingering"

\* The handle holds mutants under evaluation only, each in its slot, and no two of them conflict.
HandleInv ==
    /\ \A s \in Slots : handle[s] # NoMutant => handle[s] \in active /\ SlotOf[handle[s]] = s
    /\ \A m, n \in active : m # n => ~Conflict(m, n)
    /\ \A t \in Tests :
          /\ watch[t] \in {"running", "counting"} => MutantOf[t] \in active
          /\ MutantOf[t] \in active => handle[SlotOf[MutantOf[t]]] = MutantOf[t]

Own(t) == {MutantOf[t], NoMutant}

\* Only a thread that is given up can have read the mutant of another, and never gets past the checks with it.
RegInv ==
    \A t \in Tests :
        /\ entered[t] \in Own(t)
        /\ pc[t] \in {"queued", "waiting", "code"} => reg[t] = NoMutant
        /\ pc[t] \in {"active", "goes_on", "apply"} => reg[t] \in Own(t)
        /\ pc[t] \in {"count", "signal", "body_count", "body_signal"} /\ reg[t] \notin Own(t)
              => watch[t] = "lingering"

ThreadsInv == ThreadsTypeOK /\ SignalInv /\ CountIsExact /\ HandleInv /\ RegInv

-----------------------------------------------------------------------------
LEMMA CountedFinite == IsFiniteSet(Counted) /\ Cardinality(Counted) \in Nat
BY TestThreadsAssumption, FS_Subset, FS_CardinalityType DEF Counted

\* While a given-up thread is not done, the count that every thread reads first is not zero.
LEMMA CountSeesLingering ==
  ASSUME CountIsExact, NEW t \in Tests, t \in Counted
  PROVE  abandoned # 0
BY CountedFinite, FS_EmptySet DEF CountIsExact

LEMMA ThreadsInvInit == ThreadsInit => ThreadsInv
<1> SUFFICES ASSUME ThreadsInit PROVE ThreadsInv
  OBVIOUS
<1> USE TestThreadsAssumption
<1>1. ThreadsTypeOK
  BY DEF ThreadsInit, ThreadsTypeOK, Watch, Pcs, Points, Nowhere
<1>2. SignalInv
  BY DEF ThreadsInit, SignalInv, Unended
<1>3. CountIsExact
  <2>1. Counted = {}
    BY DEF ThreadsInit, Counted
  <2> QED BY <2>1, FS_EmptySet DEF ThreadsInit, CountIsExact
<1>4. HandleInv /\ RegInv
  BY DEF ThreadsInit, HandleInv, RegInv, Own
<1> QED BY <1>1, <1>2, <1>3, <1>4 DEF ThreadsInv

-----------------------------------------------------------------------------
(* The count. *)

\* A step that neither counts nor uncounts keeps the tests that the count stands for.
LEMMA CountKept ==
  ASSUME CountIsExact, abandoned' = abandoned, Counted' = Counted
  PROVE  CountIsExact'
BY DEF CountIsExact

LEMMA CountRises ==
  ASSUME CountIsExact, NEW t \in Tests, t \notin Counted,
         abandoned' = abandoned + 1, Counted' = Counted \cup {t}
  PROVE  CountIsExact'
BY CountedFinite, FS_AddElement DEF CountIsExact

LEMMA CountFalls ==
  ASSUME CountIsExact, NEW t \in Tests, t \in Counted,
         abandoned' = abandoned - 1, Counted' = Counted \ {t}
  PROVE  CountIsExact' /\ abandoned' \in Nat
<1>1. Cardinality(Counted) # 0
  BY CountedFinite, FS_EmptySet
<1>2. Cardinality(Counted \ {t}) = Cardinality(Counted) - 1
  BY CountedFinite, FS_RemoveElement
<1> QED BY <1>1, <1>2, CountedFinite DEF CountIsExact

LEMMA RunnerKeepsCount ==
  ASSUME ThreadsTypeOK, SignalInv, CountIsExact, NEW t \in Tests, RunnerStep(t)
  PROVE  CountIsExact' /\ abandoned' \in Nat
<1> USE DEF ThreadsTypeOK, SignalInv, Unended, Counted
<1>1. CASE Start(t)
  <2>1. Counted' = Counted
    BY <1>1 DEF Start
  <2> QED BY <1>1, <2>1, CountKept DEF Start
<1>2. CASE Join(t)
  <2>1. Counted' = Counted
    BY <1>2 DEF Join, threadVars
  <2> QED BY <1>2, <2>1, CountKept DEF Join
<1>3. CASE AbandonCount(t)
  <2>1. t \notin Counted /\ Counted' = Counted \cup {t}
    BY <1>3 DEF AbandonCount, threadVars
  <2> QED BY <1>3, <2>1, CountRises DEF AbandonCount
<1>4. CASE AbandonSwap(t)
  <2>1. Counted' = Counted
    BY <1>4 DEF AbandonSwap, threadVars
  <2> QED BY <1>4, <2>1, CountKept DEF AbandonSwap
<1>5. CASE AbandonUncount(t)
  <2>1. t \in Counted /\ Counted' = Counted \ {t}
    BY <1>5 DEF AbandonUncount, threadVars
  <2> QED BY <1>5, <2>1, CountFalls DEF AbandonUncount
<1> QED BY <1>1, <1>2, <1>3, <1>4, <1>5 DEF RunnerStep

\* The steps of a thread between its start and its end touch neither side of the count.
ThreadInside(t) ==
    \/ Begin(t) \/ SubstCount(t) \/ SubstSignal(t) \/ LoopPoint(t)
    \/ ActiveCount(t) \/ GoesOn(t) \/ Apply(t)
    \/ BodyCount(t) \/ BodySignal(t) \/ LeaveBody(t) \/ Panic(t) \/ Return(t)
    \/ \E s \in Slots : ReadSlot(t, s)
    \/ \E k \in Mutants : BodyPoint(t, k)

LEMMA InsideShape ==
  ASSUME ThreadsTypeOK, NEW t \in Tests, ThreadInside(t)
  PROVE  /\ UNCHANGED <<active, handle, signal, abandoned, watch>>
         /\ pc[t] \notin {"queued", "drop", "uncount", "ended"}
         /\ pc'[t] \notin {"queued", "uncount", "ended"}
         /\ pc'[t] \in Pcs
         /\ pc' = [pc EXCEPT ![t] = pc'[t]]
<1> USE DEF ThreadsTypeOK, runnerVars, Goto, Pcs
<1>1. CASE Begin(t) \/ SubstCount(t) \/ SubstSignal(t) \/ LoopPoint(t) \/ ActiveCount(t) \/ Apply(t)
  BY <1>1 DEF Begin, SubstCount, SubstSignal, LoopPoint, ActiveCount, Apply
<1>2. CASE GoesOn(t) \/ BodySignal(t)
  BY <1>2 DEF GoesOn, BodySignal, Cancel
<1>3. CASE BodyCount(t) \/ LeaveBody(t) \/ Panic(t) \/ Return(t)
  BY <1>3 DEF BodyCount, LeaveBody, Panic, Return
<1>4. CASE \E s \in Slots : ReadSlot(t, s)
  BY <1>4 DEF ReadSlot
<1>5. CASE \E k \in Mutants : BodyPoint(t, k)
  BY <1>5 DEF BodyPoint
<1> QED BY <1>1, <1>2, <1>3, <1>4, <1>5 DEF ThreadInside

LEMMA ThreadKeepsCount ==
  ASSUME ThreadsTypeOK, SignalInv, CountIsExact, NEW t \in Tests, ThreadStep(t)
  PROVE  CountIsExact' /\ abandoned' \in Nat
<1>1. CASE ThreadInside(t)
  <2>1. Counted' = Counted
    BY <1>1, InsideShape DEF Counted, ThreadsTypeOK
  <2> QED BY <1>1, <2>1, InsideShape, CountKept DEF ThreadsTypeOK
<1>2. CASE DropSignal(t)
  <2>1. Counted' = Counted
    BY <1>2 DEF DropSignal, Goto, runnerVars, Counted, ThreadsTypeOK, SignalInv, Unended
  <2> QED BY <1>2, <2>1, CountKept DEF DropSignal, ThreadsTypeOK
<1>3. CASE DropUncount(t)
  <2>1. t \in Counted /\ Counted' = Counted \ {t}
    BY <1>3 DEF DropUncount, Goto, runnerVars, Counted, ThreadsTypeOK, SignalInv
  <2> QED BY <1>3, <2>1, CountFalls DEF DropUncount
<1> QED BY <1>1, <1>2, <1>3 DEF ThreadStep, ThreadInside

-----------------------------------------------------------------------------
(* Types, and who clears the signal first. *)

LEMMA NowhereIsPoint == \A t \in Tests : Nowhere(t) \in Points
BY TestThreadsAssumption DEF Nowhere, Points

LEMMA TypeKept ==
  ASSUME ThreadsTypeOK, SignalInv, CountIsExact, ThreadsNext
  PROVE  ThreadsTypeOK'
<1> USE TestThreadsAssumption DEF ThreadsTypeOK, runnerVars, threadVars, Watch, Pcs
<1>1. ASSUME NEW m \in Mutants, Activate(m) \/ Retire(m) PROVE ThreadsTypeOK'
  BY <1>1 DEF Activate, Retire
<1>2. ASSUME NEW t \in Tests, RunnerStep(t) PROVE ThreadsTypeOK'
  <2>1. abandoned' \in Nat
    BY <1>2, RunnerKeepsCount
  <2> QED BY <1>2, <2>1 DEF RunnerStep, Start, Join, AbandonCount, AbandonSwap, AbandonUncount
<1>3. ASSUME NEW t \in Tests, ThreadStep(t) PROVE ThreadsTypeOK'
  <2>0. abandoned' \in Nat
    BY <1>3, ThreadKeepsCount
  <2>. USE DEF Goto, LeavePoint
  <2>1. CASE Begin(t) \/ SubstCount(t) \/ SubstSignal(t) \/ LoopPoint(t) \/ ActiveCount(t)
    BY <2>1 DEF Begin, SubstCount, SubstSignal, LoopPoint, ActiveCount
  <2>2. CASE GoesOn(t) \/ Apply(t)
    <3>1. CASE GoesOn(t)
      <4>1. CASE TestThreadGoesOn(t)
        BY <3>1, <4>1 DEF GoesOn
      <4>2. CASE ~TestThreadGoesOn(t)
        <5>1. Cancel(t) /\ UNCHANGED <<active, handle, watch, signal, abandoned, entered>>
          BY <3>1, <4>2 DEF GoesOn
        <5> QED BY <5>1, NowhereIsPoint DEF Cancel
      <4> QED BY <4>1, <4>2
    <3>2. CASE Apply(t)
      BY <3>2, NowhereIsPoint DEF Apply
    <3> QED BY <2>2, <3>1, <3>2
  <2>3. CASE BodyCount(t) \/ LeaveBody(t) \/ Panic(t) \/ Return(t)
    BY <2>3 DEF BodyCount, LeaveBody, Panic, Return
  <2>4. CASE BodySignal(t)
    <3>1. at[t].mutant \in Mutants
      BY DEF Points
    <3>2. CASE ~signal[t] /\ ~unwinding[t] /\ Cancel(t)
      BY <2>4, <3>2, NowhereIsPoint DEF BodySignal, Cancel
    <3>3. CASE ~(~signal[t] /\ ~unwinding[t] /\ Cancel(t))
      BY <2>4, <3>1, <3>3 DEF BodySignal, Runs
    <3> QED BY <3>2, <3>3
  <2>5. CASE DropSignal(t) \/ DropUncount(t)
    BY <2>0, <2>5 DEF DropSignal, DropUncount
  <2>6. CASE \E s \in Slots : ReadSlot(t, s)
    BY <2>6 DEF ReadSlot, Points
  <2>7. CASE \E k \in Mutants : BodyPoint(t, k)
    BY <2>7 DEF BodyPoint, Runs, Points
  <2> QED BY <1>3, <2>1, <2>2, <2>3, <2>4, <2>5, <2>6, <2>7 DEF ThreadStep
<1> QED BY <1>1, <1>2, <1>3 DEF ThreadsNext

LEMMA SignalKept ==
  ASSUME ThreadsTypeOK, SignalInv, ThreadsNext
  PROVE  SignalInv'
<1> USE DEF ThreadsTypeOK, SignalInv, Unended, runnerVars, threadVars, Watch
<1>1. ASSUME NEW m \in Mutants, Activate(m) \/ Retire(m) PROVE SignalInv'
  BY <1>1 DEF Activate, Retire
<1>2. ASSUME NEW t \in Tests, RunnerStep(t) PROVE SignalInv'
  <2>1. CASE Start(t)
    BY <2>1 DEF Start
  <2>2. CASE Join(t)
    BY <2>2 DEF Join
  <2>3. CASE AbandonCount(t)
    BY <2>3 DEF AbandonCount
  <2>4. CASE AbandonSwap(t)
    BY <2>4 DEF AbandonSwap
  <2>5. CASE AbandonUncount(t)
    BY <2>5 DEF AbandonUncount
  <2> QED BY <1>2, <2>1, <2>2, <2>3, <2>4, <2>5 DEF RunnerStep
<1>3. ASSUME NEW t \in Tests, ThreadStep(t) PROVE SignalInv'
  <2>1. CASE ThreadInside(t)
    BY <2>1, InsideShape
  <2>2. CASE DropSignal(t)
    BY <2>2 DEF DropSignal, Goto
  <2>3. CASE DropUncount(t)
    BY <2>3 DEF DropUncount, Goto
  <2> QED BY <1>3, <2>1, <2>2, <2>3 DEF ThreadStep, ThreadInside
<1> QED BY <1>1, <1>2, <1>3 DEF ThreadsNext

-----------------------------------------------------------------------------
(* The handle, and what a thread takes from it. *)

\* A test reaches the slot of its mutant, so a mutant in any slot it reaches conflicts with its own.
LEMMA OwnConflicts ==
  ASSUME NEW t \in Tests, NEW m \in Mutants, SlotOf[m] \in Reaches[t]
  PROVE  Conflict(MutantOf[t], m) /\ Conflict(m, MutantOf[t])
BY TestThreadsAssumption DEF Conflict

\* Until the run gives the test up, the slots it reaches hold its own mutant or none.
LEMMA LiveReadsOwn ==
  ASSUME ThreadsTypeOK, HandleInv, NEW t \in Tests, watch[t] \in {"running", "counting"},
         NEW s \in Slots, s \in Reaches[t]
  PROVE  handle[s] \in Own(t)
BY OwnConflicts, TestThreadsAssumption DEF ThreadsTypeOK, HandleInv, Own

LEMMA HandleKept ==
  ASSUME ThreadsTypeOK, SignalInv, HandleInv, ThreadsNext
  PROVE  HandleInv'
<1> USE TestThreadsAssumption DEF ThreadsTypeOK, HandleInv, runnerVars, threadVars
<1>1. ASSUME NEW m \in Mutants, Activate(m) PROVE HandleInv'
  <2>1. \A k, n \in active' : k # n => ~Conflict(k, n)
    BY <1>1 DEF Activate, RunsAlongside, Conflict
  <2>2. \A s \in Slots : handle'[s] # NoMutant => handle'[s] \in active' /\ SlotOf[handle'[s]] = s
    BY <1>1 DEF Activate
  <2>3. ASSUME NEW t \in Tests, MutantOf[t] \in active', MutantOf[t] # m
        PROVE  handle'[SlotOf[MutantOf[t]]] = MutantOf[t]
    <3>1. MutantOf[t] \in active /\ handle[SlotOf[MutantOf[t]]] = MutantOf[t]
      BY <1>1, <2>3 DEF Activate
    <3>2. SlotOf[m] # SlotOf[MutantOf[t]]
      BY <1>1, <3>1, OwnConflicts DEF Activate, RunsAlongside
    <3> QED BY <1>1, <3>1, <3>2 DEF Activate
  <2>4. \A t \in Tests : MutantOf[t] = m => handle'[SlotOf[MutantOf[t]]] = m
    BY <1>1 DEF Activate
  <2>5. \A t \in Tests : MutantOf[t] \in active' => handle'[SlotOf[MutantOf[t]]] = MutantOf[t]
    BY <2>3, <2>4
  <2>6. \A t \in Tests : watch'[t] \in {"running", "counting"} => MutantOf[t] \in active'
    BY <1>1 DEF Activate
  <2> QED BY <2>1, <2>2, <2>5, <2>6 DEF Conflict
<1>2. ASSUME NEW m \in Mutants, Retire(m) PROVE HandleInv'
  <2>1. ASSUME NEW t \in Tests, MutantOf[t] \in active'
        PROVE  handle'[SlotOf[MutantOf[t]]] = MutantOf[t]
    <3>1. /\ MutantOf[t] \in active /\ MutantOf[t] # m
          /\ handle[SlotOf[MutantOf[t]]] = MutantOf[t]
      BY <1>2, <2>1 DEF Retire
    <3>2. SlotOf[m] # SlotOf[MutantOf[t]]
      BY <1>2, <3>1, OwnConflicts DEF Retire
    <3> QED BY <1>2, <3>1, <3>2 DEF Retire
  <2>2. \A t \in Tests : watch'[t] \in {"running", "counting"} => MutantOf[t] \in active'
    BY <1>2 DEF Retire, RunEnded, TestsOf
  <2>3. \A s \in Slots : handle'[s] # NoMutant => handle'[s] \in active' /\ SlotOf[handle'[s]] = s
    BY <1>2 DEF Retire
  <2> QED BY <1>2, <2>1, <2>2, <2>3 DEF Retire, Conflict
<1>3. ASSUME NEW t \in Tests, RunnerStep(t) PROVE HandleInv'
  BY <1>3 DEF RunnerStep, Start, Join, AbandonCount, AbandonSwap, AbandonUncount, Conflict
<1>4. ASSUME NEW t \in Tests, ThreadStep(t) PROVE HandleInv'
  <2>1. UNCHANGED <<active, handle, watch>>
    <3>1. CASE ThreadInside(t)
      BY <3>1, InsideShape
    <3> QED BY <1>4, <3>1 DEF ThreadStep, ThreadInside, DropSignal, DropUncount
  <2> QED BY <2>1 DEF Conflict
<1> QED BY <1>1, <1>2, <1>3, <1>4 DEF ThreadsNext

LEMMA RegKept ==
  ASSUME ThreadsInv, ThreadsNext
  PROVE  RegInv'
<1> USE TestThreadsAssumption DEF ThreadsInv, ThreadsTypeOK, RegInv, Own, runnerVars, threadVars
<1>1. ASSUME NEW m \in Mutants, Activate(m) \/ Retire(m) PROVE RegInv'
  BY <1>1 DEF Activate, Retire
<1>2. ASSUME NEW t \in Tests, RunnerStep(t) PROVE RegInv'
  BY <1>2 DEF RunnerStep, Start, Join, AbandonCount, AbandonSwap, AbandonUncount, SignalInv
<1>3. ASSUME NEW t \in Tests, ThreadStep(t) PROVE RegInv'
  <2> USE DEF Goto, LeavePoint
  \* A thread inside its test is running, about to be given up, or given up.
  <2>1. ASSUME pc[t] \notin {"queued", "ended"}
        PROVE  watch[t] \in {"running", "counting", "lingering"}
    BY <2>1 DEF SignalInv, Watch
  \* The first check: a thread that lingers finds the count above zero.
  <2>2. ASSUME watch[t] = "lingering", pc[t] # "ended" PROVE abandoned # 0
    <3>1. t \in Counted
      BY <2>2 DEF Counted
    <3> QED BY <3>1, CountSeesLingering
  <2>3. CASE Begin(t) \/ LoopPoint(t) \/ ActiveCount(t)
    BY <2>3 DEF Begin, LoopPoint, ActiveCount
  <2>4. CASE SubstCount(t)
    BY <2>2, <2>4 DEF SubstCount
  <2>5. CASE SubstSignal(t)
    BY <2>5 DEF SubstSignal, SignalInv
  <2>6. CASE GoesOn(t)
    BY <2>6 DEF GoesOn, Cancel
  <2>7. CASE Apply(t)
    BY <2>7 DEF Apply
  <2>8. CASE BodyCount(t)
    BY <2>2, <2>8 DEF BodyCount
  <2>9. CASE BodySignal(t)
    BY <2>9 DEF BodySignal, Cancel, Runs, SignalInv
  <2>10. CASE LeaveBody(t) \/ Panic(t) \/ Return(t)
    BY <2>10 DEF LeaveBody, Panic, Return
  <2>11. CASE DropSignal(t) \/ DropUncount(t)
    BY <2>11 DEF DropSignal, DropUncount
  <2>12. ASSUME NEW s \in Slots, ReadSlot(t, s) PROVE RegInv'
    <3>1. handle[s] \notin Own(t) => watch[t] = "lingering"
      BY <2>1, <2>12, LiveReadsOwn DEF ReadSlot
    <3> QED BY <2>12, <3>1 DEF ReadSlot
  <2>13. ASSUME NEW k \in Mutants, BodyPoint(t, k) PROVE RegInv'
    <3>1. entered[t] = MutantOf[t] /\ SlotOf[k] \in Reaches[t]
      BY <2>13 DEF BodyPoint
    <3>2. handle[SlotOf[k]] = k /\ k # MutantOf[t] => watch[t] = "lingering"
      BY <2>1, <2>13, <3>1, LiveReadsOwn DEF BodyPoint
    <3> QED BY <2>13, <3>1, <3>2 DEF BodyPoint, Runs
  <2> QED BY <1>3, <2>3, <2>4, <2>5, <2>6, <2>7, <2>8, <2>9, <2>10, <2>11, <2>12, <2>13 DEF ThreadStep
<1> QED BY <1>1, <1>2, <1>3 DEF ThreadsNext

-----------------------------------------------------------------------------
LEMMA ThreadsInvNext == ThreadsInv /\ [ThreadsNext]_testVars => ThreadsInv'
<1> SUFFICES ASSUME ThreadsInv, [ThreadsNext]_testVars PROVE ThreadsInv'
  OBVIOUS
<1>1. CASE ThreadsNext
  <2>1. CountIsExact'
    <3>1. ASSUME NEW m \in Mutants, Activate(m) \/ Retire(m) PROVE CountIsExact'
      <4>1. Counted' = Counted /\ abandoned' = abandoned
        BY <3>1 DEF Activate, Retire, threadVars, Counted
      <4> QED BY <4>1, CountKept DEF ThreadsInv
    <3> QED BY <1>1, <3>1, RunnerKeepsCount, ThreadKeepsCount DEF ThreadsNext, ThreadsInv
  <2> QED BY <1>1, <2>1, TypeKept, SignalKept, HandleKept, RegKept DEF ThreadsInv
<1>2. CASE UNCHANGED testVars
  <2>1. Counted' = Counted
    BY <1>2 DEF testVars, threadVars, Counted
  <2> QED BY <1>2, <2>1 DEF testVars, threadVars, ThreadsInv, ThreadsTypeOK, SignalInv, Unended, CountIsExact, HandleInv, Conflict, RegInv, Own
<1> QED BY <1>1, <1>2

LEMMA ThreadsInvHolds == ThreadsSpec => []ThreadsInv
BY ThreadsInvInit, ThreadsInvNext, PTL DEF ThreadsSpec

\* Every state is well-typed: in particular the count never falls below zero, where a usize would wrap.
THEOREM ThreadsTypeCorrect == ThreadsSpec => []ThreadsTypeOK
<1>1. ThreadsInv => ThreadsTypeOK
  BY DEF ThreadsInv
<1> QED BY <1>1, ThreadsInvHolds, PTL

\* The count of abandoned threads is exact in every state, for any number of tests and runners
\* (abandon_signal and TestThreadSignal::drop, in any interleaving of their two steps).
THEOREM CountExact == ThreadsSpec => []CountIsExact
<1>1. ThreadsInv => CountIsExact
  BY DEF ThreadsInv
<1> QED BY <1>1, ThreadsInvHolds, PTL

\* No test ever runs the code of a mutant it does not evaluate, even after the run gave it up and
\* set the handle for others.
THEOREM NoForeign == ThreadsSpec => []NoForeignCode
<1>1. ThreadsInv => NoForeignCode
  BY DEF ThreadsInv, RegInv, Own, NoForeignCode
<1> QED BY <1>1, ThreadsInvHolds, PTL

-----------------------------------------------------------------------------
(* A test whose verdict counts never misses its mutant. *)

AtOwn(t) ==
    /\ at[t].slot = SlotOf[MutantOf[t]]
    /\ at[t].kind = "subst" \/ (at[t].kind = "body" /\ at[t].mutant = MutantOf[t])

LiveInv ==
    \A t \in Tests :
        /\ pc[t] \in {"queued", "waiting", "code"} => at[t].kind = "loop"
        /\ /\ pc[t] \in {"count", "signal", "active", "goes_on", "body_count", "body_signal", "apply"}
           /\ watch[t] \in {"running", "counting"}
           /\ AtOwn(t)
           => reg[t] = MutantOf[t]

LEMMA LiveKept ==
  ASSUME ThreadsInv, LiveInv, ThreadsNext
  PROVE  LiveInv'
<1> USE TestThreadsAssumption DEF ThreadsInv, ThreadsTypeOK, LiveInv, AtOwn, runnerVars, threadVars
<1>1. ASSUME NEW m \in Mutants, Activate(m) \/ Retire(m) PROVE LiveInv'
  BY <1>1 DEF Activate, Retire
<1>2. ASSUME NEW t \in Tests, RunnerStep(t) PROVE LiveInv'
  BY <1>2 DEF RunnerStep, Start, Join, AbandonCount, AbandonSwap, AbandonUncount, SignalInv
<1>3. ASSUME NEW t \in Tests, ThreadStep(t) PROVE LiveInv'
  <2> USE DEF Goto, LeavePoint, Nowhere
  \* A thread that passes a point is in code again, at no point; one that is not given up has its signal.
  <2>1. watch[t] \in {"running", "counting"} /\ pc[t] # "ended" => signal[t]
    BY DEF SignalInv, Unended
  <2>2. CASE Begin(t) \/ LoopPoint(t) \/ ActiveCount(t) \/ SubstCount(t) \/ BodyCount(t)
    BY <2>2 DEF Begin, LoopPoint, ActiveCount, SubstCount, BodyCount
  <2>3. CASE SubstSignal(t)
    BY <2>1, <2>3 DEF SubstSignal
  <2>4. CASE GoesOn(t)
    BY <2>4 DEF GoesOn, Cancel
  <2>5. CASE Apply(t)
    BY <2>5 DEF Apply
  <2>6. CASE BodySignal(t)
    BY <2>1, <2>6 DEF BodySignal, Cancel
  <2>7. CASE LeaveBody(t) \/ Panic(t) \/ Return(t)
    BY <2>7 DEF LeaveBody, Panic, Return
  <2>8. CASE DropSignal(t) \/ DropUncount(t)
    BY <2>8 DEF DropSignal, DropUncount
  <2>9. ASSUME NEW s \in Slots, ReadSlot(t, s) PROVE LiveInv'
    BY <2>9 DEF ReadSlot, HandleInv
  <2>10. ASSUME NEW k \in Mutants, BodyPoint(t, k) PROVE LiveInv'
    BY <2>10 DEF BodyPoint, Runs, HandleInv
  <2> QED BY <1>3, <2>2, <2>3, <2>4, <2>5, <2>6, <2>7, <2>8, <2>9, <2>10 DEF ThreadStep
<1> QED BY <1>1, <1>2, <1>3 DEF ThreadsNext

\* Until the run gives a test up, each location of its mutant that it passes runs the mutant's code,
\* whatever other runners activate, retire or abandon meanwhile.
THEOREM LiveRunsOwn == ThreadsSpec => []LiveTestRunsItsMutant
<1>1. ThreadsInit => LiveInv
  BY DEF ThreadsInit, LiveInv, Nowhere
<1>2. ThreadsInv /\ LiveInv /\ [ThreadsNext]_testVars => LiveInv'
  <2> SUFFICES ASSUME ThreadsInv, LiveInv, [ThreadsNext]_testVars PROVE LiveInv'
    OBVIOUS
  <2>1. CASE UNCHANGED testVars
    BY <2>1 DEF testVars, threadVars, LiveInv, AtOwn
  <2> QED BY <2>1, LiveKept
<1>3. LiveInv => LiveTestRunsItsMutant
  BY DEF LiveInv, AtOwn, LiveTestRunsItsMutant
<1> QED BY <1>1, <1>2, <1>3, ThreadsInvHolds, PTL DEF ThreadsSpec

-----------------------------------------------------------------------------
(* A test that unwinds is not cancelled. *)

LEMMA NotAborted ==
  ASSUME ThreadsTypeOK, NoSecondPanic, NEW t \in Tests, ThreadStep(t)
  PROVE  NoSecondPanic'
<1> USE DEF NoSecondPanic, ThreadsTypeOK, Goto
<1>1. CASE ThreadInside(t)
  <2>1. pc'[t] # "aborted"
    <3>1. CASE GoesOn(t) \/ BodySignal(t)
      BY <3>1 DEF GoesOn, BodySignal, Cancel, TestThreadGoesOn
    <3>2. CASE \/ Begin(t) \/ SubstCount(t) \/ SubstSignal(t) \/ LoopPoint(t) \/ ActiveCount(t)
               \/ Apply(t) \/ BodyCount(t) \/ LeaveBody(t) \/ Panic(t) \/ Return(t)
      BY <3>2 DEF Begin, SubstCount, SubstSignal, LoopPoint, ActiveCount, Apply, BodyCount,
                  LeaveBody, Panic, Return
    <3>3. CASE \E s \in Slots : ReadSlot(t, s)
      BY <3>3 DEF ReadSlot
    <3>4. CASE \E k \in Mutants : BodyPoint(t, k)
      BY <3>4 DEF BodyPoint
    <3> QED BY <1>1, <3>1, <3>2, <3>3, <3>4 DEF ThreadInside
  <2> QED BY <1>1, <2>1, InsideShape
<1>2. CASE DropSignal(t) \/ DropUncount(t)
  BY <1>2 DEF DropSignal, DropUncount
<1> QED BY <1>1, <1>2 DEF ThreadStep, ThreadInside

\* No test is cancelled while it unwinds, which would abort the worker: neither at a loop, a
\* location or a guard, nor at a location of a body it entered before it was given up.
THEOREM NeverAborts == ThreadsSpec => []NoSecondPanic
<1>1. ThreadsInit => NoSecondPanic
  BY DEF ThreadsInit, NoSecondPanic
<1>2. ThreadsTypeOK /\ NoSecondPanic /\ [ThreadsNext]_testVars => NoSecondPanic'
  <2> SUFFICES ASSUME ThreadsTypeOK, NoSecondPanic, [ThreadsNext]_testVars PROVE NoSecondPanic'
    OBVIOUS
  <2>1. ASSUME NEW m \in Mutants, Activate(m) \/ Retire(m) PROVE NoSecondPanic'
    BY <2>1 DEF Activate, Retire, threadVars, NoSecondPanic
  <2>2. ASSUME NEW t \in Tests, RunnerStep(t) PROVE NoSecondPanic'
    BY <2>2 DEF RunnerStep, Start, Join, AbandonCount, AbandonSwap, AbandonUncount, threadVars,
                NoSecondPanic, ThreadsTypeOK
  <2>3. CASE UNCHANGED testVars
    BY <2>3 DEF testVars, threadVars, NoSecondPanic
  <2> QED BY <2>1, <2>2, <2>3, NotAborted DEF ThreadsNext
<1> QED BY <1>1, <1>2, ThreadsTypeCorrect, PTL DEF ThreadsSpec

-----------------------------------------------------------------------------
(* IsolatedProcess *)

\* The test runs only under an owner that started it, and has exited once that owner reports.
TestInv ==
    /\ opc = "starting" => test = "none"
    /\ test = "none" => left = "none"
    /\ test \in {"none", "running"} => exit = NoOutcome
    /\ opc \in {"reporting", "reported"} => test = "ended"
    /\ opc \in {"reporting", "reported"} => left = "none"

\* What an owner has reported is final, and nothing of its test is left.
ReportInv ==
    /\ opc = "reported" => sent = "whole"
    /\ sent = "whole" => opc \in {"reported", "gone"}
    /\ sent = "whole" => test = "ended"
    /\ sent = "whole" => left = "none"
    /\ sent = "whole" => decision \notin {"Failure", NoOutcome}
    /\ frame = "whole" => sent = "whole"
    /\ frame # "none" => sent # "none"

\* What an owner decides has a reason: the exit of the test, or somebody who cancelled it.
Abandons == mpc \in {"drop", "grace", "returned", "died"}

DecisionInv ==
    /\ decision \in Exits => decision = exit
    /\ cancel => asked \/ Abandons
    /\ decision = "Ignored" => asked \/ Abandons

\* How an owner that is gone exited, and when the monitor has returned.
ExitInv ==
    /\ opc = "gone" => status # NoOutcome
    /\ status = "success" => sent = "whole"
    /\ outcome # NoOutcome => mpc = "returned"
    /\ mpc = "returned" => opc = "gone"

IInv == TypeOK /\ TestInv /\ ReportInv /\ DecisionInv /\ ExitInv

Idle == UNCHANGED ownedVars

-----------------------------------------------------------------------------
LEMMA InitIInv == OwnedInit => IInv
BY IsolatedProcessAssumption
   DEF OwnedInit, IInv, TypeOK, TestInv, ReportInv, DecisionInv, ExitInv, Frames, Deadlines

LEMMA OwnerKeeps ==
  ASSUME IInv, Owner \/ ExecuteFails \/ OwnerBreaks
  PROVE  IInv'
<1> USE IsolatedProcessAssumption
<1> USE DEF IInv, TypeOK, TestInv, ReportInv, DecisionInv, ExitInv, Abandons, Frames, Deadlines,
            monitor, owner, processes, OwnerOnly, Unwatched
<1>1. CASE SpawnTest
  BY <1>1 DEF SpawnTest
<1>2. CASE SeeCancel
  <2>1. cancel /\ opc = "executing" /\ opc' = "cleaning" /\ decision' = "Ignored" /\ cancel' = FALSE
    BY <1>2 DEF SeeCancel, Decide
  <2>2. UNCHANGED <<limited, asked, monitor, status, sent, processes>>
    BY <1>2 DEF SeeCancel, Decide
  <2>3. TypeOK'
    <3>1. {limited, asked, cancelled, exited, missed, cancel, testOverdue}' \subseteq BOOLEAN
      BY <2>1, <2>2
    <3>2. /\ UNCHANGED <<mpc, frame, sent, deadline, status, test, left, exit, outcome>>
          /\ opc' = "cleaning" /\ decision' = "Ignored"
      BY <2>1, <2>2
    <3>3. "Ignored" # NoOutcome
      OBVIOUS
    <3>4. TypeOK
      OBVIOUS
    <3> QED BY ONLY <3>1, <3>2, <3>3, <3>4 DEF TypeOK, Frames, Deadlines
  <2>4. TestInv' /\ ExitInv' /\ ReportInv'
    BY <2>1, <2>2
  <2>5. DecisionInv'
    <3>1. asked \/ Abandons
      BY <2>1
    <3>2. "Ignored" \notin Exits
      OBVIOUS
    <3> QED BY ONLY <2>1, <2>2, <3>1, <3>2 DEF DecisionInv, Abandons, monitor
  <2> QED BY <2>3, <2>4, <2>5
<1>3. CASE SeeClosed
  BY <1>3 DEF SeeClosed, Decide
<1>4. CASE ReapTest
  <2>1. CASE exit = "Ok" /\ limited /\ testOverdue
    BY <1>4, <2>1 DEF ReapTest, Decide
  <2>2. CASE ~(exit = "Ok" /\ limited /\ testOverdue)
    BY <1>4, <2>2 DEF ReapTest, Decide
  <2> QED BY <2>1, <2>2
<1>5. CASE SeeLimit
  BY <1>5 DEF SeeLimit, Decide
<1>6. CASE KillDescendants
  BY <1>6 DEF KillDescendants
<1>7. CASE ReportDecision
  BY <1>7 DEF ReportDecision
<1>8. CASE OwnerExits
  BY <1>8 DEF OwnerExits
<1>9. CASE ExecuteFails
  BY <1>9 DEF ExecuteFails, Decide
<1>10. CASE OwnerBreaks
  BY <1>10 DEF OwnerBreaks
<1> QED BY <1>1, <1>2, <1>3, <1>4, <1>5, <1>6, <1>7, <1>8, <1>9, <1>10 DEF Owner

LEMMA MonitorKeeps ==
  ASSUME IInv, Monitor \/ WorkerDies
  PROVE  IInv'
<1> USE IsolatedProcessAssumption
<1> USE DEF IInv, TypeOK, TestInv, ReportInv, DecisionInv, ExitInv, Abandons, Frames, Deadlines,
            monitor, owner, processes, MonitorOnly, Unwatched
<1>1. CASE ReadCompletion
  <2>1. CASE ResetByOwner
    BY <1>1, <2>1 DEF ReadCompletion
  <2>2. CASE ~ResetByOwner
    <3>1. mpc = "read" /\ mpc' = "forward" /\ frame' = sent
      BY <1>1, <2>2 DEF ReadCompletion
    <3>2. UNCHANGED <<limited, asked, owner, processes, cancelled, exited, outcome, cancel>>
      BY <1>1 DEF ReadCompletion
    <3>3. deadline' \in Deadlines /\ missed' \in BOOLEAN
      <4>1. Advance(sent)
        BY <1>1, <2>2 DEF ReadCompletion
      <4>2. CASE sent = frame
        BY <4>1, <4>2 DEF Advance
      <4>3. CASE sent = "whole" /\ frame # "whole"
        BY <4>1, <4>3 DEF Advance, Allow
      <4>4. CASE sent = "ready" /\ frame = "none"
        BY <4>1, <4>4 DEF Advance, Allow
      <4>5. /\ {frame, sent} \subseteq Frames
            /\ frame = "whole" => sent = "whole"
            /\ frame # "none" => sent # "none"
        BY DEF IInv, TypeOK, ReportInv
      <4>6. sent = frame \/ (sent = "whole" /\ frame # "whole") \/ (sent = "ready" /\ frame = "none")
        BY ONLY <4>5 DEF Frames
      <4> QED BY <4>2, <4>3, <4>4, <4>6
    <3>4. TypeOK'
      <4>1. {limited, asked, cancelled, exited, missed, cancel, testOverdue}' \subseteq BOOLEAN
        BY <3>2, <3>3
      <4>2. /\ UNCHANGED <<opc, decision, sent, status, test, left, exit, outcome>>
            /\ mpc' = "forward" /\ frame' = sent /\ deadline' \in Deadlines
        BY <3>1, <3>2, <3>3
      <4>3. TypeOK
        OBVIOUS
      <4> QED BY ONLY <4>1, <4>2, <4>3 DEF TypeOK, Frames
    <3>5. TestInv' /\ ReportInv' /\ ExitInv'
      BY <3>1, <3>2
    <3>6. DecisionInv'
      BY <3>1, <3>2
    <3> QED BY <3>4, <3>5, <3>6
  <2> QED BY <2>1, <2>2
<1>2. CASE ForwardCancellation
  <2>1. CASE Forwards
    <3>1. /\ mpc = "forward" /\ mpc' = "wait" /\ cancelled' = TRUE
          /\ deadline' = "cleanup" /\ missed' = FALSE
      BY <1>2, <2>1 DEF ForwardCancellation, Allow
    <3>2. UNCHANGED <<limited, asked, owner, processes, frame, exited, outcome>>
      BY <1>2 DEF ForwardCancellation
    <3>3. cancel' \in BOOLEAN /\ asked
      BY <1>2, <2>1 DEF ForwardCancellation, Forwards
    <3>4. TypeOK'
      <4>1. {limited, asked, cancelled, exited, missed, cancel, testOverdue}' \subseteq BOOLEAN
        BY <3>1, <3>2, <3>3
      <4>2. /\ UNCHANGED <<opc, decision, sent, status, test, left, exit, frame, outcome>>
            /\ mpc' = "wait" /\ deadline' = "cleanup"
        BY <3>1, <3>2
      <4>3. TypeOK
        OBVIOUS
      <4> QED BY ONLY <4>1, <4>2, <4>3 DEF TypeOK, Frames, Deadlines
    <3>5. TestInv' /\ ReportInv' /\ ExitInv'
      BY <3>1, <3>2
    <3>6. DecisionInv'
      BY <3>2, <3>3
    <3> QED BY <3>4, <3>5, <3>6
  <2>2. CASE ~Forwards
    BY <1>2, <2>2 DEF ForwardCancellation
  <2> QED BY <2>1, <2>2
<1>3. CASE TryWait
  <2>1. mpc = "wait" /\ UNCHANGED <<limited, asked, owner, processes, frame, cancelled, outcome, cancel>>
    BY <1>3 DEF TryWait
  <2>2. CASE opc = "gone" /\ ~exited
    <3>1. mpc' \in {"drop", "decide"}
      BY <1>3, <2>2 DEF TryWait
    <3>2. exited' \in BOOLEAN /\ deadline' \in Deadlines /\ missed' \in BOOLEAN
      BY <1>3, <2>2 DEF TryWait, Allow
    <3> QED BY <2>1, <3>1, <3>2
  <2>3. CASE ~(opc = "gone" /\ ~exited)
    BY <1>3, <2>1, <2>3 DEF TryWait
  <2> QED BY <2>2, <2>3
<1>4. CASE FinishLoop
  BY <1>4 DEF FinishLoop, ReportComplete, PipesClosed
<1>5. CASE DropOwner
  BY <1>5 DEF DropOwner
<1>6. CASE EndOwner
  BY <1>6 DEF EndOwner
<1>7. CASE WorkerDies
  BY <1>7 DEF WorkerDies
<1> QED BY <1>1, <1>2, <1>3, <1>4, <1>5, <1>6, <1>7 DEF Monitor

LEMMA OthersKeep ==
  ASSUME IInv,
         \/ \E result \in Exits : TestExits(result)
         \/ Leave \/ LeftEnds \/ TestLimitPasses \/ Ask \/ DeadlinePasses \/ Idle
  PROVE  IInv'
<1> USE IsolatedProcessAssumption
<1> USE DEF IInv, TypeOK, TestInv, ReportInv, DecisionInv, ExitInv, Abandons, Frames, Deadlines,
            monitor, owner, processes, Unwatched
<1>1. ASSUME NEW result \in Exits, TestExits(result)
      PROVE  IInv'
  BY <1>1 DEF TestExits
<1>2. CASE Leave
  BY <1>2 DEF Leave
<1>3. CASE LeftEnds
  BY <1>3 DEF LeftEnds
<1>4. CASE TestLimitPasses
  BY <1>4 DEF TestLimitPasses
<1>5. CASE Ask
  BY <1>5 DEF Ask
<1>6. CASE DeadlinePasses
  BY <1>6 DEF DeadlinePasses
<1>7. CASE Idle
  BY <1>7 DEF Idle, ownedVars
<1> QED BY <1>1, <1>2, <1>3, <1>4, <1>5, <1>6, <1>7

THEOREM Invariance == OwnedSpec => []IInv
<1>1. IInv /\ [OwnedNext]_ownedVars => IInv'
  BY OwnerKeeps, MonitorKeeps, OthersKeep DEF OwnedNext, Idle
<1> QED BY InitIInv, <1>1, PTL DEF OwnedSpec

\* Every stage of the monitor, of the owner and of the test has the values of its type: the owner
\* never has a report to write without a result in it.
THEOREM TypeCorrect == OwnedSpec => []TypeOK
BY Invariance, PTL DEF IInv

-----------------------------------------------------------------------------
\* The monitor drops an owner only if that failed or missed a deadline (Stage::read, run): a reset
\* of the socket by a cancellation that came too late does not undo what the owner completed.
THEOREM CompletionStands == OwnedSpec => CompletionSurvivesCancel
<1> DEFINE Step == mpc' = "drop" /\ mpc # "drop" => status \in {"failure", "broken"} \/ missed
<1>1. ASSUME IInv, OwnedNext PROVE Step
  <2> SUFFICES ASSUME mpc' = "drop", mpc # "drop"
               PROVE  status \in {"failure", "broken"} \/ missed
    OBVIOUS
  <2>1. opc = "gone" => status # NoOutcome
    BY <1>1 DEF IInv, ExitInv
  <2>2. CASE ReadCompletion
    <3>1. ResetByOwner
      BY <2>2 DEF ReadCompletion
    <3>2. opc = "gone" /\ sent # "whole"
      BY <3>1 DEF ResetByOwner
    <3> QED BY <1>1, <2>1, <3>2 DEF IInv, TypeOK, ExitInv
  <2>3. CASE TryWait
    BY <1>1, <2>1, <2>3 DEF TryWait, IInv, TypeOK
  <2>4. CASE FinishLoop
    BY <2>4 DEF FinishLoop
  <2>5. CASE ForwardCancellation
    BY <2>5 DEF ForwardCancellation
  <2>6. CASE DropOwner \/ EndOwner \/ WorkerDies
    BY <2>6 DEF DropOwner, EndOwner, WorkerDies
  <2>7. CASE UNCHANGED mpc
    BY <2>7
  <2>8. Monitor \/ WorkerDies \/ UNCHANGED mpc
    BY <1>1 DEF OwnedNext, Owner, SpawnTest, SeeCancel, SeeClosed, ReapTest, SeeLimit, KillDescendants,
                ReportDecision, OwnerExits, ExecuteFails, OwnerBreaks, Decide, OwnerOnly, monitor,
                TestExits, Leave, LeftEnds, TestLimitPasses, Ask, DeadlinePasses
  <2> QED BY <2>2, <2>3, <2>4, <2>5, <2>6, <2>7, <2>8 DEF Monitor
<1>2. IInv /\ [OwnedNext]_ownedVars => [Step]_ownedVars
  BY <1>1
<1> QED BY Invariance, <1>2, PTL DEF OwnedSpec, CompletionSurvivesCancel

-----------------------------------------------------------------------------
(* Each step is a step of OwnedProcess, or changes nothing that it names. *)

CStep == [OwnedContract!Next]_OwnedContract!vars

LEMMA CStutter ==
  ASSUME UNCHANGED <<test, left, exit, asked, outcome>>
  PROVE  CStep
BY DEF CStep, OwnedContract!vars, Running

LEMMA OwnerRefines ==
  ASSUME IInv, Owner \/ ExecuteFails \/ OwnerBreaks
  PROVE  CStep
<1>1. CASE SpawnTest
  <2>1. ~Running /\ exit = NoOutcome /\ outcome = NoOutcome
    BY <1>1 DEF SpawnTest, IInv, TestInv, ExitInv, Running
  <2>2. Running'
    BY <1>1 DEF SpawnTest, Running
  <2>3. OwnedContract!Start
    BY <1>1, <2>1, <2>2 DEF SpawnTest, OwnerOnly, monitor, OwnedContract!Start
  <2> QED BY <2>3 DEF CStep, OwnedContract!Next
<1>2. CASE KillDescendants
  <2>1. ~Running' /\ UNCHANGED <<exit, asked, outcome>>
    BY <1>2 DEF KillDescendants, OwnerOnly, monitor, Running
  <2>2. CASE Running
    <3>1. OwnedContract!Clean
      BY <2>1, <2>2 DEF OwnedContract!Clean
    <3> QED BY <3>1 DEF CStep, OwnedContract!Next
  <2>3. CASE ~Running
    BY <2>1, <2>3 DEF CStep, OwnedContract!vars, Running
  <2> QED BY <2>2, <2>3
<1>3. CASE SeeCancel \/ SeeClosed \/ ReapTest \/ SeeLimit \/ ExecuteFails
  BY <1>3, CStutter DEF SeeCancel, SeeClosed, ReapTest, SeeLimit, ExecuteFails, Decide,
                        monitor, processes
<1>4. CASE ReportDecision \/ OwnerExits \/ OwnerBreaks
  BY <1>4, CStutter DEF ReportDecision, OwnerExits, OwnerBreaks, OwnerOnly, monitor, processes
<1> QED BY <1>1, <1>2, <1>3, <1>4 DEF Owner

\* What the monitor returns: a whole report comes from an owner that had killed all before.
LEMMA MonitorRefines ==
  ASSUME IInv, Monitor \/ WorkerDies
  PROVE  CStep
<1>1. CASE FinishLoop /\ ReportComplete
  <2>1. mpc = "decide" /\ outcome' = decision /\ UNCHANGED <<test, left, exit, asked>>
    BY <1>1 DEF FinishLoop, MonitorOnly, processes
  <2>2. sent = "whole"
    BY <1>1 DEF ReportComplete, IInv, ReportInv
  <2>3. ~Running /\ UNCHANGED Running
    BY <2>1, <2>2 DEF IInv, ReportInv, Running
  <2>4. outcome = NoOutcome
    BY <2>1 DEF IInv, ExitInv
  <2>5. decision \notin {"Failure", NoOutcome}
    BY <2>2 DEF IInv, ReportInv
  <2>6. decision \in Exits => decision \in {exit} \ {NoOutcome}
    BY <2>5 DEF IInv, DecisionInv
  <2>7. decision = "Ignored" => asked
    BY <2>1 DEF IInv, DecisionInv, Abandons
  <2>8. decision \in Exits \cup {"TimedOut", "Ignored"}
    BY <2>5 DEF IInv, TypeOK
  <2>9. OwnedContract!Return(TRUE)
    BY <2>1, <2>3, <2>4, <2>6, <2>7, <2>8 DEF OwnedContract!Return
  <2> QED BY <2>9 DEF CStep, OwnedContract!Next
<1>2. CASE EndOwner
  <2>1. mpc = "grace" /\ outcome' = "Failure" /\ UNCHANGED <<test, left, exit, asked>>
    BY <1>2 DEF EndOwner, processes
  <2>2. outcome = NoOutcome
    BY <2>1 DEF IInv, ExitInv
  <2>3. OwnedContract!Fail
    BY <2>1, <2>2 DEF OwnedContract!Fail, Running
  <2> QED BY <2>3 DEF CStep, OwnedContract!Next
<1>3. CASE FinishLoop /\ ~ReportComplete
  BY <1>3, CStutter DEF FinishLoop, MonitorOnly, processes
<1>4. CASE ReadCompletion \/ ForwardCancellation \/ TryWait \/ DropOwner \/ WorkerDies
  BY <1>4, CStutter DEF ReadCompletion, ForwardCancellation, TryWait, DropOwner, WorkerDies,
                        MonitorOnly, processes
<1> QED BY <1>1, <1>2, <1>3, <1>4 DEF Monitor

LEMMA OthersRefine ==
  ASSUME IInv,
         \/ \E result \in Exits : TestExits(result)
         \/ Leave \/ LeftEnds \/ TestLimitPasses \/ Ask \/ DeadlinePasses \/ Idle
  PROVE  CStep
<1>1. ASSUME NEW result \in Exits, TestExits(result)
      PROVE  CStep
  <2>1. Running /\ exit = NoOutcome /\ exit' = result /\ UNCHANGED <<asked, outcome>>
    BY <1>1 DEF TestExits, monitor, Running, IInv, TestInv
  <2>2. OwnedContract!Exit(result)
    BY <2>1 DEF OwnedContract!Exit, Running
  <2> QED BY <2>2 DEF CStep, OwnedContract!Next
<1>2. CASE Leave
  <2>1. Running /\ Running' /\ UNCHANGED <<exit, asked, outcome>>
    BY <1>2 DEF Leave, monitor, Running
  <2> QED BY <2>1 DEF CStep, OwnedContract!vars
<1>3. CASE LeftEnds
  <2>1. Running /\ UNCHANGED <<test, exit, asked, outcome>> /\ left' = "none"
    BY <1>3 DEF LeftEnds, monitor, Running
  <2>2. CASE test = "running"
    BY <2>1, <2>2 DEF CStep, OwnedContract!vars, Running
  <2>3. CASE test # "running"
    <3>1. OwnedContract!Clean
      BY <2>1, <2>3 DEF OwnedContract!Clean, Running
    <3> QED BY <3>1 DEF CStep, OwnedContract!Next
  <2> QED BY <2>2, <2>3
<1>4. CASE Ask
  <2>1. OwnedContract!Ask
    BY <1>4 DEF Ask, monitor, processes, OwnedContract!Ask, Running
  <2> QED BY <2>1 DEF CStep, OwnedContract!Next
<1>5. CASE TestLimitPasses \/ DeadlinePasses \/ Idle
  BY <1>5, CStutter DEF TestLimitPasses, DeadlinePasses, Idle, ownedVars, monitor, processes
<1> QED BY <1>1, <1>2, <1>3, <1>4, <1>5

\* A run of a test in a process of its own is one of OwnedProcess, wherever its monitor, its owner
\* or the test is stopped: a result other than a failure (CompletedTest of subprocess::run) is the
\* test's own exit, a cancellation that was asked for, or its limit, and nothing of it is left.
THEOREM Refinement == OwnedSpec => KeepsOwnedContract
<1>1. OwnedInit => OwnedContract!Init
  BY DEF OwnedInit, OwnedContract!Init, Running
<1>2. IInv /\ [OwnedNext]_ownedVars => CStep
  BY OwnerRefines, MonitorRefines, OthersRefine DEF OwnedNext, Idle
<1> QED BY Invariance, <1>1, <1>2, PTL DEF OwnedSpec, KeepsOwnedContract, OwnedContract!Spec, CStep
=============================================================================
