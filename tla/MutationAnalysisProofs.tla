------------------------ MODULE MutationAnalysisProofs ------------------------
(***************************************************************************)
(* However many mutations, conflicts and threads there are, and wherever   *)
(* the scheduler is when a run starts, ends or gives its test up: the      *)
(* tests that are live are those of mutations that one handle may hold.    *)
(***************************************************************************)
EXTENDS MutationAnalysis

Scheduling == {"load", "schedule", "spawn", "collect", "sleep"}

TypeOK ==
    /\ mode \in Modes /\ scheduled \in BOOLEAN /\ removed \in BOOLEAN
    /\ mpc \in {"next", "await", "confirm", "confirming", "side", "done"} \cup Scheduling
    /\ {earlier, unit, newly, running, unchecked, handle, deferred, again} \subseteq SUBSET Mutations
    /\ remaining \in Seq(SUBSET Mutations)
    /\ seen \in Nat
    /\ run \in [Mutations -> {"none", "spawned", "testing", "child", "ended"}]
    /\ timedOut \in [Mutations -> BOOLEAN]
    /\ job \in [Mutations \X Phases ->
                  {"none", "queued", "received", "running", "finished", "returned"}]
    /\ recorded \in [Mutations -> Nat]

\* The mutations that have a run, and those whose test is in this process.
Active == {m \in Mutations : run[m] # "none"}
Testing == {m \in Mutations : run[m] = "testing"}

\* Mutations that one handle may hold.
Peaceful(ms) == \A m, n \in ms : {m, n} \notin Conflicts

\* What is queued are the units of the mode.
UnitsInv ==
    /\ ToSet(remaining) \subseteq ToSet(Units(mode))
    /\ mpc \in {"next", "await"} => mode # "dynamic"
    /\ mpc \in Scheduling => mode = "dynamic"

\* While one unit is evaluated, the runs are its own and it is in the handle.
OneInv ==
    /\ mpc \notin {"await", "confirming"} => unit = {}
    /\ mpc \in {"next", "await", "confirm", "confirming"} => Active \subseteq unit /\ unit \subseteq handle
    /\ mpc = "confirming" => \E m \in Mutations : unit = {m}

\* While mutants run side by side, those of this process do not conflict and are in the handle, which
\* holds those about to start before they do.
SchedulerInv ==
    /\ mpc \in Scheduling =>
          /\ Active \subseteq running
          /\ \A m \in Testing : ~Isolated(m)
          /\ Peaceful(InProcessSubstitutions(running \cup newly))
          /\ InProcessSubstitutions(running) \subseteq handle
    /\ mpc = "spawn" => InProcessSubstitutions(newly) \subseteq handle
    /\ mpc \notin Scheduling => running = {}
    /\ mpc \notin {"schedule", "spawn"} => newly = {}

\* The mutants under way were counted among the busy threads that the scheduler read.
PoolInv ==
    /\ Cardinality(running \cup newly) <= PoolSize
    /\ mpc = "schedule" =>
          /\ Cardinality(running) <= seen
          /\ newly # {} => seen + Cardinality(newly) <= PoolSize

\* The reruns that go side by side are in child processes.
SideInv ==
    /\ Confirming => again \subseteq Unsafe
    /\ mpc \in {"side", "done"} => Active \subseteq Unsafe /\ Testing = {}

IInv ==
    /\ TypeOK /\ UnitsInv /\ OneInv /\ SchedulerInv /\ PoolInv /\ SideInv
    /\ Peaceful(handle)

-----------------------------------------------------------------------------
\* Every unit of a mode is of mutations that one handle may hold.
LEMMA UnitsHold ==
  ASSUME NEW d \in Modes
  PROVE  /\ Units(d) \in Seq(SUBSET Mutations)
         /\ \A U \in ToSet(Units(d)) : Peaceful(U)
         /\ d # "batched" => \A U \in ToSet(Units(d)) : \E m \in Mutations : U = {m}
<1>1. CASE d = "batched"
  <2>1. Units(d) = Batches
    BY <1>1 DEF Units
  <2>2. ASSUME NEW U \in ToSet(Batches), NEW m \in U, NEW n \in U
        PROVE  {m, n} \notin Conflicts
    <3>1. \A p \in Conflicts : ~(p \subseteq U)
      BY <2>2, MutationAnalysisAssumption
    <3> QED BY <3>1
  <2> QED BY <1>1, <2>1, <2>2, MutationAnalysisAssumption DEF Peaceful
<1>2. CASE d # "batched"
  <2>1. Units(d) = [i \in DOMAIN Order |-> {Order[i]}]
    BY <1>2 DEF Units
  <2>2. Order \in Seq(Mutations)
    BY MutationAnalysisAssumption
  <2>3. Units(d) \in Seq(SUBSET Mutations)
    BY <2>1, <2>2
  <2>4. ASSUME NEW U \in ToSet(Units(d))
        PROVE  \E m \in Mutations : U = {m}
    <3>1. PICK i \in DOMAIN Order : U = {Order[i]}
      BY <2>1 DEF ToSet
    <3> QED BY <3>1, <2>2
  <2>5. ASSUME NEW U \in ToSet(Units(d))
        PROVE  Peaceful(U)
    <3>1. PICK m \in Mutations : U = {m}
      BY <2>4
    <3>2. {m, m} \notin Conflicts
      <4>1. Cardinality({m}) = 1
        BY FS_Singleton
      <4> QED BY <4>1, MutationAnalysisAssumption
    <3> QED BY <3>1, <3>2 DEF Peaceful
  <2> QED BY <1>2, <2>3, <2>4, <2>5
<1> QED BY <1>1, <1>2

\* The set of mutations is finite, and so is each set of some of them.
LEMMA FewMutations ==
  ASSUME NEW S \in SUBSET Mutations
  PROVE  IsFiniteSet(S) /\ Cardinality(S) \in Nat
BY MutationAnalysisAssumption, FS_Subset, FS_CardinalityType

\* An analysis begins with what the units of its mode are made of, less what is recorded.
LEMMA InitIInv == Init => IInv
<1> SUFFICES ASSUME Init PROVE IInv
  OBVIOUS
<1>1. /\ mode \in Modes /\ earlier \in SUBSET Mutations
      /\ mpc = IF mode = "dynamic" THEN "load" ELSE "next"
      /\ remaining = Keep(Units(mode), {U \in ToSet(Units(mode)) : ~FinishedBefore(U)})
      /\ unit = {} /\ newly = {} /\ running = {} /\ unchecked = {} /\ handle = {}
      /\ seen = 0 /\ scheduled = FALSE /\ removed = FALSE /\ deferred = {} /\ again = {}
  BY MutationAnalysisAssumption DEF Init
<1>2. remaining \in Seq(SUBSET Mutations) /\ ToSet(remaining) \subseteq ToSet(Units(mode))
  BY <1>1, UnitsHold, KeepKeeps
<1>3. run = [m \in Mutations |-> "none"]
  BY DEF Init
<1>4. TypeOK
  <2>1. /\ timedOut \in [Mutations -> BOOLEAN]
        /\ job \in [Mutations \X Phases ->
                      {"none", "queued", "received", "running", "finished", "returned"}]
    BY DEF Init
  <2>2. recorded \in [Mutations -> Nat]
    BY DEF Init
  <2> QED BY <2>1, <2>2, <1>1, <1>2, <1>3 DEF TypeOK, Scheduling
<1>5. UnitsInv /\ OneInv /\ SideInv /\ Peaceful(handle)
  BY <1>1, <1>2, <1>3 DEF UnitsInv, OneInv, SideInv, Peaceful, Active, Confirming, Scheduling
<1>6. SchedulerInv
  BY <1>1, <1>3 DEF SchedulerInv, Peaceful, Active, Testing, InProcessSubstitutions, Scheduling
<1>7. PoolInv
  <2>1. Cardinality(running \cup newly) = 0
    BY <1>1, FS_EmptySet
  <2> QED BY <2>1, <1>1, MutationAnalysisAssumption DEF PoolInv
<1> QED BY <1>4, <1>5, <1>6, <1>7 DEF IInv

-----------------------------------------------------------------------------
(* The runs. *)

\* A run goes on by itself, or a job of the pool does; only one that starts its test in this process
\* adds to the tests there.
LEMMA RunsKeep ==
  ASSUME IInv, RunsOnly, Active' \subseteq Active,
         run' \in [Mutations -> {"none", "spawned", "testing", "child", "ended"}],
         timedOut' \in [Mutations -> BOOLEAN],
         job' \in [Mutations \X Phases ->
                     {"none", "queued", "received", "running", "finished", "returned"}],
         \A m \in Testing' \ Testing : m \in Active /\ ~InChild(m)
  PROVE  IInv'
<1>1. UNCHANGED <<mode, earlier, mpc, remaining, unit, seen, newly, scheduled, running, unchecked,
                  removed, handle, deferred, again, recorded>>
  BY DEF RunsOnly, loop
<1>2. TypeOK'
  BY <1>1 DEF IInv, TypeOK
<1>3. UnitsInv' /\ OneInv' /\ PoolInv' /\ Peaceful(handle)'
  BY <1>1 DEF IInv, UnitsInv, OneInv, PoolInv, Peaceful
<1>4. SchedulerInv'
  <2>1. mpc \in Scheduling => mode = "dynamic" /\ ~Confirming
    BY DEF IInv, UnitsInv, Confirming, Scheduling
  <2>2. mpc \in Scheduling => \A m \in Testing' \ Testing : ~Isolated(m)
    BY <2>1 DEF InChild
  <2> QED BY <2>2, <1>1 DEF IInv, SchedulerInv, Peaceful, InProcessSubstitutions
<1>5. SideInv'
  <2>1. mpc \in {"side", "done"} => \A m \in Testing' \ Testing : m \in Unsafe /\ ~IsolatedUnit({m})
    BY DEF IInv, SideInv, InChild, Confirming
  <2>2. \A m \in Unsafe : IsolatedUnit({m})
    BY DEF IsolatedUnit
  <2> QED BY <2>1, <2>2, <1>1 DEF IInv, SideInv, Confirming
<1> QED BY <1>2, <1>3, <1>4, <1>5 DEF IInv

\* A step of the run of one mutation disturbs no other.
LEMMA RunStepKeeps ==
  ASSUME IInv, NEW m \in Mutations, RunStep(m)
  PROVE  IInv'
<1>1. run \in [Mutations -> {"none", "spawned", "testing", "child", "ended"}]
  BY DEF IInv, TypeOK
<1>2. RunsOnly /\ Phase \in Phases
  BY DEF RunStep, StartTest, GiveUp, RunEnds, Phase, Phases
<1>3. run[m] # "none"
  BY DEF RunStep, StartTest, GiveUp, RunEnds
<1>4. \/ run' = [run EXCEPT ![m] = "testing"] /\ ~InChild(m)
      \/ run' = [run EXCEPT ![m] = "child"]
      \/ run' = [run EXCEPT ![m] = "ended"]
  BY DEF RunStep, StartTest, GiveUp, RunEnds, SetRun
<1>5. /\ timedOut' \in [Mutations -> BOOLEAN]
      /\ job' \in [Mutations \X Phases ->
                     {"none", "queued", "received", "running", "finished", "returned"}]
  <2>1. \/ timedOut' = timedOut
        \/ \E late \in BOOLEAN : timedOut' = [timedOut EXCEPT ![m] = late]
    BY DEF RunStep, StartTest, GiveUp, RunEnds
  <2>2. job' = job \/ job' = [job EXCEPT ![<<m, Phase>>] = "queued"]
    BY DEF RunStep, StartTest, GiveUp, RunEnds, SetJob
  <2> QED BY <2>1, <2>2, <1>2 DEF IInv, TypeOK
<1>6. Active' \subseteq Active /\ \A n \in Testing' \ Testing : n \in Active /\ ~InChild(n)
  BY <1>1, <1>3, <1>4 DEF Active, Testing
<1>7. run' \in [Mutations -> {"none", "spawned", "testing", "child", "ended"}]
  BY <1>1, <1>4
<1> QED BY <1>2, <1>5, <1>6, <1>7, RunsKeep

\* A step of a job of the pool is seen by the counts alone.
LEMMA JobStepKeeps ==
  ASSUME IInv, NEW m \in Mutations, NEW p \in Phases, JobStep(m, p)
  PROVE  IInv'
<1>1. RunsOnly /\ UNCHANGED <<run, timedOut>>
  BY DEF JobStep, ReceiveJob, CountJob, FinishJob, UncountJob
<1>2. job' \in [Mutations \X Phases ->
                  {"none", "queued", "received", "running", "finished", "returned"}]
  BY DEF JobStep, ReceiveJob, CountJob, FinishJob, UncountJob, SetJob, IInv, TypeOK
<1>3. Active' = Active /\ Testing' = Testing
  BY <1>1 DEF Active, Testing
<1> QED BY <1>1, <1>2, <1>3, RunsKeep DEF IInv, TypeOK

-----------------------------------------------------------------------------
(* What the steps of the analysis do to runs and results. *)

\* Runs that are spawned are active.
LEMMA SpawnHolds ==
  ASSUME IInv, NEW ms \in SUBSET Mutations, SpawnRuns(ms)
  PROVE  /\ run' \in [Mutations -> {"none", "spawned", "testing", "child", "ended"}]
         /\ Active' = Active \cup ms /\ Testing' \subseteq Testing
BY DEF IInv, TypeOK, SpawnRuns, Active, Testing

\* Runs that are taken down are not.
LEMMA ResetHolds ==
  ASSUME IInv, NEW ms \in SUBSET Mutations, ResetRuns(ms)
  PROVE  /\ run' \in [Mutations -> {"none", "spawned", "testing", "child", "ended"}]
         /\ timedOut' \in [Mutations -> BOOLEAN]
         /\ Active' = Active \ ms /\ Testing' \subseteq Testing
BY DEF IInv, TypeOK, ResetRuns, Active, Testing

\* Results are recorded, or their mutations are put off.
LEMMA FinishHolds ==
  ASSUME IInv, NEW ms \in SUBSET Mutations, Record(ms) \/ FinishMutations(ms)
  PROVE  /\ recorded' \in [Mutations -> Nat]
         /\ FinishMutations(ms) => deferred' \in SUBSET Mutations
BY DEF IInv, TypeOK, Record, FinishMutations

-----------------------------------------------------------------------------
(* One mutant or batch at a time. *)

\* The next unit is activated, and its runs are spawned.
LEMMA EvaluateKeeps ==
  ASSUME IInv, Evaluate
  PROVE  IInv'
<1>1. /\ mpc = "next" /\ mpc' = "await" /\ remaining # <<>>
      /\ unit' = remaining[1] /\ handle' = remaining[1] /\ remaining' = Tail(remaining)
      /\ SpawnRuns(remaining[1])
  BY DEF Evaluate, IInv, TypeOK
<1>2. UNCHANGED <<mode, earlier, seen, newly, scheduled, running, unchecked, removed,
                  timedOut, job, deferred, again, recorded>>
  BY DEF Evaluate
<1>3. /\ remaining[1] \in SUBSET Mutations /\ remaining[1] \in ToSet(remaining)
      /\ remaining' \in Seq(SUBSET Mutations) /\ ToSet(remaining') \subseteq ToSet(remaining)
  BY <1>1, PopLeaves DEF IInv, TypeOK
<1>4. /\ run' \in [Mutations -> {"none", "spawned", "testing", "child", "ended"}]
      /\ Active' = Active \cup remaining[1]
  BY <1>1, <1>3, SpawnHolds
<1>5. Peaceful(remaining[1])
  BY <1>3, UnitsHold DEF IInv, TypeOK, UnitsInv
<1>6. Active = {}
  BY <1>1 DEF IInv, OneInv
<1>7. TypeOK'
  BY <1>1, <1>2, <1>3, <1>4 DEF IInv, TypeOK
<1>8. UnitsInv' /\ OneInv' /\ Peaceful(handle)'
  BY <1>1, <1>2, <1>3, <1>4, <1>5, <1>6 DEF IInv, UnitsInv, OneInv, Peaceful, Scheduling
<1>9. SchedulerInv' /\ PoolInv' /\ SideInv'
  BY <1>1, <1>2 DEF IInv, SchedulerInv, PoolInv, SideInv, Confirming, Scheduling
<1> QED BY <1>7, <1>8, <1>9 DEF IInv

\* A unit is over, in the analysis or at its rerun.
LEMMA UnitOverKeeps ==
  ASSUME IInv, FinishUnit \/ FinishConfirm
  PROVE  IInv'
<1>1. /\ \/ mpc = "await" /\ mpc' = "next"
         \/ mpc = "confirming" /\ mpc' = "confirm"
      /\ unit' = {} /\ ResetRuns(unit)
  BY DEF FinishUnit, FinishConfirm
<1>2. UNCHANGED <<mode, earlier, remaining, seen, newly, scheduled, running, unchecked, removed,
                  handle, job, again>>
  BY DEF FinishUnit, FinishConfirm
<1>3. unit \in SUBSET Mutations /\ UnitResults \in SUBSET Mutations
  BY DEF IInv, TypeOK, UnitResults
<1>4. /\ run' \in [Mutations -> {"none", "spawned", "testing", "child", "ended"}]
      /\ timedOut' \in [Mutations -> BOOLEAN] /\ Active' = Active \ unit
  BY <1>1, <1>3, ResetHolds
<1>5. recorded' \in [Mutations -> Nat] /\ deferred' \in SUBSET Mutations
  BY <1>3, FinishHolds DEF FinishUnit, FinishConfirm, IInv, TypeOK
<1>6. Active' = {}
  BY <1>1, <1>4 DEF IInv, OneInv
<1>7. TypeOK'
  BY <1>1, <1>2, <1>4, <1>5 DEF IInv, TypeOK
<1>8. UnitsInv' /\ OneInv' /\ Peaceful(handle)'
  BY <1>1, <1>2, <1>6 DEF IInv, UnitsInv, OneInv, Peaceful, Scheduling
<1>9. SchedulerInv' /\ PoolInv' /\ SideInv'
  BY <1>1, <1>2 DEF IInv, SchedulerInv, PoolInv, SideInv, Confirming, Scheduling
<1> QED BY <1>7, <1>8, <1>9 DEF IInv

-----------------------------------------------------------------------------
(* The dynamic scheduler. *)

\* The scheduler takes at least the mutants that run for busy threads.
LEMMA ReadActiveKeeps ==
  ASSUME IInv, ReadActive
  PROVE  IInv'
<1>1. /\ mpc = "load" /\ mpc' = "schedule"
      /\ seen' = IF ActiveCount > Cardinality(running) THEN ActiveCount ELSE Cardinality(running)
  BY DEF ReadActive
<1>2. UNCHANGED <<mode, earlier, remaining, unit, newly, scheduled, running, unchecked, removed,
                  handle, run, timedOut, job, deferred, again, recorded>>
  BY DEF ReadActive, runs
<1>3. Cardinality(running) \in Nat
  BY FewMutations DEF IInv, TypeOK
<1>4. ActiveCount \in Nat
  <2>1. DOMAIN job = Mutations \X Phases
    BY DEF IInv, TypeOK
  <2>2. IsFiniteSet({"analysis"}) /\ IsFiniteSet({"analysis"} \cup {"confirm"})
    BY FS_Singleton, FS_AddElement
  <2>3. IsFiniteSet(Phases)
    <3>1. Phases = {"analysis"} \cup {"confirm"}
      BY DEF Phases
    <3> QED BY <2>2, <3>1
  <2>4. IsFiniteSet(Mutations \X Phases)
    BY <2>3, FS_Product, MutationAnalysisAssumption
  <2>5. IsFiniteSet({j \in DOMAIN job : job[j] \in {"running", "finished"}})
    BY <2>1, <2>4, FS_Subset
  <2> QED BY <2>5, FS_CardinalityType DEF ActiveCount
<1>5. seen' \in Nat /\ Cardinality(running) <= seen'
  BY <1>1, <1>3, <1>4
<1>6. TypeOK'
  BY <1>1, <1>2, <1>5 DEF IInv, TypeOK, Scheduling
<1>7. UnitsInv' /\ OneInv' /\ SideInv' /\ Peaceful(handle)'
  BY <1>1, <1>2 DEF IInv, UnitsInv, OneInv, SideInv, Peaceful, Confirming, Active, Testing, Scheduling
<1>8. SchedulerInv' /\ PoolInv'
  BY <1>1, <1>2, <1>5 DEF IInv, SchedulerInv, PoolInv, Active, Testing, Peaceful,
                          InProcessSubstitutions, Scheduling
<1> QED BY <1>6, <1>7, <1>8 DEF IInv

\* The mutant that is scheduled conflicts with none of those of this process, and takes a thread that
\* is not counted as busy.
LEMMA ScheduleKeeps ==
  ASSUME IInv, NEW i \in DOMAIN remaining, ScheduleMutant(i)
  PROVE  IInv'
<1>1. /\ mpc = "schedule" /\ mpc' = "schedule" /\ HasRoom /\ Fits(i)
      /\ newly' = newly \cup remaining[i] /\ remaining' = RemoveAt(remaining, i)
  BY DEF ScheduleMutant
<1>2. UNCHANGED <<mode, earlier, unit, seen, scheduled, running, unchecked, removed,
                  handle, run, timedOut, job, deferred, again, recorded>>
  BY DEF ScheduleMutant, runs
<1>3. /\ remaining[i] \in ToSet(remaining) /\ remaining' \in Seq(SUBSET Mutations)
      /\ ToSet(remaining') \subseteq ToSet(remaining)
  <2>1. remaining \in Seq(SUBSET Mutations)
    BY DEF IInv, TypeOK
  <2>2. remaining[i] \in ToSet(remaining)
    BY DEF ToSet
  <2> QED BY <2>1, <2>2, <1>1, RemoveAtLeaves
<1>4. PICK m \in Mutations : remaining[i] = {m}
  <2>1. mode \in Modes /\ mode # "batched" /\ remaining[i] \in ToSet(Units(mode))
    BY <1>1, <1>3 DEF IInv, TypeOK, UnitsInv, Scheduling
  <2> QED BY <2>1, UnitsHold
<1>5. RunsAlongside(m, newly \cup running) /\ newly' = newly \cup {m}
  BY <1>1, <1>4 DEF Fits
<1>6. TypeOK'
  BY <1>1, <1>2, <1>3, <1>5 DEF IInv, TypeOK
<1>7. UnitsInv' /\ OneInv' /\ SideInv' /\ Peaceful(handle)'
  BY <1>1, <1>2, <1>3 DEF IInv, UnitsInv, OneInv, SideInv, Peaceful, Confirming, Active, Testing,
                          Scheduling
<1>8. SchedulerInv'
  <2>1. Peaceful(InProcessSubstitutions(running \cup newly'))
    <3> SUFFICES ASSUME NEW a \in running \cup newly', NEW b \in running \cup newly',
                        ~Isolated(a), ~Isolated(b)
                 PROVE  {a, b} \notin Conflicts
      BY DEF Peaceful, InProcessSubstitutions
    <3>1. {m, m} \notin Conflicts
      <4>1. Cardinality({m}) = 1
        BY FS_Singleton
      <4> QED BY <4>1, MutationAnalysisAssumption
    <3>2. ~Isolated(m) => \A o \in newly \cup running : ~Isolated(o) =>
                              {m, o} \notin Conflicts /\ {o, m} \notin Conflicts
      <4>1. \A o : {o, m} = {m, o}
        OBVIOUS
      <4> QED BY <4>1, <1>5 DEF RunsAlongside
    <3>3. \A c, d \in running \cup newly : ~Isolated(c) /\ ~Isolated(d) => {c, d} \notin Conflicts
      BY <1>1 DEF IInv, SchedulerInv, Scheduling, Peaceful, InProcessSubstitutions
    <3> QED BY <3>1, <3>2, <3>3, <1>5
  <2> QED BY <2>1, <1>1, <1>2 DEF IInv, SchedulerInv, Active, Testing, Scheduling
<1>9. PoolInv'
  <2>1. /\ Cardinality(running) \in Nat /\ Cardinality(newly) \in Nat /\ Cardinality(newly') \in Nat
        /\ IsFiniteSet(running) /\ IsFiniteSet(newly) /\ IsFiniteSet(newly')
        /\ Cardinality(running \cap newly') \in Nat
    BY <1>6, FewMutations DEF IInv, TypeOK
  <2>2. Cardinality(newly') <= Cardinality(newly) + 1
    BY <2>1, <1>5, FS_AddElement
  <2>3. Cardinality(running \cup newly') <= Cardinality(running) + Cardinality(newly')
    <3>1. Cardinality(running \cup newly') =
             Cardinality(running) + Cardinality(newly') - Cardinality(running \cap newly')
      BY <2>1, FS_Union
    <3> QED BY <3>1, <2>1
  <2>4. seen + Cardinality(newly) < PoolSize /\ Cardinality(running) <= seen
    BY <1>1 DEF HasRoom, IInv, PoolInv
  <2>5. seen \in Nat /\ PoolSize \in Nat /\ Cardinality(running \cup newly') \in Nat
    BY <1>6, FewMutations, MutationAnalysisAssumption DEF IInv, TypeOK
  <2> QED BY <2>1, <2>2, <2>3, <2>4, <2>5, <1>2 DEF PoolInv
<1> QED BY <1>6, <1>7, <1>8, <1>9 DEF IInv

\* The handle holds those that run and those about to, which do not conflict.
LEMMA ActivateKeeps ==
  ASSUME IInv, ActivateNewly \/ Deactivate
  PROVE  IInv'
<1>1. \/ /\ mpc = "schedule" /\ mpc' = "spawn" /\ seen' = 0 /\ UNCHANGED removed
         /\ handle' = IF newly # {} THEN InProcessSubstitutions(running \cup newly) ELSE handle
         /\ scheduled' \in BOOLEAN
      \/ /\ mpc = "collect" /\ mpc' \in {"load", "sleep"} /\ UNCHANGED seen
         /\ handle' = IF removed THEN InProcessSubstitutions(running) ELSE handle
         /\ scheduled' = FALSE /\ removed' = FALSE
  BY DEF ActivateNewly, Deactivate
<1>2. UNCHANGED <<mode, earlier, remaining, unit, newly, running, unchecked,
                  run, timedOut, job, deferred, again, recorded>>
  BY DEF ActivateNewly, Deactivate, runs
<1>3. mpc \in Scheduling /\ mpc' \in Scheduling
  BY <1>1 DEF Scheduling
<1>4. /\ handle' \in SUBSET Mutations /\ Peaceful(handle)'
      /\ InProcessSubstitutions(running) \subseteq handle'
      /\ mpc' = "spawn" => InProcessSubstitutions(newly) \subseteq handle'
  BY <1>1, <1>3 DEF IInv, TypeOK, SchedulerInv, InProcessSubstitutions, Peaceful
<1>5. TypeOK'
  <2>1. seen' \in Nat /\ scheduled' \in BOOLEAN /\ removed' \in BOOLEAN
    <3>1. seen' = seen \/ seen' = 0
      BY <1>1
    <3>2. removed' = removed \/ removed' = FALSE
      BY <1>1, Zenon
    <3>3. scheduled' \in BOOLEAN
      BY <1>1, Zenon
    <3>4. seen' \in Nat
      BY <3>1 DEF IInv, TypeOK
    <3>5. removed' \in BOOLEAN
      BY <3>2, Zenon DEF IInv, TypeOK
    <3> QED BY <3>3, <3>4, <3>5
  <2>2. mpc' \in {"next", "await", "confirm", "confirming", "side", "done"} \cup Scheduling
    BY <1>3
  <2> QED BY <2>1, <2>2, <1>2, <1>4 DEF IInv, TypeOK
<1>6. UnitsInv' /\ OneInv' /\ SideInv'
  BY <1>1, <1>2 DEF IInv, UnitsInv, OneInv, SideInv, Confirming, Scheduling
<1>7. SchedulerInv'
  <2>1. newly' # {} => mpc' = "spawn"
    BY <1>1, <1>2 DEF IInv, SchedulerInv
  <2>2. UNCHANGED <<Active, Testing, running, newly>>
    BY <1>2 DEF Active, Testing
  <2> QED BY <2>1, <2>2, <1>3, <1>4 DEF IInv, SchedulerInv, Peaceful, InProcessSubstitutions
<1>8. PoolInv'
  BY <1>1, <1>2 DEF IInv, PoolInv
<1> QED BY <1>4, <1>5, <1>6, <1>7, <1>8 DEF IInv

\* A mutant starts, which is in the handle already.
LEMMA SpawnNewlyKeeps ==
  ASSUME IInv, NEW m \in Mutations, SpawnNewly(m)
  PROVE  IInv'
<1>1. /\ mpc = "spawn" /\ mpc' = "spawn" /\ m \in newly
      /\ newly' = newly \ {m} /\ running' = running \cup {m} /\ SpawnRuns({m})
  BY DEF SpawnNewly
<1>2. UNCHANGED <<mode, earlier, remaining, unit, seen, scheduled, unchecked, removed,
                  handle, timedOut, job, deferred, again, recorded>>
  BY DEF SpawnNewly
<1>3. /\ run' \in [Mutations -> {"none", "spawned", "testing", "child", "ended"}]
      /\ Active' = Active \cup {m} /\ Testing' \subseteq Testing
  BY <1>1, SpawnHolds
<1>4. running' \cup newly' = running \cup newly
  BY <1>1
<1>5. TypeOK'
  BY <1>1, <1>2, <1>3 DEF IInv, TypeOK
<1>6. UnitsInv' /\ OneInv' /\ SideInv' /\ PoolInv' /\ Peaceful(handle)'
  BY <1>1, <1>2, <1>4 DEF IInv, UnitsInv, OneInv, SideInv, PoolInv, Peaceful, Confirming, Scheduling
<1>7. SchedulerInv'
  <2>1. /\ \A n \in Testing' : ~Isolated(n)
        /\ Active' \subseteq running'
        /\ Peaceful(InProcessSubstitutions(running' \cup newly'))
    BY <1>1, <1>3, <1>4 DEF IInv, SchedulerInv, Scheduling
  <2>2. InProcessSubstitutions(running') \cup InProcessSubstitutions(newly') \subseteq handle
    BY <1>1 DEF IInv, SchedulerInv, InProcessSubstitutions, Scheduling
  <2> QED BY <2>1, <2>2, <1>1, <1>2
             DEF SchedulerInv, InProcessSubstitutions, Peaceful, Scheduling
<1> QED BY <1>5, <1>6, <1>7 DEF IInv

\* A mutant that has finished leaves those that run; its substitution may stay for now.
LEMMA CollectKeeps ==
  ASSUME IInv, NEW m \in Mutations, CollectMutant(m)
  PROVE  IInv'
<1>1. mpc = "collect" /\ mpc' = "collect"
  BY DEF CollectMutant
<1>2. UNCHANGED <<mode, earlier, remaining, unit, seen, newly, scheduled, handle, job, again>>
  BY DEF CollectMutant
<1>3. /\ run' \in [Mutations -> {"none", "spawned", "testing", "child", "ended"}]
      /\ timedOut' \in [Mutations -> BOOLEAN] /\ recorded' \in [Mutations -> Nat]
      /\ running' \subseteq running /\ Testing' \subseteq Testing
      /\ Active' \subseteq running'
      /\ removed' \in BOOLEAN /\ deferred' \in SUBSET Mutations
  <2>1. CASE run[m] = "ended"
    <3>1. running' = running \ {m} /\ removed' = TRUE /\ FinishMutations({m}) /\ ResetRuns({m})
      BY <2>1 DEF CollectMutant
    <3>2. Active \subseteq running
      BY <1>1 DEF IInv, SchedulerInv, Scheduling
    <3>3. /\ run' \in [Mutations -> {"none", "spawned", "testing", "child", "ended"}]
          /\ timedOut' \in [Mutations -> BOOLEAN]
          /\ Active' = Active \ {m} /\ Testing' \subseteq Testing
      BY <3>1, ResetHolds
    <3>4. recorded' \in [Mutations -> Nat] /\ deferred' \in SUBSET Mutations
      BY <3>1, FinishHolds
    <3> QED BY <3>1, <3>2, <3>3, <3>4
  <2>2. CASE run[m] # "ended"
    <3>1. UNCHANGED <<running, removed, deferred, recorded, run, timedOut>>
      BY <2>2 DEF CollectMutant
    <3> QED BY <3>1, <1>1 DEF IInv, TypeOK, SchedulerInv, Active, Testing, Scheduling
  <2> QED BY <2>1, <2>2
<1>4. TypeOK'
  <2>1. unchecked' \in SUBSET Mutations
    BY DEF CollectMutant, IInv, TypeOK
  <2> QED BY <2>1, <1>1, <1>2, <1>3 DEF IInv, TypeOK
<1>5. UnitsInv' /\ OneInv' /\ SideInv' /\ Peaceful(handle)'
  BY <1>1, <1>2 DEF IInv, UnitsInv, OneInv, SideInv, Peaceful, Confirming, Scheduling
<1>6. SchedulerInv'
  <2>1. newly' = {}
    BY <1>1, <1>2 DEF IInv, SchedulerInv
  <2> QED BY <2>1, <1>1, <1>2, <1>3
             DEF IInv, SchedulerInv, InProcessSubstitutions, Peaceful, Scheduling
<1>7. PoolInv'
  <2>1. running \cup newly \in SUBSET Mutations /\ running' \cup newly' \subseteq running \cup newly
    BY <1>2, <1>3 DEF IInv, TypeOK
  <2>2. /\ Cardinality(running' \cup newly') <= Cardinality(running \cup newly)
        /\ Cardinality(running' \cup newly') \in Nat /\ Cardinality(running \cup newly) \in Nat
    BY <2>1, FewMutations, FS_Subset
  <2> QED BY <2>2, <1>1, MutationAnalysisAssumption DEF IInv, PoolInv
<1> QED BY <1>4, <1>5, <1>6, <1>7 DEF IInv

\* The pass goes on, and nothing starts or ends.
LEMMA PassKeeps ==
  ASSUME IInv, StartCollecting \/ Wake
  PROVE  IInv'
<1>1. /\ mpc \in Scheduling /\ mpc' \in {"load", "collect"} /\ newly = {}
      /\ unchecked' \in SUBSET Mutations
  BY DEF StartCollecting, Wake, IInv, TypeOK, SchedulerInv, Scheduling, loop
<1>2. UNCHANGED <<mode, earlier, remaining, unit, seen, newly, scheduled, running, removed,
                  handle, run, timedOut, job, deferred, again, recorded>>
  BY DEF StartCollecting, Wake, loop, runs
<1>3. TypeOK'
  BY <1>1, <1>2 DEF IInv, TypeOK, Scheduling
<1>4. UnitsInv' /\ OneInv' /\ SideInv' /\ PoolInv' /\ Peaceful(handle)'
  BY <1>1, <1>2 DEF IInv, UnitsInv, OneInv, SideInv, PoolInv, Peaceful, Confirming, Scheduling
<1>5. SchedulerInv'
  BY <1>1, <1>2 DEF IInv, SchedulerInv, Active, Testing, Peaceful, InProcessSubstitutions, Scheduling
<1> QED BY <1>3, <1>4, <1>5 DEF IInv

-----------------------------------------------------------------------------
(* The reruns. *)

\* What is left is to confirm timeouts.
LEMMA AllEvaluatedKeeps ==
  ASSUME IInv, AllEvaluated
  PROVE  IInv'
<1>1. /\ mpc \in {"next", "load"} /\ mpc' = "confirm" /\ running = {}
      /\ again' = {m \in deferred : IsolatedUnit({m})}
  BY DEF AllEvaluated
<1>2. UNCHANGED <<mode, earlier, remaining, unit, seen, newly, scheduled, running, unchecked, removed,
                  handle, run, timedOut, job, deferred, recorded>>
  BY DEF AllEvaluated, loop, runs
<1>3. Active = {} /\ unit = {} /\ newly = {}
  BY <1>1 DEF IInv, OneInv, SchedulerInv, Scheduling
<1>4. TypeOK'
  BY <1>1, <1>2 DEF IInv, TypeOK
<1>5. UnitsInv' /\ OneInv' /\ SchedulerInv' /\ PoolInv' /\ Peaceful(handle)'
  BY <1>1, <1>2, <1>3 DEF IInv, UnitsInv, OneInv, SchedulerInv, PoolInv, Peaceful, Active, Scheduling
<1>6. SideInv'
  <2>1. again' \subseteq Unsafe
    BY <1>1 DEF IsolatedUnit
  <2> QED BY <2>1, <1>1 DEF SideInv
<1> QED BY <1>4, <1>5, <1>6 DEF IInv

\* The handle of a rerun holds the mutation, and none that conflicts with it or another of its batch.
LEMMA SubstitutionsHold ==
  ASSUME IInv, NEW m \in Mutations
  PROVE  /\ Substitutions(m) \in SUBSET Mutations /\ m \in Substitutions(m)
         /\ Peaceful(Substitutions(m))
<1>1. CASE mode = "batched"
  <2>1. PICK B \in ToSet(Batches) : m \in B
    BY MutationAnalysisAssumption
  <2>2. \A C \in ToSet(Batches) : m \in C => C = B
    BY <2>1, MutationAnalysisAssumption
  <2>3. Substitutions(m) = B
    BY <1>1, <2>1, <2>2 DEF Substitutions
  <2>4. Peaceful(B) /\ B \in SUBSET Mutations
    <3>1. Units("batched") = Batches
      BY DEF Units
    <3> QED BY <3>1, <2>1, UnitsHold, MutationAnalysisAssumption DEF Modes
  <2> QED BY <2>1, <2>3, <2>4
<1>2. CASE mode # "batched"
  <2>1. Substitutions(m) = {m}
    BY <1>2 DEF Substitutions
  <2>2. Cardinality({m}) = 1 /\ {m, m} = {m}
    BY FS_Singleton
  <2> QED BY <2>1, <2>2, MutationAnalysisAssumption DEF Peaceful
<1> QED BY <1>1, <1>2

\* A mutation that timed out runs again, with nothing beside it.
LEMMA ConfirmKeeps ==
  ASSUME IInv, NEW m \in Mutations, Confirm(m)
  PROVE  IInv'
<1>1. /\ mpc = "confirm" /\ mpc' = "confirming" /\ unit' = {m}
      /\ handle' = Substitutions(m) /\ SpawnRuns({m})
  BY DEF Confirm
<1>2. UNCHANGED <<mode, earlier, remaining, seen, newly, scheduled, running, unchecked, removed,
                  timedOut, job, deferred, again, recorded>>
  BY DEF Confirm
<1>3. /\ run' \in [Mutations -> {"none", "spawned", "testing", "child", "ended"}]
      /\ Active' = Active \cup {m}
  BY <1>1, SpawnHolds
<1>4. Active = {}
  BY <1>1 DEF IInv, OneInv
<1>5. handle' \in SUBSET Mutations /\ m \in handle' /\ Peaceful(handle)'
  BY <1>1, SubstitutionsHold DEF Peaceful
<1>6. TypeOK'
  BY <1>1, <1>2, <1>3, <1>5 DEF IInv, TypeOK
<1>7. UnitsInv' /\ OneInv'
  BY <1>1, <1>2, <1>3, <1>4, <1>5 DEF IInv, UnitsInv, OneInv, Scheduling
<1>8. SchedulerInv' /\ PoolInv' /\ SideInv'
  BY <1>1, <1>2 DEF IInv, SchedulerInv, PoolInv, SideInv, Confirming, Scheduling
<1> QED BY <1>5, <1>6, <1>7, <1>8 DEF IInv

\* The reruns in child processes start, one is taken, or all have ended.
LEMMA SideKeeps ==
  ASSUME IInv, StartSideBySide \/ FinishSideBySide \/ \E m \in Mutations : TakeRerun(m)
  PROVE  IInv'
<1>1. /\ mpc \in {"confirm", "side"} /\ mpc' \in {"side", "done"}
      /\ again' \subseteq again
  BY DEF StartSideBySide, FinishSideBySide, TakeRerun
<1>2. UNCHANGED <<mode, earlier, remaining, unit, seen, newly, scheduled, running, unchecked, removed,
                  handle, timedOut, job>>
  BY DEF StartSideBySide, FinishSideBySide, TakeRerun, loop, runs
<1>3. deferred' \in SUBSET Mutations /\ recorded' \in [Mutations -> Nat]
  BY FinishHolds DEF StartSideBySide, FinishSideBySide, TakeRerun, IInv, TypeOK
<1>4. Active \subseteq Unsafe /\ Testing = {} /\ again \subseteq Unsafe
  <2>1. mpc = "confirm" => Active = {}
    BY DEF IInv, OneInv
  <2>2. Testing \subseteq Active
    BY DEF Active, Testing
  <2> QED BY <2>1, <2>2, <1>1 DEF IInv, SideInv, Confirming
<1>5. /\ run' \in [Mutations -> {"none", "spawned", "testing", "child", "ended"}]
      /\ Active' \subseteq Unsafe /\ Testing' = {}
  <2>1. CASE UNCHANGED run
    BY <2>1, <1>4 DEF IInv, TypeOK, Active, Testing
  <2>2. ASSUME NEW m \in Mutations, TakeRerun(m)
        PROVE  /\ run' \in [Mutations -> {"none", "spawned", "testing", "child", "ended"}]
               /\ Active' \subseteq Unsafe /\ Testing' = {}
    <3>1. m \in Unsafe /\ SpawnRuns({m})
      BY <2>2, <1>4 DEF TakeRerun
    <3>2. /\ run' \in [Mutations -> {"none", "spawned", "testing", "child", "ended"}]
          /\ Active' = Active \cup {m} /\ Testing' \subseteq Testing
      BY <3>1, SpawnHolds
    <3> QED BY <3>1, <3>2, <1>4
  <2> QED BY <2>1, <2>2 DEF StartSideBySide, FinishSideBySide, runs
<1>6. TypeOK'
  BY <1>1, <1>2, <1>3, <1>5 DEF IInv, TypeOK
<1>7. UnitsInv' /\ OneInv' /\ SchedulerInv' /\ PoolInv' /\ Peaceful(handle)'
  BY <1>1, <1>2 DEF IInv, UnitsInv, OneInv, SchedulerInv, PoolInv, Peaceful, Scheduling
<1>8. SideInv'
  BY <1>1, <1>4, <1>5 DEF SideInv
<1> QED BY <1>6, <1>7, <1>8 DEF IInv

-----------------------------------------------------------------------------
\* The invariant holds in every state of the analysis, whichever of the steps of the scheduler, the
\* runs and the pool comes next.
THEOREM Invariance == Spec => []IInv
<1>1. Init => IInv
  BY InitIInv
<1>2. IInv /\ [Next]_vars => IInv'
  <2> SUFFICES ASSUME IInv, [Next]_vars PROVE IInv'
    OBVIOUS
  <2>1. CASE Analysis
    BY <2>1, EvaluateKeeps, UnitOverKeeps, ReadActiveKeeps, ScheduleKeeps, ActivateKeeps,
       SpawnNewlyKeeps, CollectKeeps, PassKeeps, AllEvaluatedKeeps, ConfirmKeeps, SideKeeps
       DEF Analysis
  <2>2. CASE \E m \in Mutations : RunStep(m)
    BY <2>2, RunStepKeeps
  <2>3. CASE \E m \in Mutations : \E p \in Phases : JobStep(m, p)
    BY <2>3, JobStepKeeps
  <2>4. CASE UNCHANGED vars
    <3>1. RunsOnly /\ UNCHANGED <<run, timedOut, job>>
      BY <2>4 DEF vars, RunsOnly, runs
    <3>2. Active' = Active /\ Testing' = Testing
      BY <3>1 DEF Active, Testing
    <3> QED BY <3>1, <3>2, RunsKeep DEF IInv, TypeOK
  <2> QED BY <2>1, <2>2, <2>3, <2>4 DEF Next
<1> QED BY <1>1, <1>2, PTL DEF Spec

\* The mutations whose tests are in this process are in the handle.
LEMMA TestingIsActive ==
  ASSUME IInv
  PROVE  Live \subseteq Testing /\ Testing \subseteq handle
<1>1. Live \subseteq Testing /\ Testing \subseteq Active
  BY DEF Live, Testing, Active
<1>2. CASE mpc \in Scheduling
  BY <1>1, <1>2 DEF IInv, TypeOK, SchedulerInv, InProcessSubstitutions
<1>3. CASE mpc \in {"next", "await", "confirm", "confirming"}
  BY <1>1, <1>3 DEF IInv, OneInv
<1>4. CASE mpc \in {"side", "done"}
  BY <1>1, <1>4 DEF IInv, SideInv
<1> QED BY <1>1, <1>2, <1>3, <1>4 DEF IInv, TypeOK

\* A verdict stands for one mutation (RunsAlongside, the batches, active_mutant_handle.replace).
THEOREM NoConflicts == Spec => []NoConflictingTests
<1>1. IInv => NoConflictingTests
  BY TestingIsActive DEF NoConflictingTests, Peaceful, IInv
<1> QED BY <1>1, Invariance, PTL

\* The handle holds every live test's mutation, and no more mutants are under way than the pool has
\* threads (run_mutation_analysis, harness/scheduling.rs).
THEOREM ActiveHolds == Spec => []LiveTestsAreActive
<1>1. IInv => LiveTestsAreActive
  BY TestingIsActive DEF LiveTestsAreActive, IInv, PoolInv
<1> QED BY <1>1, Invariance, PTL

\* A mutation that timed out runs again alone in this process (evaluate_alone).
THEOREM ConfirmsAlone == Spec => []ConfirmedAlone
<1>1. IInv => ConfirmedAlone
  <2> SUFFICES ASSUME IInv, Confirming PROVE Cardinality(Live) <= 1
    BY DEF ConfirmedAlone
  <2>1. Live \subseteq Testing /\ Testing \subseteq Active
    BY DEF Live, Testing, Active
  <2>2. Live = {} \/ \E m \in Mutations : Live \subseteq {m}
    <3>1. CASE mpc = "confirming"
      BY <2>1, <3>1 DEF IInv, OneInv
    <3>2. CASE mpc = "confirm"
      BY <2>1, <3>2 DEF IInv, OneInv
    <3>3. CASE mpc \in {"side", "done"}
      BY <2>1, <3>3 DEF IInv, SideInv
    <3> QED BY <3>1, <3>2, <3>3 DEF Confirming
  <2>3. CASE Live = {}
    BY <2>3, FS_EmptySet
  <2>4. ASSUME NEW m \in Mutations, Live \subseteq {m}
        PROVE  Cardinality(Live) <= 1
    <3>1. IsFiniteSet({m}) /\ Cardinality({m}) = 1
      BY FS_Singleton
    <3>2. Cardinality(Live) <= Cardinality({m})
      BY <2>4, <3>1, FS_Subset
    <3> QED BY <3>1, <3>2
  <2> QED BY <2>2, <2>3, <2>4
<1> QED BY <1>1, Invariance, PTL
=============================================================================
