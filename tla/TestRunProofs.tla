----------------------------- MODULE TestRunProofs -----------------------------
(***************************************************************************)
(* Whatever tests a run is given and however their threads, limits and     *)
(* completions interleave: its verdicts follow from its results, it drops  *)
(* no test without account, and it keeps its contract.                     *)
(***************************************************************************)
EXTENDS TestRun, TLAPS

Results == {"Ok", "Failed", "Crashed", "TimedOut"}

TypeOK ==
    /\ exhaustive \in BOOLEAN /\ poolSize \in PoolSizes
    /\ strategy \in {"in_process", "child"}
    /\ rpc \in {"start", "allocate", "abandon", "receive", "join", "ending", "returned", "incomplete"}
    /\ remaining \in Seq(Tests)
    /\ {running, lingering, unstarted, due, overdue} \subseteq SUBSET Tests
    /\ cur \in Tests \cup {NoTest}
    /\ thread \in [Tests -> {"none", "queued", "waiting", "running", "sent", "finished"}]
    /\ channel \in Seq([test : Tests, result : Results])
    /\ perTest \in [Tests -> Results \cup {NoResult}]
    /\ verdict \in [Mutations -> {"Undetected", "Detected", "Crashed", "TimedOut"}]

\* The tests of the phase, and the one whose thread the scheduler waits for.
PhaseTests == IF InProcess THEN Tests \ ChildTests ELSE ChildTests
Allocated == IF rpc = "allocate" THEN {cur} ELSE {}

\* A test is queued, waits for a thread, runs, or was given up, and only a test that is over has
\* a result.
PlaceInv ==
    /\ IsInjective(remaining)
    /\ ToSet(remaining) \subseteq {t \in PhaseTests : thread[t] = "none"}
    /\ Allocated \subseteq {t \in PhaseTests : thread[t] \in {"queued", "waiting"}}
    /\ running \subseteq {t \in PhaseTests \ lingering : thread[t] \in {"running", "sent", "finished"}}
    /\ lingering \subseteq {t \in Tests \ ChildTests : thread[t] \in {"running", "sent", "finished"}}
    /\ due \subseteq running /\ (due # {} => InProcess /\ rpc \in {"abandon", "ending"})
    /\ \A t \in running : perTest[t] = NoResult
    /\ \A t \in Tests :
          /\ thread[t] = "none" => perTest[t] = NoResult
          /\ thread[t] \in {"queued", "waiting"} => t \in Allocated /\ perTest[t] = NoResult
          /\ thread[t] \in {"running", "sent"} => t \in running \cup lingering
    /\ InProcess => \A t \in ChildTests : thread[t] = "none"

\* What the scheduler is about to join has sent its completion; only a child process crashes.
ChannelInv ==
    /\ rpc = "join" => cur \in running /\ channel # <<>> /\ Head(channel).test = cur
    /\ \A i \in DOMAIN channel : channel[i].result = "Crashed" => channel[i].test \in ChildTests
    /\ \A t \in Tests : perTest[t] = "Crashed" => t \in ChildTests

\* A test of the phase is accounted for, or is still queued or runs; those of the first phase are
\* accounted for once it is over, or handed back.
AccountInv ==
    /\ \A t \in ToSet(remaining) : ~DetectedBefore(t)
    /\ rpc \notin {"returned", "incomplete"} =>
          Unaccounted \cap PhaseTests \subseteq ToSet(remaining) \cup Allocated \cup running
    /\ InProcess => rpc \notin {"returned", "incomplete"}
    /\ ~InProcess =>
          /\ Unaccounted \ ChildTests \subseteq unstarted
          /\ rpc = "abandon" /\ running = {} => remaining = <<>>
    /\ rpc = "ending" => Unaccounted = {} \/ (running = {} /\ (InProcess \/ remaining = <<>>))

IInv == TypeOK /\ PlaceInv /\ ChannelInv /\ AccountInv /\ VerdictHasWitness /\ NothingLost

-----------------------------------------------------------------------------
(* Results and verdicts. *)

\* A test of the mutation has this result.
Witnessed(m, r) == \E t \in Tests : MutationOf[t] = m /\ perTest[t] = r

Agrees(m) ==
    /\ verdict[m] = "Detected" <=> Witnessed(m, "Failed")
    /\ verdict[m] = "Undetected" <=>
          ~(Witnessed(m, "Failed") \/ Witnessed(m, "Crashed") \/ Witnessed(m, "TimedOut"))
    /\ verdict[m] \in {"Crashed", "TimedOut"} => Witnessed(m, verdict[m])

\* The property, in terms of the tests that witness a verdict.
LEMMA WitnessForm == TypeOK => (VerdictHasWitness <=> \A m \in Mutations : Agrees(m))
<1> SUFFICES ASSUME TypeOK, NEW m \in Mutations
             PROVE  (LET results == {perTest[t] : t \in {u \in Tests : MutationOf[u] = m}}
                     IN  /\ verdict[m] = "Detected" <=> "Failed" \in results
                         /\ verdict[m] = "Undetected" <=> results \cap {"Failed", "Crashed", "TimedOut"} = {}
                         /\ verdict[m] \in results \cup {"Undetected", "Detected"}) <=> Agrees(m)
  BY DEF VerdictHasWitness
<1> DEFINE results == {perTest[t] : t \in {u \in Tests : MutationOf[u] = m}}
<1>1. \A r : r \in results <=> Witnessed(m, r)
  BY DEF Witnessed
<1>2. verdict[m] \in {"Undetected", "Detected", "Crashed", "TimedOut"}
  BY DEF TypeOK
<1> HIDE DEF results
<1>3. /\ (results \cap {"Failed", "Crashed", "TimedOut"} = {}) <=>
            ~("Failed" \in results \/ "Crashed" \in results \/ "TimedOut" \in results)
      /\ verdict[m] \in results \cup {"Undetected", "Detected"} <=>
            (verdict[m] \in {"Crashed", "TimedOut"} => verdict[m] \in results)
  BY <1>2
<1>4. (/\ verdict[m] = "Detected" <=> "Failed" \in results
       /\ verdict[m] = "Undetected" <=> results \cap {"Failed", "Crashed", "TimedOut"} = {}
       /\ verdict[m] \in results \cup {"Undetected", "Detected"}) <=> Agrees(m)
  BY <1>1, <1>3 DEF Agrees
<1> QED BY <1>4 DEF results

\* The same, after a step.
LEMMA WitnessFormNext ==
  TypeOK' => (VerdictHasWitness' <=> (\A m \in Mutations : Agrees(m))')
<1> QED BY WitnessForm, PTL

\* The verdicts that the callback of harness::run_tests makes of a result.
LEMMA JudgedHolds ==
  ASSUME NEW v, NEW r \in Results
  PROVE  /\ r = "Ok" => Judged(v, r) = v
         /\ r = "Failed" => Judged(v, r) = "Detected"
         /\ r \in {"Crashed", "TimedOut"} => Judged(v, r) = IF v = "Detected" THEN v ELSE r
<1>1. Judged(v, r) = CASE r = "Ok" -> v
                       [] r = "Failed" -> "Detected"
                       [] r \in {"Crashed", "TimedOut"} -> IF v = "Detected" THEN v ELSE r
  BY DEF Judged
<1> QED BY <1>1 DEF Results

\* A verdict in which nothing is open has a failure or a timeout behind it.
AllSettled == ~exhaustive /\ \A m \in Mutations : verdict[m] \in Settled

\* So that every test is accounted for.
LEMMA SettledHolds == TypeOK /\ VerdictHasWitness /\ AllSettled => Unaccounted = {}
<1> SUFFICES ASSUME TypeOK, VerdictHasWitness, AllSettled, NEW t \in Tests
             PROVE  DetectedBefore(t)
  BY DEF Unaccounted
<1> USE DEF AllSettled
<1>1. MutationOf[t] \in Mutations
  BY TestRunAssumption
<1>2. Agrees(MutationOf[t])
  BY <1>1, WitnessForm
<1>3. Witnessed(MutationOf[t], "Failed") \/ Witnessed(MutationOf[t], "TimedOut")
  BY <1>1, <1>2 DEF Agrees, Settled
<1> QED BY <1>3 DEF Witnessed, DetectedBefore

\* The same, after a step.
LEMMA SettledHoldsNext == TypeOK' /\ VerdictHasWitness' /\ AllSettled' => (Unaccounted = {})'
<1> QED BY SettledHolds, PTL

\* A result is added to the verdict of its mutation, and what it settles is not run.
LEMMA ReportHolds ==
  ASSUME IInv, NEW t \in Tests, NEW r \in Results, NEW next, Report(t, r, next),
         perTest[t] = NoResult, t \notin ToSet(remaining)
  PROVE  /\ perTest' \in [Tests -> Results \cup {NoResult}]
         /\ perTest'[t] = r /\ \A u \in Tests : u # t => perTest'[u] = perTest[u]
         /\ verdict' \in [Mutations -> {"Undetected", "Detected", "Crashed", "TimedOut"}]
         /\ \A m \in Mutations : Agrees(m)'
         /\ remaining' \in Seq(Tests) /\ IsInjective(remaining')
         /\ ToSet(remaining') \subseteq ToSet(remaining)
         /\ \A u \in ToSet(remaining') : ~DetectedBefore(u)'
         /\ Unaccounted' \subseteq Unaccounted \ {t}
         /\ Unaccounted' \cap ToSet(remaining) \subseteq ToSet(remaining')
         /\ rpc' = next \/ (rpc' = "ending" /\ ~exhaustive /\ \A m \in Mutations : verdict'[m] \in Settled)
         /\ UNCHANGED <<exhaustive, poolSize, strategy, unstarted>>
<1> DEFINE settles == ~exhaustive /\ r \in {"Failed", "TimedOut"}
<1>1. /\ perTest' = [perTest EXCEPT ![t] = r]
      /\ verdict' = [verdict EXCEPT ![MutationOf[t]] = Judged(verdict[MutationOf[t]], r)]
      /\ remaining' = IF settles THEN Retained(t) ELSE remaining
      /\ rpc' = next \/ (rpc' = "ending" /\ ~exhaustive /\ \A m \in Mutations : verdict'[m] \in Settled)
      /\ UNCHANGED <<exhaustive, poolSize, strategy, unstarted>>
  BY DEF Report, options
<1>2. /\ perTest' \in [Tests -> Results \cup {NoResult}]
      /\ perTest'[t] = r /\ \A u \in Tests : u # t => perTest'[u] = perTest[u]
  BY <1>1 DEF IInv, TypeOK
<1> DEFINE n == MutationOf[t]
<1>3. n \in Mutations /\ NoResult \notin Results
  BY TestRunAssumption DEF Results
<1>4. /\ verdict'[n] = Judged(verdict[n], r) /\ \A m \in Mutations : m # n => verdict'[m] = verdict[m]
      /\ verdict[n] \in {"Undetected", "Detected", "Crashed", "TimedOut"}
  BY <1>1, <1>3 DEF IInv, TypeOK
<1>5. verdict'[n] \in {"Undetected", "Detected", "Crashed", "TimedOut"}
  BY <1>4, JudgedHolds DEF Results
<1>6. verdict' \in [Mutations -> {"Undetected", "Detected", "Crashed", "TimedOut"}]
  BY <1>1, <1>5, <1>3, <1>4 DEF IInv, TypeOK
<1>7. ASSUME NEW m \in Mutations
      PROVE  Agrees(m)'
  <2>1. Agrees(m)
    BY WitnessForm DEF IInv
  <2>2. \A x \in Results : Witnessed(m, x)' <=> Witnessed(m, x) \/ (m = n /\ x = r)
    BY <1>2, <1>3 DEF Witnessed
  <2> HIDE DEF n
  <2>3. CASE m # n
    BY <2>1, <2>2, <2>3, <1>4 DEF Agrees, Results
  <2>4. CASE m = n
    <3>1. verdict'[m] = Judged(verdict[m], r)
      BY <2>4, <1>4
    <3>2. CASE r = "Ok"
      BY <3>1, <3>2, <2>1, <2>2, JudgedHolds DEF Agrees, Results
    <3>3. CASE r = "Failed"
      BY <3>1, <3>3, <2>1, <2>2, <2>4, JudgedHolds DEF Agrees, Results
    <3>4. CASE r = "Crashed"
      BY <3>1, <3>4, <2>1, <2>2, <2>4, JudgedHolds DEF Agrees, Results
    <3>5. CASE r = "TimedOut"
      BY <3>1, <3>5, <2>1, <2>2, <2>4, JudgedHolds DEF Agrees, Results
    <3> QED BY <3>2, <3>3, <3>4, <3>5 DEF Results
  <2> QED BY <2>3, <2>4
<1>8. /\ remaining' \in Seq(Tests) /\ IsInjective(remaining')
      /\ ToSet(remaining') \subseteq ToSet(remaining)
      /\ ToSet(remaining) \subseteq Tests
      /\ settles => ToSet(remaining') = ToSet(remaining) \cap {u \in Tests : MutationOf[u] # n}
      /\ ~settles => ToSet(remaining') = ToSet(remaining)
  <2>1. remaining \in Seq(Tests) /\ IsInjective(remaining)
    BY DEF IInv, TypeOK, PlaceInv
  <2>2. /\ Retained(t) \in Seq(Tests) /\ IsInjective(Retained(t))
        /\ ToSet(Retained(t)) = ToSet(remaining) \cap {u \in Tests : MutationOf[u] # n}
    BY <2>1, KeepKeeps DEF Retained
  <2>3. ToSet(remaining) \subseteq Tests
    BY <2>1 DEF ToSet
  <2> QED BY <2>1, <2>2, <2>3, <1>1
<1>9. \A u \in Tests : DetectedBefore(u)' <=> DetectedBefore(u) \/ (settles /\ MutationOf[u] = n)
  BY <1>1, <1>2, <1>3 DEF DetectedBefore, Results
<1>10. \A u \in ToSet(remaining') : ~DetectedBefore(u)'
  <2>1. \A u \in ToSet(remaining) : ~DetectedBefore(u)
    BY DEF IInv, AccountInv
  <2> QED BY <2>1, <1>8, <1>9
<1>11. Unaccounted' \subseteq Unaccounted \ {t}
  <2>1. perTest'[t] # NoResult
    BY <1>2, <1>3
  <2> QED BY <2>1, <1>2, <1>9 DEF Unaccounted
<1>12. Unaccounted' \cap ToSet(remaining) \subseteq ToSet(remaining')
  BY <1>8, <1>9 DEF Unaccounted
<1> QED BY <1>1, <1>2, <1>6, <1>7, <1>8, <1>10, <1>11, <1>12

-----------------------------------------------------------------------------
\* A run begins with every in-process test queued.
LEMMA InitIInv == Init => IInv
<1> SUFFICES ASSUME Init PROVE IInv
  OBVIOUS
<1>1. /\ exhaustive \in BOOLEAN /\ poolSize \in PoolSizes /\ strategy = "in_process" /\ rpc = "start"
      /\ remaining = Keep(Queue, Tests \ ChildTests)
      /\ running = {} /\ lingering = {} /\ unstarted = {} /\ due = {} /\ overdue = {} /\ cur = NoTest
      /\ thread = [t \in Tests |-> "none"] /\ channel = <<>>
      /\ perTest = [t \in Tests |-> NoResult] /\ verdict = [m \in Mutations |-> "Undetected"]
  BY DEF Init
<1>2. /\ remaining \in Seq(Tests) /\ IsInjective(remaining)
      /\ ToSet(remaining) = Tests \ ChildTests
  <2>1. Queue \in Seq(Tests) /\ ToSet(Queue) = Tests /\ IsInjective(Queue)
    BY TestRunAssumption
  <2> QED BY <2>1, <1>1, KeepKeeps
<1>3. NoResult \notin Results
  BY TestRunAssumption DEF Results
<1>4. TypeOK
  BY <1>1, <1>2 DEF TypeOK
<1>5. PlaceInv /\ ChannelInv
  <2>1. PhaseTests = Tests \ ChildTests /\ Allocated = {} /\ ChildTests \subseteq Tests
    BY <1>1, TestRunAssumption DEF PhaseTests, InProcess, Allocated
  <2>2. PlaceInv
    BY <2>1, <1>1, <1>2 DEF PlaceInv
  <2>3. ChannelInv
    BY <1>1, <1>3 DEF ChannelInv, Results
  <2> QED BY <2>2, <2>3
<1>6. \A t \in Tests : ~DetectedBefore(t)
  BY <1>1, <1>3 DEF DetectedBefore, Results
<1>7. AccountInv /\ NothingLost
  BY <1>1, <1>2, <1>6 DEF AccountInv, NothingLost, PhaseTests, InProcess, Unaccounted
<1>8. \A m \in Mutations : Agrees(m)
  BY <1>1, <1>3 DEF Agrees, Witnessed, Results
<1>9. VerdictHasWitness
  BY <1>4, <1>8, WitnessForm
<1> QED BY <1>4, <1>5, <1>7, <1>9 DEF IInv

\* A step that reports no result leaves the verdicts and what was detected as they are.
LEMMA UnreportedKeeps ==
  ASSUME IInv, UNCHANGED <<options, perTest, verdict>>
  PROVE  /\ VerdictHasWitness'
         /\ Unaccounted' = Unaccounted
         /\ \A t : DetectedBefore(t)' = DetectedBefore(t)
<1>1. UNCHANGED <<exhaustive, perTest, verdict>>
  BY DEF options
<1>2. VerdictHasWitness'
  BY <1>1 DEF IInv, VerdictHasWitness
<1>3. \A t : DetectedBefore(t)' = DetectedBefore(t)
  BY <1>1 DEF DetectedBefore
<1> QED BY <1>1, <1>2, <1>3 DEF Unaccounted

-----------------------------------------------------------------------------
(* The scheduler. *)

\* The next test of the queue gets a thread.
LEMMA StartKeeps ==
  ASSUME IInv, StartTest
  PROVE  IInv'
<1> DEFINE t == Head(remaining)
<1>1. /\ rpc = "start" /\ remaining # <<>> /\ remaining' = Tail(remaining) /\ cur' = t
      /\ thread' = [thread EXCEPT ![t] = IF Pooled THEN "queued" ELSE "waiting"]
      /\ rpc' = "allocate"
      /\ UNCHANGED <<options, strategy, unstarted, perTest, verdict, running, lingering, due,
                     overdue, channel>>
  BY DEF StartTest, MayStart
<1>2. remaining \in Seq(Tests) /\ IsInjective(remaining)
  BY DEF IInv, TypeOK, PlaceInv
<1>3. /\ t \in Tests /\ remaining' \in Seq(Tests) /\ IsInjective(remaining')
      /\ ToSet(remaining) = ToSet(remaining') \cup {t} /\ t \notin ToSet(remaining')
  BY <1>1, <1>2, PopLeaves
<1>4. /\ t \in PhaseTests /\ thread[t] = "none" /\ perTest[t] = NoResult
      /\ t \notin running /\ t \notin lingering
  BY <1>3 DEF IInv, PlaceInv
<1> HIDE DEF t
<1>5. /\ thread' \in [Tests -> {"none", "queued", "waiting", "running", "sent", "finished"}]
      /\ thread'[t] \in {"queued", "waiting"}
      /\ \A u \in Tests : u # t => thread'[u] = thread[u]
  BY <1>1, <1>3 DEF IInv, TypeOK
<1>6. Allocated = {} /\ Allocated' = {t}
  BY <1>1 DEF Allocated
<1>7. UNCHANGED <<exhaustive, poolSize>> /\ PhaseTests' = PhaseTests /\ InProcess' = InProcess
  BY <1>1 DEF options, PhaseTests, InProcess
<1>8. TypeOK'
  BY <1>1, <1>3, <1>5, <1>7 DEF IInv, TypeOK
<1>9. PlaceInv'
  <2>1. /\ running \subseteq Tests /\ lingering \subseteq Tests
        /\ ChildTests \subseteq Tests /\ PhaseTests \subseteq Tests
    BY TestRunAssumption DEF IInv, TypeOK, PhaseTests
  <2>2. ToSet(remaining') \subseteq {u \in PhaseTests : thread'[u] = "none"}
    BY <1>3, <1>5, <2>1 DEF IInv, PlaceInv
  <2>3. \A u \in Tests :
          /\ thread'[u] = "none" => perTest[u] = NoResult
          /\ thread'[u] \in {"queued", "waiting"} => u \in {t} /\ perTest[u] = NoResult
          /\ thread'[u] \in {"running", "sent"} => u \in running \cup lingering
    BY <1>4, <1>5, <1>6 DEF IInv, PlaceInv
  <2>4. running \subseteq {u \in PhaseTests \ lingering : thread'[u] \in {"running", "sent", "finished"}}
    BY <1>4, <1>5, <2>1 DEF IInv, PlaceInv
  <2>5. lingering \subseteq {u \in Tests \ ChildTests : thread'[u] \in {"running", "sent", "finished"}}
    BY <1>4, <1>5, <2>1 DEF IInv, PlaceInv
  <2>6. InProcess => \A u \in ChildTests : thread'[u] = "none"
    BY <1>4, <1>5, <2>1 DEF IInv, PlaceInv, PhaseTests
  <2>7. due = {} /\ \A u \in running : perTest[u] = NoResult
    BY <1>1 DEF IInv, PlaceInv
  <2> QED BY <2>2, <2>3, <2>4, <2>5, <2>6, <2>7, <1>1, <1>3, <1>4, <1>5, <1>6, <1>7 DEF PlaceInv
<1>10. ChannelInv'
  BY <1>1 DEF IInv, ChannelInv
<1>11. AccountInv' /\ NothingLost' /\ VerdictHasWitness'
  BY <1>1, <1>3, <1>6, <1>7, UnreportedKeeps DEF IInv, AccountInv, NothingLost
<1> QED BY <1>8, <1>9, <1>10, <1>11 DEF IInv

\* The scheduler goes on once the thread has its test.
LEMMA StartedKeeps ==
  ASSUME IInv, Started
  PROVE  IInv'
<1>1. /\ rpc = "allocate" /\ thread[cur] = "waiting" /\ running' = running \cup {cur}
      /\ thread' = [thread EXCEPT ![cur] = "running"] /\ cur' = NoTest /\ rpc' = "start"
      /\ UNCHANGED <<exhaustive, poolSize, strategy, remaining, unstarted, perTest, verdict, lingering,
                     due, overdue, channel>>
  BY DEF Started, scheduler, options
<1>2. Allocated = {cur} /\ Allocated' = {}
  BY <1>1 DEF Allocated
<1>3. /\ cur \in PhaseTests /\ cur \in Tests /\ cur \notin running /\ cur \notin lingering
      /\ cur \notin ToSet(remaining) /\ perTest[cur] = NoResult
  BY <1>1, <1>2, TestRunAssumption DEF IInv, PlaceInv, PhaseTests
<1>4. /\ thread' \in [Tests -> {"none", "queued", "waiting", "running", "sent", "finished"}]
      /\ thread'[cur] = "running" /\ \A u \in Tests : u # cur => thread'[u] = thread[u]
  BY <1>1, <1>3 DEF IInv, TypeOK
<1>5. PhaseTests' = PhaseTests /\ InProcess' = InProcess
  BY <1>1 DEF PhaseTests, InProcess
<1>6. TypeOK'
  BY <1>1, <1>3, <1>4 DEF IInv, TypeOK
<1>7. PlaceInv'
  <2>1. /\ running \subseteq Tests /\ lingering \subseteq Tests
        /\ ChildTests \subseteq Tests /\ PhaseTests \subseteq Tests
    BY TestRunAssumption DEF IInv, TypeOK, PhaseTests
  <2>2. ToSet(remaining) \subseteq {u \in PhaseTests : thread'[u] = "none"}
    BY <1>3, <1>4, <2>1 DEF IInv, PlaceInv
  <2>3. \A u \in Tests :
          /\ thread'[u] = "none" => perTest[u] = NoResult
          /\ thread'[u] \notin {"queued", "waiting"}
          /\ thread'[u] \in {"running", "sent"} => u \in running' \cup lingering
    BY <1>1, <1>2, <1>4 DEF IInv, PlaceInv
  <2>4. running' \subseteq {u \in PhaseTests \ lingering : thread'[u] \in {"running", "sent", "finished"}}
    BY <1>1, <1>3, <1>4, <2>1 DEF IInv, PlaceInv
  <2>5. lingering \subseteq {u \in Tests \ ChildTests : thread'[u] \in {"running", "sent", "finished"}}
    BY <1>3, <1>4, <2>1 DEF IInv, PlaceInv
  <2>6. InProcess => \A u \in ChildTests : thread'[u] = "none"
    BY <1>3, <1>4, <2>1 DEF IInv, PlaceInv, PhaseTests
  <2>7. due = {} /\ \A u \in running' : perTest[u] = NoResult
    BY <1>1, <1>3 DEF IInv, PlaceInv
  <2> QED BY <2>2, <2>3, <2>4, <2>5, <2>6, <2>7, <1>1, <1>2, <1>5 DEF IInv, PlaceInv
<1>8. ChannelInv'
  BY <1>1 DEF IInv, ChannelInv
<1>9. AccountInv' /\ NothingLost' /\ VerdictHasWitness'
  BY <1>1, <1>2, <1>5, UnreportedKeeps DEF IInv, AccountInv, NothingLost, options
<1> QED BY <1>6, <1>7, <1>8, <1>9 DEF IInv

\* The steps of the scheduler that only look at what the threads did.
LEMMA LookKeeps ==
  ASSUME IInv, CollectOverdue \/ AwaitNext \/ Receive \/ LimitComesDue
  PROVE  IInv'
<1>1. UNCHANGED <<exhaustive, poolSize, strategy, remaining, unstarted, perTest, verdict, running,
                  lingering, thread, overdue>>
  BY DEF CollectOverdue, AwaitNext, Receive, LimitComesDue, scheduler, options
<1>2. /\ rpc \in {"start", "abandon", "receive"}
      /\ rpc' \in {"start", "abandon", "receive", "join", "ending"}
      /\ due' \subseteq running /\ (due' # {} => InProcess /\ rpc' = "abandon")
  BY DEF CollectOverdue, AwaitNext, Receive, LimitComesDue, OverdueInProcess, IInv, PlaceInv
<1>3. Allocated = {} /\ Allocated' = {}
  BY <1>2 DEF Allocated
<1>4. PhaseTests' = PhaseTests /\ InProcess' = InProcess
  BY <1>1 DEF PhaseTests, InProcess
<1>5. /\ channel' = channel \/ (channel # <<>> /\ channel' = Tail(channel))
      /\ cur' = cur \/ cur' \in running
      /\ rpc' = "join" => cur' \in running /\ channel' # <<>> /\ Head(channel').test = cur'
  BY <1>2 DEF CollectOverdue, AwaitNext, Receive, LimitComesDue
<1>6. /\ channel' \in Seq([test : Tests, result : Results])
      /\ \A i \in DOMAIN channel' : channel'[i].result = "Crashed" => channel'[i].test \in ChildTests
  <2>1. channel \in Seq([test : Tests, result : Results])
    BY DEF IInv, TypeOK
  <2>2. \A i \in DOMAIN channel : channel[i].result = "Crashed" => channel[i].test \in ChildTests
    BY DEF IInv, ChannelInv
  <2>3. channel # <<>> => /\ Tail(channel) \in Seq([test : Tests, result : Results])
                          /\ \A i \in DOMAIN Tail(channel) :
                                i + 1 \in DOMAIN channel /\ Tail(channel)[i] = channel[i + 1]
    BY <2>1, PopLeaves
  <2> QED BY <2>1, <2>2, <2>3, <1>5
<1>7. TypeOK'
  <2>1. running \subseteq Tests
    BY DEF IInv, TypeOK
  <2> QED BY <2>1, <1>1, <1>2, <1>5, <1>6 DEF IInv, TypeOK
<1>8. PlaceInv'
  BY <1>1, <1>2, <1>3, <1>4 DEF IInv, PlaceInv
<1>9. ChannelInv'
  BY <1>1, <1>5, <1>6 DEF IInv, ChannelInv
<1>10. AccountInv' /\ NothingLost' /\ VerdictHasWitness'
  <2>1. /\ VerdictHasWitness' /\ Unaccounted' = Unaccounted
        /\ \A t : DetectedBefore(t)' = DetectedBefore(t)
    BY <1>1, UnreportedKeeps DEF options
  <2>2. ~InProcess /\ rpc' = "abandon" /\ running = {} => remaining = <<>>
    <3>1. SUFFICES ASSUME CollectOverdue, running = {} PROVE remaining = <<>>
      BY <1>2 DEF AwaitNext, Receive, LimitComesDue
    <3>2. ~(Cardinality(running) < Concurrency /\ remaining # <<>>)
      BY <3>1 DEF CollectOverdue, MayStart
    <3>3. running = {} => Cardinality(running) < Concurrency
      BY FS_EmptySet, TestRunAssumption
    <3> QED BY <3>1, <3>2, <3>3
  <2>3. rpc' = "ending" => running = {} /\ (InProcess \/ remaining = <<>>)
    <3>1. SUFFICES ASSUME AwaitNext, running = {} PROVE InProcess \/ remaining = <<>>
      BY <1>2 DEF CollectOverdue, AwaitNext, Receive, LimitComesDue
    <3> QED BY <3>1 DEF AwaitNext, IInv, AccountInv
  <2> QED BY <2>1, <2>2, <2>3, <1>1, <1>2, <1>3, <1>4 DEF IInv, AccountInv, NothingLost
<1> QED BY <1>7, <1>8, <1>9, <1>10 DEF IInv

\* A running test that gets its result is no longer waited for.
LEMMA OverFrame ==
  ASSUME IInv, NEW t \in running, NEW r \in Results, NEW next \in {"start", "abandon"},
         Report(t, r, next), running' = running \ {t}, lingering' \in {lingering, lingering \cup {t}},
         due' \subseteq running', due' # {} => InProcess /\ rpc = "abandon", UNCHANGED <<thread, overdue>>,
         lingering' = lingering \cup {t} \/ thread[t] = "finished",
         lingering' = lingering \/ InProcess,
         r = "Crashed" => t \in ChildTests,
         cur' \in Tests \cup {NoTest},
         channel' \in Seq([test : Tests, result : Results]),
         \A i \in DOMAIN channel' : channel'[i].result = "Crashed" => channel'[i].test \in ChildTests,
         rpc \notin {"allocate", "ending", "returned", "incomplete"},
         IF rpc = "abandon" THEN InProcess /\ next = "abandon" ELSE next = "start"
  PROVE  IInv'
<1>1. t \in Tests /\ running \subseteq Tests /\ lingering \subseteq Tests /\ ChildTests \subseteq Tests
  BY TestRunAssumption DEF IInv, TypeOK
<1>2. /\ t \in PhaseTests /\ t \notin lingering /\ thread[t] \in {"running", "sent", "finished"}
      /\ perTest[t] = NoResult /\ t \notin ToSet(remaining)
  BY DEF IInv, PlaceInv
<1>3. /\ perTest' \in [Tests -> Results \cup {NoResult}]
      /\ perTest'[t] = r /\ \A u \in Tests : u # t => perTest'[u] = perTest[u]
      /\ verdict' \in [Mutations -> {"Undetected", "Detected", "Crashed", "TimedOut"}]
      /\ \A m \in Mutations : Agrees(m)'
      /\ remaining' \in Seq(Tests) /\ IsInjective(remaining')
      /\ ToSet(remaining') \subseteq ToSet(remaining)
      /\ \A u \in ToSet(remaining') : ~DetectedBefore(u)'
      /\ Unaccounted' \subseteq Unaccounted \ {t}
      /\ Unaccounted' \cap ToSet(remaining) \subseteq ToSet(remaining')
      /\ rpc' = next \/ (rpc' = "ending" /\ ~exhaustive /\ \A m \in Mutations : verdict'[m] \in Settled)
      /\ UNCHANGED <<exhaustive, poolSize, strategy, unstarted>>
  BY <1>1, <1>2, ReportHolds
<1>4. PhaseTests' = PhaseTests /\ InProcess' = InProcess
  BY <1>3 DEF PhaseTests, InProcess
<1>5. Allocated = {} /\ Allocated' = {} /\ rpc' \in {"start", "abandon", "ending"}
  BY <1>3 DEF Allocated
<1>6. TypeOK'
  <2>1. {running, lingering, unstarted, due, overdue}' \subseteq SUBSET Tests
    BY <1>1, <1>3 DEF IInv, TypeOK
  <2> QED BY <2>1, <1>3, <1>5 DEF IInv, TypeOK
<1>7. VerdictHasWitness'
  BY <1>3, <1>6, WitnessFormNext
<1>8. PlaceInv'
  <2>1. ToSet(remaining') \subseteq {u \in PhaseTests : thread[u] = "none"}
    BY <1>3 DEF IInv, PlaceInv
  <2>2. running' \subseteq {u \in PhaseTests \ lingering' : thread[u] \in {"running", "sent", "finished"}}
    BY DEF IInv, PlaceInv
  <2>3. lingering' \subseteq {u \in Tests \ ChildTests : thread[u] \in {"running", "sent", "finished"}}
    BY <1>2 DEF IInv, PlaceInv, PhaseTests
  <2>4. \A u \in Tests :
          /\ thread[u] = "none" => perTest'[u] = NoResult
          /\ thread[u] \notin {"queued", "waiting"}
          /\ thread[u] \in {"running", "sent"} => u \in running' \cup lingering'
    <3> SUFFICES ASSUME NEW u \in Tests
                 PROVE  /\ thread[u] = "none" => perTest'[u] = NoResult
                        /\ thread[u] \notin {"queued", "waiting"}
                        /\ thread[u] \in {"running", "sent"} => u \in running' \cup lingering'
      OBVIOUS
    <3>1. CASE u = t
      BY <3>1, <1>2
    <3>2. CASE u # t
      BY <3>2, <1>3, <1>5 DEF IInv, PlaceInv
    <3> QED BY <3>1, <3>2
  <2>5. InProcess => \A u \in ChildTests : thread[u] = "none"
    BY DEF IInv, PlaceInv
  <2>6. /\ \A u \in running' : perTest'[u] = NoResult
        /\ due' # {} => InProcess /\ rpc' \in {"abandon", "ending"}
    BY <1>1, <1>3 DEF IInv, PlaceInv
  <2> QED BY <2>1, <2>2, <2>3, <2>4, <2>5, <2>6, <1>3, <1>4, <1>5 DEF PlaceInv
<1>9. ChannelInv'
  BY <1>1, <1>3, <1>5 DEF IInv, ChannelInv
<1>10. AccountInv' /\ NothingLost'
  <2>1. Unaccounted' \cap PhaseTests \subseteq ToSet(remaining') \cup running'
    BY <1>3, <1>5 DEF IInv, AccountInv
  <2>2. rpc' = "ending" => Unaccounted' = {}
    <3>1. SUFFICES ASSUME ~exhaustive, \A m \in Mutations : verdict'[m] \in Settled
                   PROVE  Unaccounted' = {}
      BY <1>3
    <3> QED BY <3>1, <1>3, <1>6, <1>7, SettledHoldsNext DEF AllSettled
  <2>3. ~InProcess => Unaccounted' \ ChildTests \subseteq unstarted /\ rpc' # "abandon"
    BY <1>3 DEF IInv, AccountInv
  <2> QED BY <2>1, <2>2, <2>3, <1>3, <1>4, <1>5 DEF AccountInv, NothingLost
<1> QED BY <1>6, <1>7, <1>8, <1>9, <1>10 DEF IInv

\* A test past its limit is given up.
LEMMA AbandonKeeps ==
  ASSUME IInv, NEW t \in Tests, AbandonTimedOut(t)
  PROVE  IInv'
<1>1. /\ rpc = "abandon" /\ t \in due /\ due' = due \ {t} /\ running' = running \ {t}
      /\ lingering' = lingering \cup {t} /\ Report(t, "TimedOut", "abandon")
      /\ UNCHANGED <<cur, thread, overdue, channel>>
  BY DEF AbandonTimedOut
<1>2. t \in running /\ due' \subseteq running' /\ InProcess
  BY <1>1 DEF IInv, PlaceInv, AccountInv
<1>3. /\ cur' \in Tests \cup {NoTest} /\ channel' \in Seq([test : Tests, result : Results])
      /\ \A i \in DOMAIN channel' : channel'[i].result = "Crashed" => channel'[i].test \in ChildTests
  BY <1>1 DEF IInv, TypeOK, ChannelInv
<1>4. "TimedOut" \in Results
  BY DEF Results
<1> QED BY <1>1, <1>2, <1>3, <1>4, OverFrame

\* A test whose completion came first is joined.
LEMMA JoinKeeps ==
  ASSUME IInv, Join
  PROVE  IInv'
<1> DEFINE r == Joined(cur, Head(channel).result)
<1>1. /\ rpc = "join" /\ thread[cur] = "finished" /\ running' = running \ {cur}
      /\ channel' = Tail(channel) /\ cur' = NoTest /\ Report(cur, r, "start")
      /\ UNCHANGED <<lingering, due, thread, overdue>>
  BY DEF Join
<1>2. /\ cur \in running /\ channel # <<>> /\ Head(channel).test = cur
      /\ channel \in Seq([test : Tests, result : Results])
      /\ \A i \in DOMAIN channel : channel[i].result = "Crashed" => channel[i].test \in ChildTests
  BY <1>1 DEF IInv, TypeOK, ChannelInv
<1>3. /\ Head(channel) = channel[1] /\ channel[1] \in [test : Tests, result : Results]
      /\ 1 \in DOMAIN channel /\ Tail(channel) \in Seq([test : Tests, result : Results])
      /\ \A i \in DOMAIN Tail(channel) : i + 1 \in DOMAIN channel /\ Tail(channel)[i] = channel[i + 1]
  <2> DEFINE T == [test : Tests, result : Results]
  <2> HIDE DEF T
  <2>1. channel \in Seq(T) /\ channel # <<>>
    BY <1>2 DEF T
  <2>2. /\ Head(channel) = channel[1] /\ channel[1] \in T /\ 1 \in DOMAIN channel
        /\ Tail(channel) \in Seq(T)
        /\ \A i \in DOMAIN Tail(channel) : i + 1 \in DOMAIN channel /\ Tail(channel)[i] = channel[i + 1]
    BY <2>1, PopLeaves
  <2> QED BY <2>2 DEF T
<1>4. r \in Results /\ (r = "Crashed" => cur \in ChildTests)
  BY <1>2, <1>3 DEF Joined, Results
<1>5. due' = {}
  BY <1>1 DEF IInv, PlaceInv
<1>6. rpc \notin {"allocate", "ending", "returned", "incomplete"} /\ lingering' = lingering
  BY <1>1
<1> HIDE DEF r
<1> QED BY <1>1, <1>2, <1>3, <1>4, <1>5, <1>6, OverFrame

\* The children that still run are killed, and the run is over.
LEMMA KillKeeps ==
  ASSUME IInv, MonitorFails \/ EndChild
  PROVE  IInv'
<1>1. /\ strategy = "child" /\ rpc \in {"receive", "ending"} /\ rpc' \in {"incomplete", "returned"}
      /\ rpc' = "returned" => rpc = "ending"
      /\ running' = {}
      /\ thread' = [t \in Tests |-> IF t \in running THEN "finished" ELSE thread[t]]
      /\ UNCHANGED <<exhaustive, poolSize, strategy, remaining, unstarted, perTest, verdict, lingering,
                     cur, due, overdue, channel>>
  BY DEF MonitorFails, EndChild, KillRunning, scheduler, options
<1>2. /\ ~InProcess /\ InProcess' = InProcess /\ PhaseTests = ChildTests /\ PhaseTests' = ChildTests
      /\ Allocated = {} /\ Allocated' = {} /\ due = {}
  BY <1>1 DEF InProcess, PhaseTests, Allocated, IInv, PlaceInv
<1>3. /\ thread' \in [Tests -> {"none", "queued", "waiting", "running", "sent", "finished"}]
      /\ \A t \in Tests : thread'[t] = IF t \in running THEN "finished" ELSE thread[t]
  BY <1>1 DEF IInv, TypeOK
<1>4. TypeOK'
  BY <1>1, <1>3 DEF IInv, TypeOK
<1>5. PlaceInv'
  <2>1. running \subseteq Tests /\ lingering \subseteq Tests /\ ChildTests \subseteq Tests
    BY TestRunAssumption DEF IInv, TypeOK
  <2>2. \A t \in running : thread[t] # "none" /\ perTest[t] = NoResult
    BY DEF IInv, PlaceInv
  <2>3. ToSet(remaining) \subseteq {t \in ChildTests : thread'[t] = "none"}
    BY <1>2, <1>3, <2>1, <2>2 DEF IInv, PlaceInv
  <2>4. lingering \subseteq {t \in Tests \ ChildTests : thread'[t] \in {"running", "sent", "finished"}}
    BY <1>3 DEF IInv, PlaceInv
  <2>5. \A t \in Tests :
          /\ thread'[t] = "none" => perTest[t] = NoResult
          /\ thread'[t] \notin {"queued", "waiting"}
          /\ thread'[t] \in {"running", "sent"} => t \in lingering
    BY <1>2, <1>3 DEF IInv, PlaceInv
  <2>6. IsInjective(remaining)
    BY DEF IInv, PlaceInv
  <2> QED BY <2>3, <2>4, <2>5, <2>6, <1>1, <1>2 DEF PlaceInv
<1>6. ChannelInv'
  BY <1>1 DEF IInv, ChannelInv
<1>7. VerdictHasWitness' /\ Unaccounted' = Unaccounted /\ \A t : DetectedBefore(t)' = DetectedBefore(t)
  BY <1>1, UnreportedKeeps DEF options
<1>8. Unaccounted \ ChildTests \subseteq unstarted /\ \A t \in ToSet(remaining) : ~DetectedBefore(t)
  BY <1>2 DEF IInv, AccountInv
<1>9. rpc = "ending" => Unaccounted \subseteq unstarted
  <2>1. SUFFICES ASSUME rpc = "ending", Unaccounted # {} PROVE Unaccounted \cap ChildTests = {}
    BY <1>8
  <2>2. running = {} /\ remaining = <<>>
    BY <2>1, <1>2 DEF IInv, AccountInv
  <2>3. ToSet(remaining) = {}
    BY <2>2 DEF ToSet
  <2> QED BY <2>1, <2>2, <2>3, <1>2 DEF IInv, AccountInv
<1>10. AccountInv' /\ NothingLost'
  BY <1>1, <1>2, <1>7, <1>8, <1>9 DEF AccountInv, NothingLost
<1> QED BY <1>4, <1>5, <1>6, <1>7, <1>10 DEF IInv

\* The second phase begins: only a child process crashes, so that no mutation of which a test is
\* not in the queue is open.
LEMMA EndInProcessKeeps ==
  ASSUME IInv, EndInProcess
  PROVE  IInv'
<1>1. /\ rpc = "ending" /\ InProcess /\ lingering' = lingering \cup running
      /\ running' = {} /\ due' = {} /\ unstarted' = ToSet(remaining)
      /\ remaining' = Keep(Queue, {t \in ChildTests : NotYetDetected(t)})
      /\ strategy' = "child" /\ channel' = <<>> /\ rpc' = "start"
      /\ UNCHANGED <<exhaustive, poolSize, perTest, verdict, cur, thread, overdue>>
  BY DEF EndInProcess, options
<1>2. /\ PhaseTests = Tests \ ChildTests /\ PhaseTests' = ChildTests /\ ~InProcess'
      /\ Allocated = {} /\ Allocated' = {} /\ ChildTests \subseteq Tests
  BY <1>1, TestRunAssumption DEF InProcess, PhaseTests, Allocated
<1>3. /\ remaining' \in Seq(Tests) /\ IsInjective(remaining')
      /\ ToSet(remaining') = {t \in ChildTests : NotYetDetected(t)}
  <2>1. Queue \in Seq(Tests) /\ ToSet(Queue) = Tests /\ IsInjective(Queue)
    BY TestRunAssumption
  <2> QED BY <2>1, <1>1, <1>2, KeepKeeps
<1>4. ToSet(remaining) \in SUBSET Tests /\ running \subseteq Tests /\ lingering \subseteq Tests
  <2>1. remaining \in Seq(Tests) /\ running \subseteq Tests /\ lingering \subseteq Tests
    BY DEF IInv, TypeOK
  <2> QED BY <2>1 DEF ToSet
<1>5. TypeOK'
  <2>1. {running, lingering, unstarted, due, overdue}' \subseteq SUBSET Tests
    BY <1>1, <1>4 DEF IInv, TypeOK
  <2> QED BY <2>1, <1>1, <1>3 DEF IInv, TypeOK
<1>6. PlaceInv'
  <2>1. \A t \in ChildTests : thread[t] = "none"
    BY <1>1 DEF IInv, PlaceInv
  <2>2. lingering' \subseteq {t \in Tests \ ChildTests : thread[t] \in {"running", "sent", "finished"}}
    BY <1>1, <1>2, <1>4 DEF IInv, PlaceInv
  <2>3. \A t \in Tests :
          /\ thread[t] = "none" => perTest[t] = NoResult
          /\ thread[t] \notin {"queued", "waiting"}
          /\ thread[t] \in {"running", "sent"} => t \in lingering'
    BY <1>1, <1>2 DEF IInv, PlaceInv
  <2> QED BY <2>1, <2>2, <2>3, <1>1, <1>2, <1>3 DEF PlaceInv
<1>7. ChannelInv'
  BY <1>1 DEF IInv, ChannelInv
<1>8. VerdictHasWitness' /\ Unaccounted' = Unaccounted /\ \A t : DetectedBefore(t)' = DetectedBefore(t)
  BY <1>1, UnreportedKeeps DEF options
<1>9. \A t \in ChildTests : NotYetDetected(t) <=> ~DetectedBefore(t)
  <2> SUFFICES ASSUME NEW t \in ChildTests, ~exhaustive
               PROVE  verdict[MutationOf[t]] = "Undetected" <=> ~DetectedBefore(t)
    BY DEF NotYetDetected, DetectedBefore
  <2> DEFINE m == MutationOf[t]
  <2>1. m \in Mutations /\ t \in Tests
    BY <1>2, TestRunAssumption
  <2>2. Agrees(m)
    BY <2>1, WitnessForm DEF IInv
  <2>3. \A u \in Tests : perTest[u] # "Crashed"
    <3>1. \A u \in ChildTests : perTest[u] = NoResult
      BY <1>1, <1>2 DEF IInv, PlaceInv
    <3> QED BY <3>1, TestRunAssumption DEF IInv, ChannelInv
  <2>4. ~Witnessed(m, "Crashed")
    BY <2>3 DEF Witnessed
  <2>5. DetectedBefore(t) <=> Witnessed(m, "Failed") \/ Witnessed(m, "TimedOut")
    BY DEF DetectedBefore, Witnessed
  <2> QED BY <2>2, <2>4, <2>5 DEF Agrees
<1>10. AccountInv' /\ NothingLost'
  <2>1. Unaccounted \subseteq Tests /\ \A t \in Unaccounted : ~DetectedBefore(t)
    BY DEF Unaccounted
  <2>2. Unaccounted \ ChildTests \subseteq ToSet(remaining)
    <3>1. SUFFICES ASSUME Unaccounted # {} PROVE Unaccounted \ ChildTests \subseteq ToSet(remaining)
      OBVIOUS
    <3>2. running = {}
      BY <3>1, <1>1 DEF IInv, AccountInv
    <3>3. Unaccounted \cap (Tests \ ChildTests) \subseteq ToSet(remaining) \cup Allocated \cup running
      BY <1>1, <1>2 DEF IInv, AccountInv
    <3> QED BY <2>1, <3>2, <3>3, <1>2
  <2>3. Unaccounted \cap ChildTests \subseteq ToSet(remaining')
    BY <2>1, <1>3, <1>9
  <2>4. \A t \in ToSet(remaining') : ~DetectedBefore(t)'
    BY <1>3, <1>8, <1>9
  <2> QED BY <2>2, <2>3, <2>4, <1>1, <1>2, <1>8 DEF AccountInv, NothingLost
<1> QED BY <1>5, <1>6, <1>7, <1>8, <1>10 DEF IInv

-----------------------------------------------------------------------------
(* The threads, and time. *)

\* A thread goes on, or its limit passes; the scheduler sees nothing of it yet.
LEMMA ThreadKeeps ==
  ASSUME IInv, NEW t \in Tests, ThreadStep(t) \/ LimitPasses(t)
  PROVE  IInv'
<1>1. UNCHANGED <<exhaustive, poolSize, strategy, remaining, unstarted, perTest, verdict, rpc, running,
                  lingering, cur, due>>
  BY DEF ThreadStep, TakeJob, Complete, FinishThread, LimitPasses, scheduler, options
<1>2. \/ thread' = thread
      \/ thread[t] = "queued" /\ thread' = [thread EXCEPT ![t] = "waiting"]
      \/ thread[t] = "running" /\ thread' = [thread EXCEPT ![t] = "sent"]
      \/ thread[t] = "sent" /\ thread' = [thread EXCEPT ![t] = "finished"]
  BY DEF ThreadStep, TakeJob, Complete, FinishThread, LimitPasses, SetThread
<1>3. /\ thread' \in [Tests -> {"none", "queued", "waiting", "running", "sent", "finished"}]
      /\ \A u \in Tests :
            /\ (thread'[u] = "none") = (thread[u] = "none")
            /\ thread'[u] \in {"queued", "waiting"} <=> thread[u] \in {"queued", "waiting"}
            /\ thread[u] \in {"running", "sent", "finished"} => thread'[u] \in {"running", "sent", "finished"}
            /\ thread'[u] \in {"running", "sent"} => thread[u] \in {"running", "sent"}
  BY <1>2 DEF IInv, TypeOK
<1>4. PhaseTests' = PhaseTests /\ InProcess' = InProcess /\ Allocated' = Allocated
  BY <1>1 DEF PhaseTests, InProcess, Allocated
<1>5. overdue' \in SUBSET Tests
  BY DEF ThreadStep, TakeJob, Complete, FinishThread, LimitPasses, IInv, TypeOK
<1>6. \/ channel' = channel
      \/ \E r \in Results : /\ channel' = Append(channel, [test |-> t, result |-> r])
                            /\ r = "Crashed" => t \in ChildTests
  <2>1. Complete(t) \/ UNCHANGED channel
    BY DEF ThreadStep, TakeJob, FinishThread, LimitPasses
  <2>2. ASSUME Complete(t), channel' # channel
        PROVE  \E r \in IF t \in Hanging THEN {"TimedOut"} ELSE Outcomes(t) :
                  channel' = Append(channel, [test |-> t, result |-> r])
    BY <2>2 DEF Complete
  <2>3. \A r \in IF t \in Hanging THEN {"TimedOut"} ELSE Outcomes(t) :
            r \in Results /\ (r = "Crashed" => t \in ChildTests)
    BY DEF Outcomes, Results
  <2> QED BY <2>1, <2>2, <2>3
<1>7. /\ channel' \in Seq([test : Tests, result : Results])
      /\ \A i \in DOMAIN channel' : channel'[i].result = "Crashed" => channel'[i].test \in ChildTests
      /\ channel # <<>> => channel' # <<>> /\ Head(channel') = Head(channel)
  <2>1. /\ channel \in Seq([test : Tests, result : Results])
        /\ \A i \in DOMAIN channel : channel[i].result = "Crashed" => channel[i].test \in ChildTests
    BY DEF IInv, TypeOK, ChannelInv
  <2>2. CASE channel' = channel
    BY <2>1, <2>2
  <2>3. ASSUME NEW r \in Results, channel' = Append(channel, [test |-> t, result |-> r]),
               r = "Crashed" => t \in ChildTests
        PROVE  /\ channel' \in Seq([test : Tests, result : Results])
               /\ \A i \in DOMAIN channel' : channel'[i].result = "Crashed" => channel'[i].test \in ChildTests
               /\ channel # <<>> => channel' # <<>> /\ Head(channel') = Head(channel)
    <3> DEFINE e == [test |-> t, result |-> r]
    <3>1. e \in [test : Tests, result : Results] /\ (e.result = "Crashed" => e.test \in ChildTests)
      BY <2>3
    <3>2. channel' = Append(channel, e)
      BY <2>3
    <3> HIDE DEF e
    <3> QED BY <2>1, <3>1, <3>2
  <2> QED BY <1>6, <2>2, <2>3
<1>8. TypeOK'
  BY <1>1, <1>3, <1>5, <1>7 DEF IInv, TypeOK
<1>9. PlaceInv'
  <2>1. ChildTests \subseteq Tests /\ PhaseTests \subseteq Tests
    BY TestRunAssumption DEF PhaseTests
  <2>2. /\ ToSet(remaining) \subseteq {u \in PhaseTests : thread'[u] = "none"}
        /\ Allocated \subseteq {u \in PhaseTests : thread'[u] \in {"queued", "waiting"}}
    BY <1>3, <2>1 DEF IInv, PlaceInv
  <2>3. /\ running \subseteq {u \in PhaseTests \ lingering : thread'[u] \in {"running", "sent", "finished"}}
        /\ lingering \subseteq {u \in Tests \ ChildTests : thread'[u] \in {"running", "sent", "finished"}}
    BY <1>3, <2>1 DEF IInv, PlaceInv
  <2>4. \A u \in Tests :
          /\ thread'[u] = "none" => perTest[u] = NoResult
          /\ thread'[u] \in {"queued", "waiting"} => u \in Allocated /\ perTest[u] = NoResult
          /\ thread'[u] \in {"running", "sent"} => u \in running \cup lingering
    BY <1>3 DEF IInv, PlaceInv
  <2>5. InProcess => \A u \in ChildTests : thread'[u] = "none"
    BY <1>3, <2>1 DEF IInv, PlaceInv
  <2>6. /\ IsInjective(remaining) /\ due \subseteq running
        /\ due # {} => InProcess /\ rpc \in {"abandon", "ending"}
        /\ \A u \in running : perTest[u] = NoResult
    BY DEF IInv, PlaceInv
  <2> QED BY <2>2, <2>3, <2>4, <2>5, <2>6, <1>1, <1>4 DEF PlaceInv
<1>10. ChannelInv'
  BY <1>1, <1>7 DEF IInv, ChannelInv
<1>11. AccountInv' /\ NothingLost' /\ VerdictHasWitness'
  BY <1>1, <1>4, UnreportedKeeps DEF IInv, AccountInv, NothingLost, options
<1> QED BY <1>8, <1>9, <1>10, <1>11 DEF IInv

\* A step of the rest of the system.
LEMMA StutterKeeps ==
  ASSUME IInv, UNCHANGED vars
  PROVE  IInv'
<1>1. UNCHANGED <<exhaustive, poolSize, strategy, remaining, unstarted, perTest, verdict, rpc, running,
                  lingering, cur, due, thread, overdue, channel>>
  BY DEF vars, scheduler, options
<1>2. PhaseTests' = PhaseTests /\ InProcess' = InProcess /\ Allocated' = Allocated
  BY <1>1 DEF PhaseTests, InProcess, Allocated
<1>3. TypeOK' /\ PlaceInv' /\ ChannelInv'
  BY <1>1, <1>2 DEF IInv, TypeOK, PlaceInv, ChannelInv
<1>4. AccountInv' /\ NothingLost' /\ VerdictHasWitness'
  BY <1>1, <1>2, UnreportedKeeps DEF IInv, AccountInv, NothingLost, options
<1> QED BY <1>3, <1>4 DEF IInv

-----------------------------------------------------------------------------
\* Every step keeps the inductive invariant.
LEMMA NextKeeps ==
  ASSUME IInv, [Next]_vars
  PROVE  IInv'
<1>1. CASE StartTest
  BY <1>1, StartKeeps
<1>2. CASE Started
  BY <1>2, StartedKeeps
<1>3. CASE CollectOverdue \/ AwaitNext \/ Receive \/ LimitComesDue
  BY <1>3, LookKeeps
<1>4. ASSUME NEW t \in Tests, AbandonTimedOut(t) PROVE IInv'
  BY <1>4, AbandonKeeps
<1>5. CASE Join
  BY <1>5, JoinKeeps
<1>6. CASE EndInProcess
  BY <1>6, EndInProcessKeeps
<1>7. CASE MonitorFails \/ EndChild
  BY <1>7, KillKeeps
<1>8. ASSUME NEW t \in Tests, ThreadStep(t) \/ LimitPasses(t) PROVE IInv'
  BY <1>8, ThreadKeeps
<1>9. CASE UNCHANGED vars
  BY <1>9, StutterKeeps
<1> QED BY <1>1, <1>2, <1>3, <1>4, <1>5, <1>6, <1>7, <1>8, <1>9 DEF Next, Scheduler

\* The inductive invariant holds however the scheduler, the threads and time interleave.
THEOREM Invariance == Spec => []IInv
<1>1. Init => IInv
  BY InitIInv
<1>2. IInv /\ [Next]_vars => IInv'
  BY NextKeeps
<1> QED BY <1>1, <1>2, PTL DEF Spec

\* Every variable of a run keeps its type.
THEOREM TypeCorrect == Spec => []TypeOK
<1>1. IInv => TypeOK
  BY DEF IInv
<1> QED BY <1>1, Invariance, PTL

\* harness::run_tests: the verdict of a mutation agrees with the results of its tests in whatever
\* order they come.
THEOREM VerdictsHold == Spec => []VerdictHasWitness
<1>1. IInv => VerdictHasWitness
  BY DEF IInv
<1> QED BY <1>1, Invariance, PTL

\* A run that returns accounts for each test, or hands it back as not started.
THEOREM AccountHolds == Spec => []NothingLost
<1>1. IInv => NothingLost
  BY DEF IInv
<1> QED BY <1>1, Invariance, PTL

\* A detection keeps each other test of the mutation from starting, in both phases.
THEOREM DetectionStops == Spec => DetectionStopsTests
<1>1. ASSUME IInv, [Next]_vars, NEW t \in Tests, thread[t] = "none", thread'[t] # "none"
      PROVE  ~DetectedBefore(t)
  <2>1. \A u \in Tests : ThreadStep(u) \/ LimitPasses(u) => thread'[t] = "none"
    BY <1>1 DEF ThreadStep, TakeJob, Complete, FinishThread, LimitPasses, SetThread, IInv, TypeOK
  <2>2. UNCHANGED thread => thread'[t] = "none"
    BY <1>1
  <2>3. KillRunning => thread'[t] = "none"
    BY <1>1 DEF KillRunning, IInv, PlaceInv
  <2>4. Started => thread'[t] = "none"
    BY <1>1 DEF Started, IInv, TypeOK
  <2>5. StartTest
    BY <1>1, <2>1, <2>2, <2>3, <2>4
       DEF Next, Scheduler, CollectOverdue, AwaitNext, AbandonTimedOut, Receive, LimitComesDue, Join,
           EndInProcess, EndChild, MonitorFails, vars
  <2>6. t = Head(remaining) /\ remaining # <<>> /\ remaining \in Seq(Tests)
    BY <1>1, <2>5 DEF StartTest, MayStart, IInv, TypeOK
  <2>7. t \in ToSet(remaining)
    BY <2>6, PopLeaves
  <2> QED BY <2>7, <1>1 DEF IInv, AccountInv
<1>2. IInv /\ [Next]_vars =>
        [\A t \in Tests : thread[t] = "none" /\ thread'[t] # "none" => ~DetectedBefore(t)]_vars
  BY <1>1
<1> QED BY <1>2, Invariance, PTL DEF Spec, DetectionStopsTests

-----------------------------------------------------------------------------
(* The contract, step by step. *)

\* What the run made of a test, by the first place that it is found in.
Place(t) ==
    IF t \in running \cup Allocated THEN "running"
    ELSE IF t \in lingering THEN "lingering"
    ELSE IF perTest[t] # NoResult THEN "joined"
    ELSE IF thread[t] = "none" THEN "queued" ELSE "lingering"

\* The refinement mapping, given where tests are found.
LEMMA WatchForm == IInv => \A t \in Tests : WatchOf(t) = Place(t)
<1> SUFFICES ASSUME IInv, NEW t \in Tests PROVE WatchOf(t) = Place(t)
  OBVIOUS
<1> DEFINE fresh == CASE thread[t] = "none" -> "queued"
                      [] thread[t] = "finished" -> "lingering"
                      [] OTHER -> "running"
<1>1. WatchOf(t) = CASE t \in running \/ (rpc = "allocate" /\ t = cur) -> "running"
                     [] t \in lingering -> "lingering"
                     [] t \notin running \cup lingering /\ perTest[t] # NoResult -> "joined"
                     [] OTHER -> fresh
  BY DEF WatchOf
<1>2. t \in running \/ (rpc = "allocate" /\ t = cur) <=> t \in running \cup Allocated
  BY DEF Allocated
<1>3. t \in running \cup Allocated => t \notin lingering /\ perTest[t] = NoResult
  BY DEF IInv, PlaceInv, PhaseTests
<1>4. t \notin running \cup Allocated \cup lingering => thread[t] \in {"none", "finished"}
  BY DEF IInv, TypeOK, PlaceInv
<1>5. /\ thread[t] = "none" => fresh = "queued"
      /\ thread[t] = "finished" => fresh = "lingering"
  BY Zenon
<1> HIDE DEF fresh
<1>6. CASE t \in running \cup Allocated
  <2>1. WatchOf(t) = "running"
    BY <1>1, <1>2, <1>3, <1>6, Zenon
  <2> QED BY <2>1, <1>6 DEF Place
<1>7. CASE t \notin running \cup Allocated /\ t \in lingering
  <2>1. WatchOf(t) = "lingering"
    BY <1>1, <1>2, <1>7, Zenon
  <2> QED BY <2>1, <1>7 DEF Place
<1>8. CASE t \notin running \cup Allocated \cup lingering /\ perTest[t] # NoResult
  <2>1. t \notin running \cup lingering /\ t \notin lingering /\ t \notin running \cup Allocated
    BY <1>8
  <2>2. WatchOf(t) = "joined"
    BY <1>1, <1>2, <1>8, <2>1, Zenon
  <2> QED BY <2>1, <2>2, <1>8 DEF Place
<1>9. CASE t \notin running \cup Allocated \cup lingering /\ perTest[t] = NoResult
  <2>1. t \notin lingering /\ t \notin running \cup Allocated
    BY <1>9
  <2>2. WatchOf(t) = fresh
    BY <1>1, <1>2, <1>9, <2>1, Zenon
  <2> QED BY <2>1, <2>2, <1>4, <1>5, <1>9 DEF Place
<1> QED BY <1>6, <1>7, <1>8, <1>9

\* The same, after a step.
LEMMA WatchFormNext == IInv' => (\A t \in Tests : WatchOf(t) = Place(t))'
<1> QED BY WatchForm, PTL

\* The tests whose threads run.
Live(t) == thread[t] \notin {"none", "finished"}

\* What the contract sees of a step, test by test.
Same(t) ==
    /\ Place(t)' = Place(t)
    /\ Live(t)' = Live(t)
    /\ (perTest[t] # NoResult)' = (perTest[t] # NoResult)

\* A step after which each test looks the same is none of the contract's.
LEMMA SeenSame ==
  ASSUME IInv, IInv', \A t \in Tests : Same(t), (rpc = "returned")' = (rpc = "returned")
  PROVE  UNCHANGED Contract!vars
<1>1. \A t \in Tests : WatchOf(t)' = WatchOf(t)
  BY WatchForm, WatchFormNext DEF Same
<1>2. [t \in Tests |-> WatchOf(t)]' = [t \in Tests |-> WatchOf(t)]
  BY <1>1
<1>3. {t \in Tests : thread[t] \notin {"none", "finished"}}' =
          {t \in Tests : thread[t] \notin {"none", "finished"}}
  BY DEF Same, Live
<1>4. [t \in Tests |-> perTest[t] # NoResult]' = [t \in Tests |-> perTest[t] # NoResult]
  BY DEF Same
<1> QED BY <1>2, <1>3, <1>4 DEF Contract!vars

\* The contract's variables after a step, as what it sees of each test.
LEMMA SeenOne ==
  ASSUME IInv, IInv', NEW t \in Tests, \A u \in Tests : u # t => Same(u),
         (rpc = "returned")' = (rpc = "returned")
  PROVE  /\ /\ Place(t) = "queued" /\ Place(t)' = "running" /\ Live(t)' /\ perTest'[t] = perTest[t]
            /\ rpc # "returned"
            => Contract!Start(t)
         /\ Live(t) /\ ~Live(t)' /\ Place(t)' = Place(t) /\ perTest'[t] = perTest[t] => Contract!End(t)
         /\ /\ Place(t) = "running" /\ perTest[t] = NoResult /\ perTest'[t] # NoResult
            /\ Live(t)' = Live(t)
            /\ Place(t)' = "lingering" \/ (Place(t)' = "joined" /\ ~Live(t))
            => Contract!Finish(t)
<1> DEFINE watch == [u \in Tests |-> WatchOf(u)]
           alive == {u \in Tests : thread[u] \notin {"none", "finished"}}
           result == [u \in Tests |-> perTest[u] # NoResult]
<1>1. /\ \A u \in Tests : watch[u] = Place(u) /\ watch'[u] = Place(u)'
      /\ DOMAIN watch = Tests /\ DOMAIN watch' = Tests
      /\ watch = [u \in Tests |-> watch[u]] /\ watch' = [u \in Tests |-> watch'[u]]
  BY WatchForm, WatchFormNext
<1>2. alive = {u \in Tests : Live(u)} /\ alive' = {u \in Tests : Live(u)'}
  BY DEF Live
<1>3. /\ \A u \in Tests : result[u] = (perTest[u] # NoResult) /\ result'[u] = (perTest'[u] # NoResult)
      /\ result = [u \in Tests |-> result[u]] /\ result' = [u \in Tests |-> result'[u]]
  OBVIOUS
<1> HIDE DEF watch, alive, result
<1>4. ASSUME Place(t)' = Place(t) PROVE watch' = watch
  BY <1>1, <1>4 DEF Same
<1>5. ASSUME NEW x, Place(t)' = x PROVE watch' = [watch EXCEPT ![t] = x]
  BY <1>1, <1>5 DEF Same
<1>6. /\ Live(t)' = Live(t) => alive' = alive
      /\ Live(t)' => alive' = alive \cup {t}
      /\ ~Live(t)' => alive' = alive \ {t}
  BY <1>2 DEF Same
<1>7. /\ (perTest'[t] # NoResult) = (perTest[t] # NoResult) => result' = result
      /\ perTest'[t] # NoResult => result' = [result EXCEPT ![t] = TRUE]
  BY <1>3 DEF Same
<1>8. ASSUME Place(t) = "queued", Place(t)' = "running", Live(t)', perTest'[t] = perTest[t], rpc # "returned"
      PROVE  Contract!Start(t)
  <2>1. /\ watch[t] = "queued" /\ watch' = [watch EXCEPT ![t] = "running"]
        /\ alive' = alive \cup {t} /\ result' = result
    BY <1>1, <1>5, <1>6, <1>7, <1>8
  <2> QED BY <2>1, <1>8 DEF Contract!Start, watch, alive, result
<1>9. ASSUME Live(t), ~Live(t)', Place(t)' = Place(t), perTest'[t] = perTest[t]
      PROVE  Contract!End(t)
  <2>1. t \in alive /\ watch' = watch /\ alive' = alive \ {t} /\ result' = result
    BY <1>2, <1>4, <1>6, <1>7, <1>9
  <2> QED BY <2>1 DEF Contract!End, watch, alive, result
<1>10. ASSUME Place(t) = "running", perTest[t] = NoResult, perTest'[t] # NoResult, Live(t)' = Live(t),
              Place(t)' = "lingering" \/ (Place(t)' = "joined" /\ ~Live(t))
       PROVE  Contract!Finish(t)
  <2>1. /\ watch[t] = "running" /\ ~result[t] /\ result' = [result EXCEPT ![t] = TRUE] /\ alive' = alive
        /\ \/ t \notin alive /\ watch' = [watch EXCEPT ![t] = "joined"]
           \/ watch' = [watch EXCEPT ![t] = "lingering"]
    BY <1>1, <1>2, <1>3, <1>5, <1>6, <1>7, <1>10
  <2> QED BY <2>1 DEF Contract!Finish, watch, alive, result
<1> QED BY <1>8, <1>9, <1>10

\* What ran is given up, or killed.
Released(t) ==
    /\ Place(t)' = IF Place(t) = "running" THEN "lingering" ELSE Place(t)
    /\ Live(t)' => Live(t) /\ Place(t)' = "lingering"

\* What is given up at the end of a phase lingers, or was killed.
LEMMA SeenGivenUp ==
  ASSUME IInv, IInv', rpc # "returned", UNCHANGED perTest,
         \A t \in Tests : Released(t)
  PROVE  Contract!GiveUp
<1> DEFINE watch == [u \in Tests |-> WatchOf(u)]
           alive == {u \in Tests : thread[u] \notin {"none", "finished"}}
           result == [u \in Tests |-> perTest[u] # NoResult]
           over == rpc = "returned"
<1>1. /\ \A u \in Tests : watch[u] = Place(u) /\ watch'[u] = Place(u)'
      /\ watch' = [u \in Tests |-> watch'[u]]
  BY WatchForm, WatchFormNext
<1>2. alive = {u \in Tests : Live(u)} /\ alive' = {u \in Tests : Live(u)'}
  BY DEF Live
<1>3. result' = result /\ ~over /\ over' \in BOOLEAN
  OBVIOUS
<1> HIDE DEF watch, alive, result, over
<1>4. watch' = [u \in Tests |-> IF watch[u] = "running" THEN "lingering" ELSE watch[u]]
  <2>1. \A u \in Tests : watch'[u] = IF watch[u] = "running" THEN "lingering" ELSE watch[u]
    <3> SUFFICES ASSUME NEW u \in Tests
                 PROVE  watch'[u] = IF watch[u] = "running" THEN "lingering" ELSE watch[u]
      OBVIOUS
    <3>1. Place(u)' = IF Place(u) = "running" THEN "lingering" ELSE Place(u)
      BY DEF Released
    <3> QED BY <3>1, <1>1
  <2> QED BY <2>1, <1>1
<1>5. alive' \in SUBSET alive /\ \A u \in alive' : watch'[u] = "lingering"
  <2>1. ASSUME NEW u \in Tests, Live(u)' PROVE Live(u) /\ Place(u)' = "lingering"
    BY <2>1 DEF Released
  <2> QED BY <2>1, <1>1, <1>2
<1> QED BY <1>3, <1>4, <1>5 DEF Contract!GiveUp, Contract!GiveUpRunning, watch, alive, result, over

\* Every step of a run is one of the contract, or is not seen by it.
LEMMA ContractStep ==
  ASSUME IInv, IInv', [Next]_vars
  PROVE  [Contract!Next]_(Contract!vars)
<1>1. CASE StartTest
  <2>1. remaining # <<>> /\ remaining \in Seq(Tests)
    BY <1>1 DEF StartTest, MayStart, IInv, TypeOK
  <2>2. PICK t \in Tests : t = Head(remaining) /\ t \in ToSet(remaining)
    BY <2>1, PopLeaves
  <2>3. /\ rpc = "start" /\ cur' = t /\ rpc' = "allocate"
        /\ thread' = [thread EXCEPT ![t] = IF Pooled THEN "queued" ELSE "waiting"]
        /\ UNCHANGED <<perTest, running, lingering>>
    BY <1>1, <2>2 DEF StartTest, MayStart
  <2>4. thread[t] = "none" /\ perTest[t] = NoResult /\ t \notin running /\ t \notin lingering
    BY <2>2 DEF IInv, PlaceInv
  <2>5. thread'[t] \in {"queued", "waiting"} /\ \A u \in Tests : u # t => thread'[u] = thread[u]
    BY <2>3, <2>2 DEF IInv, TypeOK
  <2>6. Allocated = {} /\ Allocated' = {t}
    BY <2>3 DEF Allocated
  <2>7. \A u \in Tests : u # t => Same(u)
    BY <2>3, <2>5, <2>6 DEF Same, Place, Live
  <2>8. Place(t) = "queued"
    BY <2>4, <2>6 DEF Place
  <2>9. Place(t)' = "running"
    BY <2>6 DEF Place
  <2>10. Live(t)' /\ perTest'[t] = perTest[t]
    BY <2>3, <2>5 DEF Live
  <2>11. (rpc = "returned")' = (rpc = "returned") /\ rpc # "returned"
    BY <2>3
  <2>12. Contract!Start(t)
    BY <2>2, <2>7, <2>8, <2>9, <2>10, <2>11, SeenOne
  <2> QED BY <2>2, <2>12 DEF Contract!Next
<1>2. CASE Started
  <2>1. /\ rpc = "allocate" /\ thread[cur] = "waiting" /\ running' = running \cup {cur} /\ rpc' = "start"
        /\ thread' = [thread EXCEPT ![cur] = "running"] /\ UNCHANGED <<perTest, lingering>>
    BY <1>2 DEF Started, scheduler
  <2>2. running \cup Allocated = running' \cup Allocated'
    BY <2>1 DEF Allocated
  <2>3. \A t \in Tests : thread[t] # thread'[t] => thread[t] = "waiting" /\ thread'[t] = "running"
    BY <2>1 DEF IInv, TypeOK
  <2>4. \A t \in Tests : /\ (thread'[t] = "none") = (thread[t] = "none") /\ Live(t)' = Live(t)
    BY <2>3 DEF Live
  <2>5. \A t \in Tests : Same(t)
    BY <2>1, <2>2, <2>4 DEF Same, Place
  <2> QED BY <2>1, <2>5, SeenSame
<1>3. CASE CollectOverdue \/ AwaitNext \/ Receive \/ LimitComesDue
  <2>1. /\ UNCHANGED <<perTest, running, lingering, thread>>
        /\ rpc \notin {"allocate", "returned"} /\ rpc' \notin {"allocate", "returned"}
    BY <1>3 DEF CollectOverdue, AwaitNext, Receive, LimitComesDue, scheduler
  <2>2. Allocated = {} /\ Allocated' = {}
    BY <2>1 DEF Allocated
  <2>3. \A t \in Tests : Same(t)
    BY <2>1, <2>2 DEF Same, Place, Live
  <2> QED BY <2>1, <2>3, SeenSame
<1>4. ASSUME NEW t \in Tests, NEW r \in Results, NEW next \in {"start", "abandon"}, Report(t, r, next),
             t \in running, running' = running \ {t}, UNCHANGED thread,
             lingering' = lingering \cup {t} \/ (lingering' = lingering /\ thread[t] = "finished"),
             rpc \notin {"allocate", "returned"}
      PROVE  Contract!Next
  <2>1. perTest[t] = NoResult /\ t \notin lingering
    BY <1>4 DEF IInv, PlaceInv
  <2>2. /\ perTest' = [perTest EXCEPT ![t] = r] /\ rpc' \in {"start", "abandon", "ending"}
        /\ NoResult \notin Results
    BY <1>4, TestRunAssumption DEF Report, Results
  <2>3. perTest'[t] # NoResult /\ \A u \in Tests : u # t => perTest'[u] = perTest[u]
    BY <1>4, <2>2 DEF IInv, TypeOK
  <2>4. Allocated = {} /\ Allocated' = {}
    BY <1>4, <2>2 DEF Allocated
  <2>5. \A u \in Tests : u # t => Same(u)
    BY <1>4, <2>3, <2>4 DEF Same, Place, Live
  <2>6. /\ Place(t) = "running" /\ Live(t)' = Live(t)
        /\ Place(t)' = "lingering" \/ (Place(t)' = "joined" /\ ~Live(t))
    BY <1>4, <2>1, <2>3, <2>4 DEF Place, Live
  <2>7. (rpc = "returned")' = (rpc = "returned")
    BY <1>4, <2>2
  <2> QED BY <2>1, <2>3, <2>5, <2>6, <2>7, SeenOne DEF Contract!Next
<1>5. ASSUME NEW t \in Tests, AbandonTimedOut(t) PROVE Contract!Next
  <2>1. t \in running /\ "TimedOut" \in Results
    BY <1>5 DEF AbandonTimedOut, IInv, PlaceInv, Results
  <2> QED BY <2>1, <1>4, <1>5 DEF AbandonTimedOut
<1>6. CASE Join
  <2>1. cur \in running /\ channel # <<>> /\ running \subseteq Tests
    BY <1>6 DEF Join, IInv, TypeOK, ChannelInv
  <2>2. Joined(cur, Head(channel).result) \in Results
    <3> DEFINE T == [test : Tests, result : Results]
    <3> HIDE DEF T
    <3>1. channel \in Seq(T)
      BY DEF IInv, TypeOK, T
    <3>2. Head(channel) \in T
      BY <2>1, <3>1, PopLeaves
    <3> QED BY <3>2 DEF T, Joined, Results
  <2> QED BY <2>1, <2>2, <1>4, <1>6 DEF Join
<1>7. CASE MonitorFails \/ EndChild
  <2>1. /\ rpc \in {"receive", "ending"} /\ rpc' \in {"incomplete", "returned"} /\ running' = {}
        /\ thread' = [t \in Tests |-> IF t \in running THEN "finished" ELSE thread[t]]
        /\ UNCHANGED <<perTest, lingering>>
    BY <1>7 DEF MonitorFails, EndChild, KillRunning, scheduler
  <2>2. Allocated = {} /\ Allocated' = {}
    BY <2>1 DEF Allocated
  <2>3. ASSUME NEW t \in Tests
        PROVE  Released(t)
    <3>1. CASE t \in running
      <4>1. thread'[t] = "finished" /\ perTest[t] = NoResult
        BY <2>1, <3>1 DEF IInv, PlaceInv
      <4> QED BY <4>1, <3>1, <2>1, <2>2 DEF Released, Place, Live
    <3>2. CASE t \notin running
      <4>1. thread'[t] = thread[t] /\ (thread[t] \notin {"none", "finished"} => t \in lingering)
        BY <2>1, <2>2, <3>2 DEF IInv, TypeOK, PlaceInv
      <4> QED BY <4>1, <3>2, <2>1, <2>2 DEF Released, Place, Live
    <3> QED BY <3>1, <3>2
  <2> QED BY <2>1, <2>3, SeenGivenUp DEF Contract!Next
<1>8. CASE EndInProcess
  <2>1. /\ rpc = "ending" /\ rpc' = "start" /\ running' = {} /\ lingering' = lingering \cup running
        /\ UNCHANGED <<perTest, thread>>
    BY <1>8 DEF EndInProcess
  <2>2. Allocated = {} /\ Allocated' = {}
    BY <2>1 DEF Allocated
  <2>3. ASSUME NEW t \in Tests
        PROVE  Released(t)
    <3>1. thread[t] \notin {"none", "finished"} => t \in running \cup lingering
      BY <2>2 DEF IInv, TypeOK, PlaceInv
    <3> QED BY <3>1, <2>1, <2>2 DEF Released, Place, Live
  <2> QED BY <2>1, <2>3, SeenGivenUp DEF Contract!Next
<1>9. ASSUME NEW t \in Tests, FinishThread(t) PROVE Contract!Next
  <2>1. /\ thread[t] = "sent" /\ thread' = [thread EXCEPT ![t] = "finished"]
        /\ UNCHANGED <<perTest, running, lingering, rpc, cur>>
    BY <1>9 DEF FinishThread, SetThread, scheduler
  <2>2. thread'[t] = "finished" /\ \A u \in Tests : u # t => thread'[u] = thread[u]
    BY <2>1 DEF IInv, TypeOK
  <2>3. Allocated' = Allocated
    BY <2>1 DEF Allocated
  <2>4. \A u \in Tests : u # t => Same(u)
    BY <2>1, <2>2, <2>3 DEF Same, Place, Live
  <2>5. Live(t) /\ ~Live(t)' /\ Place(t)' = Place(t)
    BY <2>1, <2>2, <2>3 DEF Place, Live
  <2> QED BY <2>1, <2>4, <2>5, SeenOne DEF Contract!Next
<1>10. ASSUME NEW t \in Tests, TakeJob(t) \/ Complete(t) \/ LimitPasses(t) PROVE UNCHANGED Contract!vars
  <2>1. /\ \/ thread' = thread
           \/ thread[t] = "queued" /\ thread' = [thread EXCEPT ![t] = "waiting"]
           \/ thread[t] = "running" /\ thread' = [thread EXCEPT ![t] = "sent"]
        /\ UNCHANGED <<perTest, running, lingering, rpc, cur>>
    BY <1>10 DEF TakeJob, Complete, LimitPasses, SetThread, scheduler
  <2>2. \A u \in Tests : (thread'[u] = "none") = (thread[u] = "none") /\ Live(u)' = Live(u)
    BY <2>1 DEF IInv, TypeOK, Live
  <2>3. Allocated' = Allocated
    BY <2>1 DEF Allocated
  <2>4. \A u \in Tests : Same(u)
    BY <2>1, <2>2, <2>3 DEF Same, Place
  <2> QED BY <2>1, <2>4, SeenSame
<1>11. CASE UNCHANGED vars
  <2>1. UNCHANGED <<thread, perTest, running, lingering, rpc, cur>>
    BY <1>11 DEF vars, scheduler
  <2>2. Allocated' = Allocated
    BY <2>1 DEF Allocated
  <2>3. \A u \in Tests : Same(u)
    BY <2>1, <2>2 DEF Same, Place, Live
  <2> QED BY <2>1, <2>3, SeenSame
<1> QED BY <1>1, <1>2, <1>3, <1>5, <1>6, <1>7, <1>8, <1>9, <1>10, <1>11 DEF Next, Scheduler, ThreadStep

\* A run begins as the contract does.
LEMMA ContractInit == Init => Contract!Init
<1> SUFFICES ASSUME Init PROVE Contract!Init
  OBVIOUS
<1>1. /\ rpc = "start" /\ running = {} /\ lingering = {}
      /\ thread = [t \in Tests |-> "none"] /\ perTest = [t \in Tests |-> NoResult]
  BY DEF Init
<1>2. IInv
  BY InitIInv
<1>3. \A t \in Tests : WatchOf(t) = "queued"
  BY <1>1, <1>2, WatchForm DEF Place, Allocated
<1> QED BY <1>1, <1>3 DEF Contract!Init

\* test_runner::run_tests promises the analysis what RunContract says: each test has one result at
\* most, and when the run returns no thread that it started runs unless the run gave it up.
THEOREM ContractKept == Spec => KeepsContract
<1>1. IInv /\ IInv' /\ [Next]_vars => [Contract!Next]_(Contract!vars)
  BY ContractStep
<1> QED BY <1>1, ContractInit, Invariance, PTL DEF Spec, KeepsContract, Contract!Spec
=============================================================================
