----------------------------- MODULE MutationChild -----------------------------
(***************************************************************************)
(* The tests of one run in child processes that run several in turn        *)
(* (mutest-runtime/src/mutation_child.rs, mutation_child/child.rs).        *)
(*                                                                         *)
(* The child goes on by itself: it appends a line to its report for each   *)
(* test that passes, and ends with the first that does not.  The parent    *)
(* polls the report and the monitor of the child, holds the test that it   *)
(* waits for to its limit, and tells from what it reads which test passed, *)
(* failed, crashed or timed out.  The process itself is an OwnedProcess.   *)
(***************************************************************************)
EXTENDS Naturals, FiniteSets, Queues

CONSTANTS
    BatchTests,
    BatchMutations,
    BatchMutationOf, \* the mutation of the run that a test reaches
    BatchQueue,   \* the order the tests are queued in
    Unrepeatable, \* the tests that fail when they run again in one process
    Ignored,
    BatchHanging, \* the tests that never return
    NoneTaken, NoAnswer

ASSUME MutationChildAssumption ==
    /\ IsFiniteSet(BatchTests) /\ NoneTaken \notin BatchTests
    /\ BatchMutationOf \in [BatchTests -> BatchMutations]
    /\ BatchQueue \in Seq(BatchTests) /\ ToSet(BatchQueue) = BatchTests /\ IsInjective(BatchQueue)
    /\ UNION {Unrepeatable, Ignored, BatchHanging} \subseteq BatchTests
    /\ NoAnswer \notin {"Ok", "Failed", "Crashed", "TimedOut", "Ignored", "Failure"}

VARIABLES
    evaluateAll,  \* --exhaustive: the tests after a detection run too
    ppc,          \* where the parent has got to
    waiting,      \* the tests still queued
    takenTest,    \* the test taken from the queue
    held,         \* whether the parent has a Child
    listed,       \* Child::tests: what it was started for, and was not asked for yet
    heard,        \* what the monitor sent, not yet stored
    childExited,  \* Child::exited
    passed,       \* Child::passed: the passes read and not yet given out
    pastLimit,    \* whether the test taken is past its limit
    result,       \* the result reported for each test
    turn,         \* the tests the child has still to run; it is running the first
    reports,      \* whether the child could open its list and its report
    report,       \* the passes in the report that the parent has not read
    ran,          \* the tests begun in the child
    did,          \* what each test did in the last child that was to run it
    alive, childExit, childAsked, childOutcome \* the process of the child

queue == <<evaluateAll, waiting, result>>
proc == <<alive, childExit, childAsked, childOutcome>>
child == <<turn, reports, report, ran, did>>
childVars == <<queue, ppc, takenTest, held, listed, heard, childExited, passed, pastLimit, child, proc>>

ChildExits == {"Ok", "Failed", "Crashed"}
Passes == {"quick", "slow"}

Process == INSTANCE OwnedProcess WITH
    Exits <- ChildExits, NoResult <- NoAnswer, exit <- childExit, asked <- childAsked, outcome <- childOutcome

ChildInit ==
    /\ evaluateAll \in BOOLEAN
    /\ ppc = "next" /\ waiting = BatchQueue /\ takenTest = NoneTaken
    /\ held = FALSE /\ listed = <<>> /\ heard = NoAnswer /\ childExited = NoAnswer /\ passed = <<>>
    /\ pastLimit = FALSE
    /\ result = [t \in BatchTests |-> NoAnswer]
    /\ turn = <<>> /\ reports = FALSE /\ report = <<>> /\ ran = {}
    /\ did = [t \in BatchTests |-> "none"]
    /\ Process!Init

-----------------------------------------------------------------------------
(* The child: run_tests_in_spawned_subprocess. *)

Runs == alive /\ childExit = NoAnswer
ParentOnly == UNCHANGED <<queue, ppc, takenTest, held, listed, heard, childExited, passed, pastLimit>>

Did(t, what) == did' = [did EXCEPT ![t] = what]

Begin ==
    /\ Runs /\ turn # <<>> /\ Head(turn) \notin ran
    /\ ran' = ran \cup {Head(turn)}
    /\ Did(Head(turn), "begun")
    /\ ParentOnly /\ UNCHANGED <<turn, reports, report, proc>>

RunsFirst == Runs /\ turn # <<>> /\ Head(turn) \in ran

\* A pass is appended to the report with the time it took, and the next test begins.
Pass(pass) ==
    /\ RunsFirst /\ reports
    /\ Head(turn) \notin BatchHanging
    /\ report' = Append(report, pass)
    /\ turn' = Tail(turn)
    /\ Did(Head(turn), pass)
    /\ ParentOnly /\ UNCHANGED <<reports, ran, proc>>

\* A pass that cannot be reported ends the child, as its result.
PassUnreported ==
    /\ RunsFirst
    /\ Head(turn) \notin BatchHanging
    /\ Did(Head(turn), "unreported")
    /\ Process!Exit("Ok")
    /\ ParentOnly /\ UNCHANGED <<turn, reports, report, ran>>

\* The test fails, or ends the process in another way.
FailOrCrash(status) ==
    /\ RunsFirst
    /\ Did(Head(turn), status)
    /\ Process!Exit(status)
    /\ ParentOnly /\ UNCHANGED <<turn, reports, report, ran>>

AllPassed ==
    /\ Runs /\ turn = <<>>
    /\ Process!Exit("Ok")
    /\ ParentOnly /\ UNCHANGED child

Child ==
    \/ Begin \/ PassUnreported \/ AllPassed
    \/ (\E pass \in Passes : Pass(pass)) \/ \E status \in {"Failed", "Crashed"} : FailOrCrash(status)

\* Its owner, and its monitor: what is left of the child is killed once it exited or is to be
\* killed, and then the monitor sends the outcome.
CleanChild == (childExit # NoAnswer \/ childAsked) /\ Process!Clean /\ ParentOnly /\ UNCHANGED child
SendOutcome == held /\ Process!Return(FALSE) /\ ParentOnly /\ UNCHANGED child
ChildMonitorFails == held /\ Process!Fail /\ ParentOnly /\ UNCHANGED child

-----------------------------------------------------------------------------
(* The parent: run_each_in_a_child and Child. *)

QueueOnly == UNCHANGED <<held, listed, heard, childExited, passed, pastLimit, child, proc>>

Pop ==
    /\ ppc = "next" /\ waiting # <<>>
    /\ takenTest' = Head(waiting)
    /\ waiting' = Tail(waiting)
    /\ ppc' = "prepare"
    /\ UNCHANGED <<evaluateAll, result>> /\ QueueOnly

QueueEmpty ==
    /\ ppc = "next" /\ waiting = <<>>
    /\ takenTest' = NoneTaken
    /\ ppc' = "end"
    /\ UNCHANGED queue /\ QueueOnly

\* The queue has changed since the child was started for it.
Stale == held /\ ~(listed # <<>> /\ Head(listed) = takenTest)

\* Child::stop, begun: a child that has not ended is killed.
Kill(at) ==
    /\ ppc' = at
    /\ IF childExited = NoAnswer THEN Process!Ask ELSE UNCHANGED proc
    /\ UNCHANGED <<queue, takenTest, held, listed, heard, childExited, passed, pastLimit, child>>

StopStale == ppc = "prepare" /\ Stale /\ Kill("stop_stale")

\* Mutant: a test that must run alone shares the child of others.
FollowOnAny(u) == u \notin Ignored

\* The tests that follow up to the first that is ignored or runs alone; none after one that does.
FollowOn(u) == u \notin Unrepeatable \cup Ignored

Following ==
    LET n == CHOOSE i \in 0..Len(waiting) :
                 /\ \A j \in 1..i : FollowOn(waiting[j])
                 /\ i < Len(waiting) => ~FollowOn(waiting[i + 1])
    IN  SubSeq(waiting, 1, n)

Batch == <<takenTest>> \o (IF takenTest \in Unrepeatable THEN <<>> ELSE Following)

\* The child runs the listed tests, or only the first if it cannot open the list or the report.
\* The test taken is the first it is asked for.
SpawnChild ==
    /\ ppc = "prepare" /\ ~held /\ takenTest \notin Ignored
    /\ held' = TRUE
    /\ listed' = Tail(Batch)
    /\ reports' \in BOOLEAN
    /\ turn' = IF reports' THEN Batch ELSE <<takenTest>>
    /\ report' = <<>> /\ passed' = <<>> /\ ran' = {}
    /\ heard' = NoAnswer /\ childExited' = NoAnswer
    /\ alive' = TRUE /\ childExit' = NoAnswer /\ childAsked' = FALSE /\ childOutcome' = NoAnswer
    /\ pastLimit' = FALSE
    /\ did' = [t \in BatchTests |-> IF t \in ToSet(Batch) THEN "none" ELSE did[t]]
    /\ ppc' = "poll"
    /\ UNCHANGED <<queue, takenTest>>

\* The child that is there already runs the test, or has run it.
AskNext ==
    /\ ppc = "prepare" /\ held /\ ~Stale
    /\ listed' = Tail(listed)
    /\ pastLimit' = FALSE
    /\ ppc' = "poll"
    /\ UNCHANGED <<queue, takenTest, held, heard, childExited, passed, child, proc>>

-----------------------------------------------------------------------------
(* Results, and what the callback of harness::run_tests does with them. *)

Settles(r) == ~evaluateAll /\ r \in {"Failed", "TimedOut"}
MutationSettled(m) == \E t \in BatchTests : BatchMutationOf[t] = m /\ result'[t] \in {"Failed", "TimedOut"}

\* The result of the test: the other tests of its mutation leave the queue once one has failed
\* or timed out, and the run stops once that is so for every mutation.
Give(r) ==
    /\ result' = [result EXCEPT ![takenTest] = r]
    /\ waiting' = IF Settles(r)
                    THEN Keep(waiting, {u \in BatchTests : BatchMutationOf[u] # BatchMutationOf[takenTest]})
                    ELSE waiting
    /\ ppc' = IF Settles(r) /\ \A m \in BatchMutations : MutationSettled(m) THEN "end" ELSE "next"
    /\ takenTest' = NoneTaken
    /\ UNCHANGED evaluateAll

Within(pass) == IF pass = "slow" THEN "TimedOut" ELSE "Ok"

GiveIgnored ==
    /\ ppc = "prepare" /\ ~held /\ takenTest \in Ignored
    /\ Give("Ignored")
    /\ QueueOnly

\* pass_result: a pass that was read is given to the test, and the child is kept, be it running or
\* exited with the result of a later test.
GivePass ==
    /\ ppc = "poll" /\ passed # <<>>
    /\ Give(Within(Head(passed)))
    /\ passed' = Tail(passed)
    /\ UNCHANGED <<held, listed, heard, childExited, pastLimit, child, proc>>

Incomplete ==
    /\ ppc' = "incomplete"
    /\ UNCHANGED <<queue, takenTest, held, listed, heard, childExited, passed, pastLimit, child, proc>>

\* The child goes, with the files.
Drop ==
    /\ held' = FALSE
    /\ listed' = <<>> /\ heard' = NoAnswer /\ childExited' = NoAnswer /\ passed' = <<>>
    /\ pastLimit' = FALSE

\* exit_result: the exit is of the first test that did not report a pass.
GiveExit ==
    /\ ppc = "poll" /\ passed = <<>> /\ childExited # NoAnswer
    /\ IF childExited = "Failure" THEN Incomplete
       ELSE /\ Give(IF childExited = "Ok" /\ pastLimit THEN "TimedOut" ELSE childExited)
            /\ Drop
            /\ UNCHANGED <<child, proc>>

StopLate ==
    /\ ppc = "poll" /\ passed = <<>> /\ childExited = NoAnswer /\ pastLimit
    /\ Kill("stop_late")

\* Mutant: a pass reported just before the child is killed is not looked for.
GiveKilled ==
    /\ ppc = "stop_late" /\ childExited # NoAnswer
    /\ IF childExited = "Failure" THEN Incomplete
       ELSE Give("TimedOut") /\ Drop /\ UNCHANGED <<child, proc>>

\* kill_timed_out: the test may have passed just before the child was killed.
GiveLate ==
    /\ ppc = "stop_late" /\ childExited # NoAnswer
    /\ IF childExited = "Failure" THEN Incomplete
       ELSE /\ Give(IF passed = <<>> THEN "TimedOut" ELSE Within(Head(passed)))
            /\ Drop
            /\ UNCHANGED <<child, proc>>

-----------------------------------------------------------------------------
(* Child::wait, and the end of a child. *)

Waits == {"poll", "stop_stale", "stop_late", "stop_last"}

MustWait == childExited = NoAnswer /\ (ppc = "poll" => passed = <<>> /\ ~pastLimit)

\* The monitor's outcome is received, or the wait is over, ...
Hear ==
    /\ ppc \in Waits /\ heard = NoAnswer /\ MustWait
    /\ childOutcome # NoAnswer
    /\ heard' = childOutcome
    /\ UNCHANGED <<queue, ppc, takenTest, held, listed, childExited, passed, pastLimit, child, proc>>

\* ... and then all that was reported is read: the passes before an exit come with the exit.
Read ==
    /\ ppc \in Waits /\ MustWait
    /\ heard # NoAnswer \/ report # <<>>
    /\ passed' = passed \o report
    /\ report' = <<>>
    /\ childExited' = heard
    /\ UNCHANGED <<queue, ppc, takenTest, held, listed, heard, pastLimit, turn, reports, ran, did, proc>>

TakenLimitPasses ==
    /\ ppc = "poll" /\ ~pastLimit
    /\ pastLimit' = TRUE
    /\ UNCHANGED <<queue, ppc, takenTest, held, listed, heard, childExited, passed, child, proc>>

\* Mutant: the test that was taken goes with the stale child.
DropStaleAndTest ==
    /\ ppc = "stop_stale" /\ childExited # NoAnswer
    /\ IF childExited = "Failure" THEN Incomplete
       ELSE Drop /\ ppc' = "next" /\ UNCHANGED <<queue, takenTest, child, proc>>

\* A stale child is gone, and the test taken gets a new one.
DropStale ==
    /\ ppc = "stop_stale" /\ childExited # NoAnswer
    /\ IF childExited = "Failure" THEN Incomplete
       ELSE Drop /\ ppc' = "prepare" /\ UNCHANGED <<queue, takenTest, child, proc>>

StopLast == ppc = "end" /\ held /\ Kill("stop_last")

DropLast ==
    /\ ppc = "stop_last" /\ childExited # NoAnswer
    /\ IF childExited = "Failure" THEN Incomplete
       ELSE Drop /\ ppc' = "returned" /\ UNCHANGED <<queue, takenTest, child, proc>>

Return ==
    /\ ppc = "end" /\ ~held
    /\ ppc' = "returned"
    /\ UNCHANGED <<queue, takenTest>> /\ QueueOnly

Parent ==
    \/ Pop \/ QueueEmpty \/ StopStale \/ SpawnChild \/ AskNext
    \/ GiveIgnored \/ GivePass \/ GiveExit \/ StopLate \/ GiveLate
    \/ Hear \/ Read \/ DropStale \/ StopLast \/ DropLast \/ Return

ChildNext == Parent \/ TakenLimitPasses \/ Child \/ CleanChild \/ SendOutcome \/ ChildMonitorFails

ChildSpec == ChildInit /\ [][ChildNext]_childVars

\* The parent and the owner and monitor of the child run, and limits pass; no test need end.
ChildFairSpec ==
    /\ ChildSpec
    /\ WF_childVars(Parent) /\ WF_childVars(CleanChild) /\ WF_childVars(SendOutcome) /\ WF_childVars(TakenLimitPasses)

-----------------------------------------------------------------------------
(* Properties. *)

\* The result of a test is what that test did, although the child is tests ahead of the parent,
\* may end while its passes are unread, and is killed while it may report one more.
ResultIsItsTests ==
    \A t \in BatchTests :
        /\ result[t] = "Ok" => did[t] \in {"quick", "unreported"}
        /\ result[t] \in {"Failed", "Crashed"} => did[t] = result[t]
        /\ result[t] = "TimedOut" => did[t] # "quick"
        /\ result[t] = "Ignored" => did[t] = "none"

\* A test that must run alone shares its child with no other, and no child is left when the next one
\* starts or the run returns: no test shares the machine with one that was to be killed.
RunsAlone ==
    /\ ran \cap Unrepeatable # {} => Cardinality(ran) = 1
    /\ ~held => ~alive

EveryTestAccounted ==
    \A t \in BatchTests : result[t] # NoAnswer \/ (~evaluateAll /\ \E u \in BatchTests :
        BatchMutationOf[u] = BatchMutationOf[t] /\ result[u] \in {"Failed", "TimedOut"})

\* The run ends, whichever tests hang, and when it returns it has a result of each
\* test, but for those of a mutation that one settled; it returns no results only
\* when the harness itself failed (mutation_child.rs:49).
ChildRunEnds == <>((ppc = "returned" /\ EveryTestAccounted) \/ ppc = "incomplete")
=============================================================================
