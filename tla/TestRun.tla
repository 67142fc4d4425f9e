------------------------------- MODULE TestRun -------------------------------
(***************************************************************************)
(* The run of the tests of one mutant, or of one batch of mutants          *)
(* (harness::run_tests over the Scheduler of test_runner.rs, with threads  *)
(* of their own or of thread_pool.rs).                                     *)
(*                                                                         *)
(* The run has two phases with one scheduler each: the tests that run in   *)
(* this process, then those that run in child processes.  The scheduler    *)
(* starts tests up to its concurrency, gives up those past their limits,   *)
(* and receives completions that the test threads send meanwhile.          *)
(***************************************************************************)
EXTENDS Naturals, FiniteSets, Queues

CONSTANTS
    Tests,        \* the tests of the run
    Mutations,    \* the mutations of the mutant: one, or those of a batch
    MutationOf,   \* the mutation of the run that a test reaches
    Queue,        \* the order the tests are queued in
    ChildTests,   \* the tests that run in child processes: unrepeatable, or all if isolated
    Hanging,      \* the tests that never return
    LatePanics,   \* the tests that panic after they reported success
    Concurrency,  \* the tests run at once
    PoolSizes,    \* what the threads of the pool may number; 0 if each test gets one of its own
    NoTest, NoResult

ASSUME TestRunAssumption ==
    /\ IsFiniteSet(Tests) /\ NoTest \notin Tests
    /\ MutationOf \in [Tests -> Mutations]
    /\ Queue \in Seq(Tests) /\ ToSet(Queue) = Tests /\ IsInjective(Queue)
    /\ UNION {ChildTests, Hanging, LatePanics} \subseteq Tests
    /\ Concurrency \in Nat \ {0} /\ PoolSizes \subseteq Nat
    /\ NoResult \notin {"Ok", "Failed", "Crashed", "TimedOut"}

VARIABLES
    exhaustive, \* --exhaustive: the tests after a detection run too
    poolSize,   \* --use-thread-pool: the threads of the pool
    strategy,   \* the phase: "in_process", then "child"
    rpc,        \* where the scheduler has got to
    remaining,  \* the tests still queued
    running,    \* the tests started and neither joined nor given up
    lingering,  \* in-process tests given up
    unstarted,  \* the in-process tests that the first phase handed back, which nobody reads
    cur,        \* the test that waits for its thread, or to be joined
    due,        \* the tests found past their limit
    thread,     \* the thread of each test, or the monitor of its child process
    overdue,    \* the tests whose limit has passed
    channel,    \* the completions on their way to the scheduler
    perTest,    \* the result reported for each test
    verdict     \* the result of each mutation

options == <<exhaustive, poolSize>>
scheduler == <<options, strategy, remaining, unstarted, perTest, verdict>>
vars == <<scheduler, rpc, running, lingering, cur, due, thread, overdue, channel>>

Settled == {"Detected", "TimedOut"}

Init ==
    /\ exhaustive \in BOOLEAN
    /\ poolSize \in PoolSizes
    /\ strategy = "in_process"
    /\ rpc = "start"
    /\ remaining = Keep(Queue, Tests \ ChildTests)
    /\ running = {} /\ lingering = {} /\ unstarted = {} /\ due = {} /\ overdue = {}
    /\ cur = NoTest
    /\ thread = [t \in Tests |-> "none"]
    /\ channel = <<>>
    /\ perTest = [t \in Tests |-> NoResult]
    /\ verdict = [m \in Mutations |-> "Undetected"]

-----------------------------------------------------------------------------
(* The callback of harness::run_tests, which the scheduler calls with each result. *)

\* Mutant: the result that came last decides.
JudgedByLast(v, r) == CASE r = "Ok" -> v [] r = "Failed" -> "Detected" [] OTHER -> r

\* A detection outranks the rest; a crash and a timeout replace one another.
Judged(v, r) ==
    CASE r = "Ok" -> v
      [] r = "Failed" -> "Detected"
      [] r \in {"Crashed", "TimedOut"} -> IF v = "Detected" THEN v ELSE r

\* Mutants: a detection ends the tests of every mutation of the batch, or none.
RetainedNone(t) == <<>>
RetainedAll(t) == remaining

\* The tests left to run once one of them failed or timed out.
Retained(t) == Keep(remaining, {u \in Tests : MutationOf[u] # MutationOf[t]})

\* Records the result; the run stops once every mutation is detected, or goes on at `next`.
Report(t, r, next) ==
    LET settles == ~exhaustive /\ r \in {"Failed", "TimedOut"}
    IN  /\ perTest' = [perTest EXCEPT ![t] = r]
        /\ verdict' = [verdict EXCEPT ![MutationOf[t]] = Judged(@, r)]
        /\ remaining' = IF settles THEN Retained(t) ELSE remaining
        /\ rpc' = IF settles /\ \A m \in Mutations : verdict'[m] \in Settled
                  THEN "ending" ELSE next
        /\ UNCHANGED <<options, strategy, unstarted>>

-----------------------------------------------------------------------------
(* Scheduler::run_until_all_finish. *)

InProcess == strategy = "in_process"
Pooled == InProcess /\ poolSize > 0
MayStart == Cardinality(running) < Concurrency /\ remaining # <<>>

\* The job goes to the pool, or to a new thread; the scheduler then asks for the thread's id.
StartTest ==
    LET t == Head(remaining)
    IN  /\ rpc = "start" /\ MayStart
        /\ remaining' = Tail(remaining)
        /\ cur' = t
        /\ thread' = [thread EXCEPT ![t] = IF Pooled THEN "queued" ELSE "waiting"]
        /\ rpc' = "allocate"
        /\ UNCHANGED <<options, strategy, unstarted, perTest, verdict>>
        /\ UNCHANGED <<running, lingering, due, overdue, channel>>

\* JobHandle::thread_id waits until a worker took the job; then the start is reported, the limit
\* runs, and the sender that holds the test back is dropped.
Started ==
    /\ rpc = "allocate"
    /\ thread[cur] = "waiting"
    /\ running' = running \cup {cur}
    /\ thread' = [thread EXCEPT ![cur] = "running"]
    /\ cur' = NoTest
    /\ rpc' = "start"
    /\ UNCHANGED <<scheduler, lingering, due, overdue, channel>>

\* timed_out_in_process_tests: a test whose thread has finished is not given up.
OverdueInProcess == {t \in running \cap overdue : thread[t] # "finished"}

\* In-process tests are held to their limits here; the monitors of child processes hold theirs.
CollectOverdue ==
    /\ rpc = "start" /\ ~MayStart
    /\ due' = IF InProcess THEN OverdueInProcess ELSE {}
    /\ rpc' = "abandon"
    /\ UNCHANGED <<scheduler, running, lingering, cur, thread, overdue, channel>>

AbandonTimedOut(t) ==
    /\ rpc = "abandon"
    /\ t \in due
    /\ due' = due \ {t}
    /\ running' = running \ {t}
    /\ lingering' = lingering \cup {t}
    /\ Report(t, "TimedOut", "abandon")
    /\ UNCHANGED <<cur, thread, overdue, channel>>

\* With nothing left running the run ends, whether or not tests are queued.
AwaitNext ==
    /\ rpc = "abandon"
    /\ due = {}
    /\ rpc' = IF running = {} THEN "ending" ELSE "receive"
    /\ UNCHANGED <<scheduler, running, lingering, cur, due, thread, overdue, channel>>

\* A completion arrives, of a test given up (which is dropped), or of one still running.
Receive ==
    LET t == Head(channel).test
    IN  /\ rpc = "receive"
        /\ channel # <<>>
        /\ IF t \in running
           THEN rpc' = "join" /\ cur' = t /\ UNCHANGED channel
           ELSE rpc' = "start" /\ channel' = Tail(channel) /\ UNCHANGED cur
        /\ UNCHANGED <<scheduler, running, lingering, due, thread, overdue>>

\* Mutant: the scheduler waits for a completion without a limit.
LimitNeverComesDue == FALSE

\* The wait for a completion lasts no longer than the limits of the running tests.
LimitComesDue ==
    /\ rpc = "receive"
    /\ InProcess
    /\ channel = <<>>
    /\ running \cap overdue # {}
    /\ rpc' = "start"
    /\ UNCHANGED <<scheduler, running, lingering, cur, due, thread, overdue, channel>>

\* join_in_process: a test that panics after reporting success has failed.
Joined(t, r) == IF InProcess /\ t \in LatePanics /\ r = "Ok" THEN "Failed" ELSE r

Join ==
    /\ rpc = "join"
    /\ thread[cur] = "finished"
    /\ running' = running \ {cur}
    /\ channel' = Tail(channel)
    /\ cur' = NoTest
    /\ Report(cur, Joined(cur, Head(channel).result), "start")
    /\ UNCHANGED <<lingering, due, thread, overdue>>

KillRunning ==
    /\ running' = {}
    /\ thread' = [t \in Tests |-> IF t \in running THEN "finished" ELSE thread[t]]

\* A monitor of a child process that fails to report ends the whole run, once the others are
\* killed.
MonitorFails ==
    /\ rpc = "receive"
    /\ strategy = "child"
    /\ running # {}
    /\ rpc' = "incomplete"
    /\ KillRunning
    /\ UNCHANGED <<scheduler, lingering, cur, due, overdue, channel>>

\* The tests for child processes that are still to run after those of this process.
NotYetDetected(t) == exhaustive \/ verdict[MutationOf[t]] = "Undetected"

\* Mutant: the tests still running are forgotten rather than given up.
EndForgetsRunning ==
    /\ rpc = "ending" /\ InProcess
    /\ running' = {} /\ due' = {}
    /\ unstarted' = ToSet(remaining)
    /\ remaining' = Keep(Queue, {t \in ChildTests : NotYetDetected(t)})
    /\ strategy' = "child"
    /\ channel' = <<>>
    /\ rpc' = "start"
    /\ UNCHANGED <<options, lingering, perTest, verdict, cur, thread, overdue>>

\* run_concurrently's end: what still runs is abandoned. The child phase gets a channel of its own.
EndInProcess ==
    /\ rpc = "ending" /\ InProcess
    /\ lingering' = lingering \cup running
    /\ running' = {} /\ due' = {}
    /\ unstarted' = ToSet(remaining)
    /\ remaining' = Keep(Queue, {t \in ChildTests : NotYetDetected(t)})
    /\ strategy' = "child"
    /\ channel' = <<>>
    /\ rpc' = "start"
    /\ UNCHANGED <<options, perTest, verdict, cur, thread, overdue>>

\* Child processes still running are killed, and their results dropped.
EndChild ==
    /\ rpc = "ending" /\ strategy = "child"
    /\ KillRunning
    /\ rpc' = "returned"
    /\ UNCHANGED <<scheduler, lingering, cur, due, overdue, channel>>

Scheduler ==
    \/ StartTest \/ Started \/ CollectOverdue \/ AwaitNext
    \/ (\E t \in Tests : AbandonTimedOut(t))
    \/ Receive \/ LimitComesDue \/ Join \/ EndInProcess \/ EndChild

-----------------------------------------------------------------------------
(* The threads of the tests, the workers of the pool, and time. *)

SetThread(t, state) == thread' = [thread EXCEPT ![t] = state]

\* The tests that hold a thread of the pool.
Held == {t \in Tests \ ChildTests : thread[t] \in {"waiting", "running", "sent"}}

\* A worker of the pool receives the job, and publishes its thread id.
TakeJob(t) ==
    /\ thread[t] = "queued"
    /\ Cardinality(Held) < poolSize
    /\ SetThread(t, "waiting")
    /\ UNCHANGED <<scheduler, rpc, running, lingering, cur, due, overdue, channel>>

\* What a test may be reported as by its own thread, or by the monitor of its child process.
Outcomes(t) ==
    {"Failed"} \cup (IF t \in Hanging THEN {} ELSE {"Ok"})
    \cup (IF t \in overdue THEN {"TimedOut"} ELSE {})
    \cup (IF t \in ChildTests THEN {"Crashed"} ELSE {})

\* A test that hangs never completes, unless its child process is killed at its limit.
Ends(t) == t \in Hanging => t \in ChildTests /\ t \in overdue

\* A late failure is a failure; a late success, or a child killed at its limit, timed out.
Complete(t) ==
    /\ thread[t] = "running"
    /\ Ends(t)
    /\ SetThread(t, "sent")
    /\ IF (t \in ChildTests) = (strategy = "child")
       THEN \E r \in IF t \in Hanging THEN {"TimedOut"} ELSE Outcomes(t) :
                channel' = Append(channel, [test |-> t, result |-> r])
       ELSE UNCHANGED channel
    /\ UNCHANGED <<scheduler, rpc, running, lingering, cur, due, overdue>>

FinishThread(t) ==
    /\ thread[t] = "sent"
    /\ SetThread(t, "finished")
    /\ UNCHANGED <<scheduler, rpc, running, lingering, cur, due, overdue, channel>>

LimitPasses(t) ==
    /\ t \notin overdue
    /\ t \in running
    /\ overdue' = overdue \cup {t}
    /\ UNCHANGED <<scheduler, rpc, running, lingering, cur, due, thread, channel>>

ThreadStep(t) == TakeJob(t) \/ Complete(t) \/ FinishThread(t)

Next ==
    \/ Scheduler \/ MonitorFails
    \/ \E t \in Tests : ThreadStep(t) \/ LimitPasses(t)

Spec == Init /\ [][Next]_vars

\* The scheduler and each thread keep running, and time passes; no monitor has to fail.
FairSpec ==
    /\ Spec
    /\ WF_vars(Scheduler)
    /\ \A t \in Tests : WF_vars(ThreadStep(t)) /\ WF_vars(LimitPasses(t))

-----------------------------------------------------------------------------
(* Properties. *)

\* The verdict of a mutation agrees with the results of its tests in whatever order they came:
\* it is detected exactly if a test failed, and a crash or a timeout never passes as undetected.
VerdictHasWitness ==
    \A m \in Mutations :
        LET results == {perTest[t] : t \in {u \in Tests : MutationOf[u] = m}}
        IN  /\ verdict[m] = "Detected" <=> "Failed" \in results
            /\ verdict[m] = "Undetected" <=> results \cap {"Failed", "Crashed", "TimedOut"} = {}
            /\ verdict[m] \in results \cup {"Undetected", "Detected"}

\* A test of the mutation failed or timed out, which ends its other tests.
DetectedBefore(t) ==
    ~exhaustive /\ \E u \in Tests : MutationOf[u] = MutationOf[t] /\ perTest[u] \in {"Failed", "TimedOut"}

\* No test starts for a mutation that another test detected, even in a batch that goes on for
\* the others, and even if it runs in a child process of the second phase.
DetectionStopsTests ==
    [][\A t \in Tests : thread[t] = "none" /\ thread'[t] # "none" => ~DetectedBefore(t)]_vars

\* The tests that a run which returned has no account of: no result, and no detection.
Unaccounted == {t \in Tests : perTest[t] = NoResult /\ ~DetectedBefore(t)}

\* A run that returns has a result of each test its verdicts need, but for those that it hands
\* back as not started.
NothingLost == rpc = "returned" => Unaccounted \subseteq unstarted

\* A run that returns ran every test its verdicts need: with --exhaustive, "Evaluate remaining
\* tests, even if the mutation has already been detected by another test."
QueuedTestsRun == rpc = "returned" => Unaccounted = {}

\* The scheduler waits for a thread of the pool, and tests that never return hold all of them.
PoolHeld ==
    /\ rpc = "allocate" /\ thread[cur] = "queued"
    /\ Held \subseteq Hanging /\ Cardinality(Held) = poolSize

\* The run ends, whichever tests hang and whenever their limits pass, with one exception: with
\* --use-thread-pool, once tests given up hold all threads of the pool, the wait for the thread
\* id of the next test (thread_pool.rs:65) has no limit.
RunEnds == <>(rpc \in {"returned", "incomplete"} \/ PoolHeld)

WatchOf(t) ==
    CASE t \in running \/ (rpc = "allocate" /\ t = cur) -> "running"
      [] t \in lingering -> "lingering"
      [] t \notin running \cup lingering /\ perTest[t] # NoResult -> "joined"
      [] OTHER -> CASE thread[t] = "none" -> "queued"
                    [] thread[t] = "finished" -> "lingering" \* a child, killed
                    [] OTHER -> "running"

Contract == INSTANCE RunContract WITH
    watch <- [t \in Tests |-> WatchOf(t)],
    alive <- {t \in Tests : thread[t] \notin {"none", "finished"}},
    result <- [t \in Tests |-> perTest[t] # NoResult],
    over <- rpc = "returned"

\* The run keeps the contract on which the analysis activates the next mutant.
KeepsContract == Contract!Spec
=============================================================================
