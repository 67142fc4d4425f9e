------------------------------ MODULE MCTestRuns ------------------------------
(* The three ways in which the tests of a mutant are run, each in behaviours of *)
(* its own: by the scheduler of this process (TestRun), one in a process of its *)
(* own (IsolatedProcess), and several in one child (MutationChild).             *)
(* The scheduler has a batch of two mutations: tests of m1 hang, two in this    *)
(* process and one in a child, while those of m2 may pass, so that its verdict  *)
(* needs each. The child has another batch: it runs a and then b; e comes next  *)
(* and must run alone, d hangs, and i is ignored.                               *)
EXTENDS TestRun, IsolatedProcess, MutationChild

CONSTANTS a, b, c, d, e, f, i, m1, m2

\* The order of maximize_mutation_parallelism: the tests of the mutations by turns.
MCQueue == <<a, f, c, e, b, d>>
MCMutationOf == (a :> m1) @@ (b :> m1) @@ (c :> m1) @@ (d :> m1) @@ (f :> m2) @@ (e :> m2)

MCBatchQueue == <<a, b, e, d, i>>
MCBatchMutationOf == (a :> m1) @@ (b :> m2) @@ (d :> m2) @@ (e :> m1) @@ (i :> m2)

VARIABLE system \* the one that runs: "scheduler", "process" or "child"

allVars == <<system, vars, ownedVars, childVars>>

\* One that does not run has come to its end, or has not been asked for.
SchedulerRests ==
    /\ exhaustive = FALSE /\ poolSize = 0 /\ strategy = "in_process" /\ rpc = "incomplete" /\ remaining = <<>>
    /\ running = {} /\ lingering = {} /\ unstarted = {} /\ due = {} /\ overdue = {}
    /\ cur = NoTest
    /\ thread = [t \in Tests |-> "none"] /\ channel = <<>>
    /\ perTest = [t \in Tests |-> NoResult] /\ verdict = [m \in Mutations |-> "Undetected"]
ProcessRests == OwnedInit /\ ~limited
ChildRests ==
    /\ evaluateAll = FALSE /\ ppc = "incomplete" /\ waiting = <<>> /\ takenTest = NoneTaken /\ held = FALSE
    /\ listed = <<>> /\ heard = NoAnswer /\ childExited = NoAnswer /\ passed = <<>> /\ pastLimit = FALSE
    /\ result = [t \in BatchTests |-> NoAnswer] /\ turn = <<>> /\ reports = FALSE /\ report = <<>> /\ ran = {}
    /\ did = [t \in BatchTests |-> "none"] /\ Process!Init

RunsInit ==
    \/ system = "scheduler" /\ Init /\ ProcessRests /\ ChildRests
    \/ system = "process" /\ SchedulerRests /\ OwnedInit /\ ChildRests
    \/ system = "child" /\ SchedulerRests /\ ProcessRests /\ ChildInit

RunsNext ==
    \/ system = "scheduler" /\ Next /\ UNCHANGED <<system, ownedVars, childVars>>
    \/ system = "process" /\ OwnedNext /\ UNCHANGED <<system, vars, childVars>>
    \/ system = "child" /\ ChildNext /\ UNCHANGED <<system, vars, ownedVars>>

RunsSpec ==
    /\ RunsInit /\ [][RunsNext]_allVars
    /\ WF_vars(system = "scheduler" /\ Scheduler)
    /\ \A t \in Tests : WF_vars(system = "scheduler" /\ ThreadStep(t)) /\ WF_vars(system = "scheduler" /\ LimitPasses(t))
    /\ WF_ownedVars(system = "process" /\ Monitor) /\ WF_ownedVars(system = "process" /\ DeadlinePasses)
    /\ WF_childVars(system = "child" /\ Parent) /\ WF_childVars(system = "child" /\ CleanChild)
    /\ WF_childVars(system = "child" /\ SendOutcome) /\ WF_childVars(system = "child" /\ TakenLimitPasses)
=============================================================================
