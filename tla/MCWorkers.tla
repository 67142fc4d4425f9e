------------------------------ MODULE MCWorkers ------------------------------
(* A worker process, from outside and from inside, each in behaviours of its   *)
(* own: its supervisor, its journal and its evaluations (Supervision), and the *)
(* threads of its tests that share the handle of the active mutants            *)
(* (TestThreads). There, of three mutants m1 and m2 share the slot of a        *)
(* guarded body, m2 and m3 share a test, and m1 runs alongside m3, whose       *)
(* location has a slot of its own.                                             *)
EXTENDS MCSupervision, TestThreads, TLC

CONSTANTS t1, t2, t3, s1, s2

MCMutantOf == (t1 :> m1) @@ (t2 :> m2) @@ (t3 :> m3)
MCSlotOf == (m1 :> s1) @@ (m2 :> s1) @@ (m3 :> s2)
MCReaches == (t1 :> {s1}) @@ (t2 :> {s1, s2}) @@ (t3 :> {s2})

VARIABLE system \* the one that runs: "supervisor" or "threads"

workersVars == <<system, vars, testVars>>

\* While the threads run there is no supervisor any more.
SupervisorRests ==
    /\ setup = Batched /\ journaled = FALSE
    /\ started = {} /\ finished = <<>> /\ isolated = {} /\ profiled = FALSE /\ tail = "whole"
    /\ wpc = "none" /\ healthy = TRUE /\ earlier = [finished |-> {}, isolated |-> {}]
    /\ evaluating = {} /\ undecided = {} /\ deferred = {} /\ results = {} /\ leftover = {}
    /\ completion = FALSE /\ summary = 0 /\ wexit = "none"
    /\ sup = "exited" /\ status = "none" /\ previous = 0 /\ log = 0 /\ code = "none"
    /\ stop = FALSE /\ order = "none" /\ signalled = FALSE
    /\ witnessed = FALSE /\ cancelled = FALSE /\ stopFirst = FALSE
    /\ lostRow = FALSE /\ ended = {}

WorkersInit ==
    \/ system = "supervisor" /\ Init /\ ThreadsInit
    \/ system = "threads" /\ SupervisorRests /\ ThreadsInit

WorkersNext ==
    \/ system = "supervisor" /\ Next /\ UNCHANGED <<system, testVars>>
    \/ system = "threads" /\ ThreadsNext /\ UNCHANGED <<system, vars>>

WorkersSpec ==
    /\ WorkersInit /\ [][WorkersNext]_workersVars
    /\ WF_vars(system = "supervisor" /\ WorkerStep /\ UNCHANGED setup)
    /\ WF_vars(system = "supervisor" /\ SupervisorStep /\ UNCHANGED setup)
    /\ WF_vars(system = "supervisor" /\ StopEndsWorker /\ UNCHANGED setup)
=============================================================================
