---------------------------- MODULE IsolatedProcess ----------------------------
(***************************************************************************)
(* One isolated test under its owner (mutest-runtime/src/subprocess.rs on  *)
(* Linux): the monitor, which is a thread of the worker; the owner, a      *)
(* process that starts the test, adopts what it leaves running, kills all  *)
(* of that, and then reports on a socket; and the test.                    *)
(*                                                                         *)
(* Any of them may stop, or be killed, at any step.  The monitor must      *)
(* still return, must not lose or invent a result, and nothing that the    *)
(* test started may be left.                                               *)
(***************************************************************************)
CONSTANTS
    Exits,        \* the results that a test's exit status may stand for
    NoOutcome

ASSUME IsolatedProcessAssumption ==
    /\ "Ok" \in Exits
    /\ {NoOutcome, "TimedOut", "Ignored", "Failure"} \cap Exits = {}
    /\ NoOutcome \notin {"TimedOut", "Ignored", "Failure", "success", "failure", "broken"}

VARIABLES
    limited,      \* the test has a timeout
    asked,        \* the monitor's control channel has a KillChildProcess, or is closed
    mpc,          \* where the monitor has got to
    frame,        \* what the monitor has read of the owner's report
    cancelled,    \* Stage::cancelled
    exited,       \* Stage::exited: the owner was reaped
    deadline,     \* the stage whose deadline runs
    missed,       \* whether it has passed
    opc,          \* where the owner has got to
    status,       \* how the owner exited
    decision,     \* what the owner is going to report
    sent,         \* what it has written of its report
    cancel,       \* a cancellation that the owner has not read
    test,         \* the test
    left,         \* what processes the test started, and how they hold its output
    exit,         \* how the test exited
    testOverdue,  \* whether the test's limit has passed
    outcome       \* what subprocess::run returned

monitor == <<mpc, frame, cancelled, exited, deadline, missed, outcome>>
owner == <<opc, status, decision, sent>>
processes == <<test, left, exit, testOverdue>>
ownedVars == <<limited, asked, monitor, owner, cancel, processes>>

Frames == {"none", "ready", "whole"}
Deadlines == {"startup", "execution", "none", "cleanup", "report"}

TypeOK ==
    /\ {limited, asked, cancelled, exited, missed, cancel, testOverdue} \subseteq BOOLEAN
    /\ mpc \in {"read", "forward", "wait", "decide", "drop", "grace", "returned", "died"}
    /\ {frame, sent} \subseteq Frames
    /\ deadline \in Deadlines
    /\ opc \in {"starting", "executing", "cleaning", "reporting", "reported", "gone"}
    /\ status \in {NoOutcome, "success", "failure", "broken"}
    /\ decision \in Exits \cup {NoOutcome, "TimedOut", "Ignored", "Failure"}
    /\ opc \in {"cleaning", "reporting", "reported"} => decision # NoOutcome
    /\ test \in {"none", "running", "ended"}
    /\ left \in {"none", "holding", "detached"}
    /\ exit \in Exits \cup {NoOutcome}
    /\ outcome \in Exits \cup {NoOutcome, "TimedOut", "Ignored", "Failure"}

\* The owner was spawned.
OwnedInit ==
    /\ limited \in BOOLEAN
    /\ asked = FALSE
    /\ mpc = "read" /\ frame = "none" /\ cancelled = FALSE /\ exited = FALSE
    /\ deadline = "startup" /\ missed = FALSE /\ outcome = NoOutcome
    /\ opc = "starting" /\ status = NoOutcome /\ decision = NoOutcome /\ sent = "none"
    /\ cancel = FALSE
    /\ test = "none" /\ left = "none" /\ exit = NoOutcome /\ testOverdue = FALSE

-----------------------------------------------------------------------------
(* The owner: linux::own and linux::execute. *)

\* The test or what it left runs.
Running == test = "running" \/ left # "none"

OwnerOnly == UNCHANGED <<limited, asked, monitor, cancel>>

\* The monitor's end of the socket is closed.
Unwatched == mpc \in {"returned", "died"}

\* The test is spawned, and its start reported.
SpawnTest ==
    /\ opc = "starting"
    /\ opc' = "executing"
    /\ test' = "running"
    /\ sent' = "ready"
    /\ OwnerOnly /\ UNCHANGED <<status, decision, left, exit, testOverdue>>

\* execute returns: everything is killed before what it returned is looked at.
Decide(result) ==
    /\ opc = "executing"
    /\ opc' = "cleaning"
    /\ decision' = result
    /\ UNCHANGED <<limited, asked, monitor, status, sent, processes>>

\* The cancellation is read, or the monitor's end of the socket is closed.
SeeCancel == cancel /\ cancel' = FALSE /\ Decide("Ignored")
\* Mutant: the end of the socket is not taken for a cancellation.
SeeNoClosed == FALSE

SeeClosed == Unwatched /\ UNCHANGED cancel /\ Decide("Ignored")

\* The poll before this one found no cancellation, and one may have come since.  A test that
\* passed past its limit timed out, as the monitor decodes it from the elapsed time.
ReapTest ==
    /\ exit # NoOutcome
    /\ UNCHANGED cancel
    /\ Decide(IF exit = "Ok" /\ limited /\ testOverdue THEN "TimedOut" ELSE exit)
SeeLimit == limited /\ testOverdue /\ UNCHANGED cancel /\ Decide("TimedOut")
\* A failing read, write or wait, or a test that cannot be spawned.
ExecuteFails == UNCHANGED cancel /\ Decide("Failure")

\* kill_descendants_until: the owner adopted whatever the test left.
KillDescendants ==
    /\ opc = "cleaning"
    /\ opc' = "reporting"
    /\ test' = "ended"
    /\ left' = "none"
    /\ OwnerOnly /\ UNCHANGED <<status, decision, sent, exit, testOverdue>>

\* Mutant: the result is reported before what the test left is killed.
ReportBeforeCleanup ==
    /\ opc \in {"cleaning", "reporting"} /\ decision # "Failure"
    /\ ~Unwatched
    /\ opc' = "reported"
    /\ sent' = "whole"
    /\ OwnerOnly /\ UNCHANGED <<status, decision, processes>>

ReportDecision ==
    /\ opc = "reporting" /\ decision # "Failure"
    /\ ~Unwatched
    /\ opc' = "reported"
    /\ sent' = "whole"
    /\ OwnerOnly /\ UNCHANGED <<status, decision, processes>>

OwnerExits ==
    /\ \/ opc = "reported" /\ status' = "success"
       \/ opc = "reporting" /\ (decision = "Failure" \/ Unwatched) /\ status' = "failure"
    /\ opc' = "gone"
    /\ OwnerOnly /\ UNCHANGED <<decision, sent, processes>>

\* The setup or the cleanup failed, or the owner is killed, and may leave all running.
OwnerBreaks ==
    /\ opc # "gone"
    /\ opc' = "gone"
    /\ status' = "broken"
    /\ OwnerOnly /\ UNCHANGED <<decision, sent, processes>>

Owner ==
    \/ SpawnTest \/ SeeCancel \/ SeeClosed \/ ReapTest \/ SeeLimit
    \/ KillDescendants \/ ReportDecision \/ OwnerExits

-----------------------------------------------------------------------------
(* The test, time, and who may cancel the test. *)

TestExits(result) ==
    /\ test = "running"
    /\ test' = "ended"
    /\ exit' = result
    /\ UNCHANGED <<limited, asked, monitor, owner, cancel, left, testOverdue>>

\* It starts a process that may outlive it, with or without a hold on its output.
Leave ==
    /\ test = "running" /\ left = "none"
    /\ left' \in {"holding", "detached"}
    /\ UNCHANGED <<limited, asked, monitor, owner, cancel, test, exit, testOverdue>>

LeftEnds ==
    /\ left # "none"
    /\ left' = "none"
    /\ UNCHANGED <<limited, asked, monitor, owner, cancel, test, exit, testOverdue>>

TestLimitPasses ==
    /\ limited /\ ~testOverdue /\ opc = "executing"
    /\ testOverdue' = TRUE
    /\ UNCHANGED <<limited, asked, monitor, owner, cancel, test, left, exit>>

Ask ==
    /\ ~asked /\ ~Unwatched
    /\ asked' = TRUE
    /\ UNCHANGED <<limited, monitor, owner, cancel, processes>>

DeadlinePasses ==
    /\ ~missed /\ deadline # "none" /\ ~Unwatched
    /\ missed' = TRUE
    /\ UNCHANGED <<limited, asked, mpc, frame, cancelled, exited, deadline, outcome>>
    /\ UNCHANGED <<owner, cancel, processes>>

-----------------------------------------------------------------------------
(* The monitor: linux::run. *)

MonitorOnly == UNCHANGED <<limited, asked, owner, processes>>

Allow(stage) == deadline' = stage /\ missed' = FALSE

\* Stage::read: the deadlines of what the owner does next.
Advance(new) ==
    CASE new = frame -> UNCHANGED <<deadline, missed>>
      [] new = "whole" /\ frame # "whole" -> Allow("report")
      [] new = "ready" /\ frame = "none" ->
            IF cancelled THEN UNCHANGED <<deadline, missed>>
            ELSE Allow(IF limited THEN "execution" ELSE "none")

\* Mutant: any reset of the socket fails the test.
ResetIsFatal == frame = sent /\ opc = "gone" /\ cancel

\* The owner left a cancellation unread when it exited, and all that it wrote has been read.
ResetByOwner == frame = sent /\ opc = "gone" /\ cancel /\ frame # "whole"

ReadCompletion ==
    /\ mpc = "read"
    /\ IF ResetByOwner
       THEN mpc' = "drop" /\ UNCHANGED <<frame, deadline, missed>>
       ELSE mpc' = "forward" /\ frame' = sent /\ Advance(sent)
    /\ MonitorOnly /\ UNCHANGED <<cancelled, exited, outcome, cancel>>

Forwards == asked /\ ~cancelled /\ frame # "whole" /\ ~exited

\* Mutant: an owner that was cancelled gets no deadline.
ForwardUnbounded ==
    /\ mpc = "forward"
    /\ mpc' = "wait"
    /\ IF Forwards
       THEN cancelled' = TRUE /\ cancel' = (opc # "gone")
       ELSE UNCHANGED <<cancelled, cancel>>
    /\ MonitorOnly /\ UNCHANGED <<frame, exited, outcome, deadline, missed>>

\* A socket whose other end is closed takes no cancellation.
ForwardCancellation ==
    /\ mpc = "forward"
    /\ mpc' = "wait"
    /\ IF Forwards
       THEN cancelled' = TRUE /\ cancel' = (opc # "gone") /\ Allow("cleanup")
       ELSE UNCHANGED <<cancelled, cancel, deadline, missed>>
    /\ MonitorOnly /\ UNCHANGED <<frame, exited, outcome>>

TryWait ==
    /\ mpc = "wait"
    /\ CASE opc = "gone" /\ ~exited /\ status # "success" ->
                mpc' = "drop" /\ UNCHANGED <<exited, deadline, missed>>
         [] opc = "gone" /\ ~exited /\ status = "success" ->
                mpc' = "decide" /\ exited' = TRUE /\ Allow("report")
         [] OTHER -> mpc' = "decide" /\ UNCHANGED <<exited, deadline, missed>>
    /\ MonitorOnly /\ UNCHANGED <<frame, cancelled, outcome, cancel>>

\* The owner, the test, and what it left may hold the pipes open; what was left may also have
\* closed its ends.
PipesClosed == opc = "gone" /\ test # "running" /\ left # "holding"

ReportComplete == exited /\ frame = "whole" /\ PipesClosed

FinishLoop ==
    /\ mpc = "decide"
    /\ CASE ReportComplete -> mpc' = "returned" /\ outcome' = decision
         [] ~ReportComplete /\ missed -> mpc' = "drop" /\ UNCHANGED outcome
         [] OTHER -> mpc' = "read" /\ UNCHANGED outcome
    /\ MonitorOnly /\ UNCHANGED <<frame, cancelled, exited, deadline, missed, cancel>>

\* Owner::drop: a running owner is asked to cancel; a grace period begins, unless it has reported.
DropOwner ==
    /\ mpc = "drop"
    /\ mpc' = "grace"
    /\ cancel' = (cancel \/ opc # "gone")
    /\ missed' = (frame = "whole")
    /\ deadline' = "cleanup"
    /\ MonitorOnly /\ UNCHANGED <<frame, cancelled, exited, outcome>>

\* It exits, or is killed once the grace period has passed.
EndOwner ==
    /\ mpc = "grace"
    /\ opc = "gone" \/ missed
    /\ opc' = "gone"
    /\ status' = IF opc = "gone" THEN status ELSE "broken"
    /\ mpc' = "returned"
    /\ outcome' = "Failure"
    /\ UNCHANGED <<limited, asked, frame, cancelled, exited, deadline, missed>>
    /\ UNCHANGED <<decision, sent, cancel, processes>>

\* The worker is killed, and the monitor with it.
WorkerDies ==
    /\ ~Unwatched
    /\ mpc' = "died"
    /\ UNCHANGED <<limited, asked, frame, cancelled, exited, deadline, missed, outcome>>
    /\ UNCHANGED <<owner, cancel, processes>>

Monitor ==
    \/ ReadCompletion \/ ForwardCancellation \/ TryWait \/ FinishLoop
    \/ DropOwner \/ EndOwner

OwnedNext ==
    \/ Owner \/ ExecuteFails \/ OwnerBreaks \/ Monitor \/ WorkerDies
    \/ (\E result \in Exits : TestExits(result)) \/ Leave \/ LeftEnds \/ TestLimitPasses
    \/ Ask \/ DeadlinePasses

OwnedSpec == OwnedInit /\ [][OwnedNext]_ownedVars

\* The monitor runs and time passes; the owner and the test may do nothing for ever.
OwnedFairSpec == OwnedSpec /\ WF_ownedVars(Monitor) /\ WF_ownedVars(DeadlinePasses)

-----------------------------------------------------------------------------
(* Properties. *)

\* What the owner completed is returned, although a cancellation that raced it may reset the
\* socket: the monitor gives an owner up only if that failed or missed a deadline.
CompletionSurvivesCancel ==
    [][mpc' = "drop" /\ mpc # "drop" => status \in {"failure", "broken"} \/ missed]_ownedVars

\* The monitor returns, whatever the owner and the test do, if the test has a limit or once it
\* is cancelled: every later stage has a deadline of its own.
RunReturns == limited \/ asked ~> Unwatched

\* An owner that runs, and does not break, outlives the worker only until it has killed what the
\* test started, whichever step the worker died at.
OwnerCleansUp ==
    WF_ownedVars(Owner) => (Unwatched ~> opc = "gone" /\ (status = "broken" \/ ~Running))

OwnedContract == INSTANCE OwnedProcess WITH alive <- Running, NoResult <- NoOutcome

\* A result other than a failure is what became of this test, and nothing of the test is left.
KeepsOwnedContract == OwnedContract!Spec
=============================================================================
