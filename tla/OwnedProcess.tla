----------------------------- MODULE OwnedProcess -----------------------------
(***************************************************************************)
(* What subprocess::run promises who runs a test in a process of its own:  *)
(* one outcome, which is the test's own exit unless the test was cancelled *)
(* or past its limit, and only once nothing that the test started is left; *)
(* or a failure, which says nothing.                                       *)
(* IsolatedProcess is shown to keep it, and MutationChild builds on it.    *)
(***************************************************************************)
CONSTANTS
    Exits,       \* the results that a test's exit status may stand for
    NoResult

VARIABLES
    alive,   \* whether the test or a process it left runs
    exit,    \* how the test exited, once it did
    asked,   \* whether it was cancelled (ControlMsg::KillChildProcess)
    outcome  \* what the run returned

vars == <<alive, exit, asked, outcome>>

Outcomes == Exits \cup {"TimedOut", "Ignored", "Failure"}

TypeOK ==
    /\ {alive, asked} \subseteq BOOLEAN
    /\ exit \in Exits \cup {NoResult}
    /\ outcome \in Outcomes \cup {NoResult}

Init == alive = FALSE /\ exit = NoResult /\ asked = FALSE /\ outcome = NoResult

Start ==
    /\ ~alive /\ exit = NoResult /\ outcome = NoResult
    /\ alive' = TRUE
    /\ UNCHANGED <<exit, asked, outcome>>

\* The test exits; processes it started may be left.
Exit(status) ==
    /\ alive /\ exit = NoResult
    /\ exit' = status
    /\ alive' \in BOOLEAN
    /\ UNCHANGED <<asked, outcome>>

\* What is left of the test is killed and reaped.
Clean ==
    /\ alive
    /\ alive' = FALSE
    /\ UNCHANGED <<exit, asked, outcome>>

Ask ==
    /\ asked' = TRUE
    /\ UNCHANGED <<alive, exit, outcome>>

\* A cancelled test may have exited by itself just before.
Return(limited) ==
    /\ ~alive /\ outcome = NoResult
    /\ outcome' \in ({exit} \ {NoResult}) \cup (IF asked THEN {"Ignored"} ELSE {})
                    \cup (IF limited THEN {"TimedOut"} ELSE {})
    /\ UNCHANGED <<alive, exit, asked>>

Fail ==
    /\ outcome = NoResult
    /\ outcome' = "Failure"
    /\ UNCHANGED <<alive, exit, asked>>

Next == Start \/ Clean \/ Ask \/ Fail \/ Return(TRUE) \/ \E status \in Exits : Exit(status)

Spec == Init /\ [][Next]_vars
=============================================================================
