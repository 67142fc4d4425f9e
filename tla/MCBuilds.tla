------------------------------- MODULE MCBuilds -------------------------------
(* A run of Cargo with its drivers and harnesses (CargoRun), and what one of    *)
(* its drivers does to the program before it is mutated, and to the tests of    *)
(* it after (CompilerPasses), each in behaviours of its own.                    *)
EXTENDS MCCargoRun, CompilerPasses, MCBodyResolutions

H == INSTANCE MCHygienePrograms
MCPrograms == H!HygienePrograms

X == INSTANCE MCExternalMutant
MCSetups == X!Ways

VARIABLE system \* the one that runs: "cargo" or "driver"

buildsVars == <<system, vars, resolvingVars, passes, testBuilds>>

\* One that does not run is about to begin, the driver with an empty crate.
CargoRests == Init /\ job = "no-run" /\ log = <<>> /\ opts = CHOOSE o \in WorkerOptions : TRUE
DriverRests ==
    /\ ResolvingInit /\ krate = Identified(Crates[1], <<>>)
    /\ Hygiene!Starts(EmptyProgram) /\ Tests!Starts(NoTests)

BuildsInit ==
    \/ system = "cargo" /\ Init /\ DriverRests
    \/ system = "driver" /\ CargoRests /\ PassesInit

BuildsNext ==
    \/ system = "cargo" /\ Next /\ UNCHANGED <<system, resolvingVars, passes, testBuilds>>
    \/ system = "driver" /\ PassesNext /\ UNCHANGED <<system, vars>>

\* The fairness of FairSpec of CargoRun and of Passes, each over the variable that the action is sure to change.
BuildsSpec ==
    /\ BuildsInit /\ [][BuildsNext]_buildsVars
    /\ WF_cargo(system = "cargo" /\ EndBuilds)
    /\ \A t \in Targets :
        /\ WF_asked(system = "cargo" /\ NoticeFailure(t)) /\ WF_build(system = "cargo" /\ AbortBuild(t))
        /\ WF_driver(system = "cargo" /\ Proceeds(t))
    /\ WF_testBuilds(system = "driver" /\ BuildTests)
=============================================================================
