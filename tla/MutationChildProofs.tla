-------------------------- MODULE MutationChildProofs --------------------------
(***************************************************************************)
(* Whatever tests are queued, and wherever the child, its monitor or a     *)
(* limit comes in: each result is what that test did, and a test that must *)
(* run alone does.                                                         *)
(***************************************************************************)
EXTENDS MutationChild

Stops == {"stop_stale", "stop_late", "stop_last"}
Given == ChildExits \cup {"TimedOut", "Ignored"}

TypeOK ==
    /\ evaluateAll \in BOOLEAN /\ held \in BOOLEAN /\ pastLimit \in BOOLEAN /\ reports \in BOOLEAN
    /\ ppc \in {"next", "prepare", "poll", "incomplete", "end", "returned"} \cup Stops
    /\ waiting \in Seq(BatchTests) /\ listed \in Seq(BatchTests) /\ turn \in Seq(BatchTests)
    /\ takenTest \in BatchTests \cup {NoneTaken}
    /\ {heard, childExited} \subseteq Given \cup {"Failure", NoAnswer}
    /\ passed \in Seq(Passes) /\ report \in Seq(Passes)
    /\ result \in [BatchTests -> Given \cup {NoAnswer}]
    /\ ran \subseteq BatchTests
    /\ did \in [BatchTests -> {"none", "begun", "unreported", "Failed", "Crashed"} \cup Passes]
    /\ Process!TypeOK

\* A test is queued once, and has a result only when it has left the queue, the list of the child
\* and the hands of the parent.
QueueInv ==
    /\ IsInjective(waiting)
    /\ ppc \in {"prepare", "poll", "stop_stale", "stop_late"} => takenTest \in BatchTests
    /\ takenTest \in BatchTests => takenTest \notin ToSet(waiting) /\ result[takenTest] = NoAnswer
    /\ \A t \in ToSet(waiting) \cup ToSet(listed) : result[t] = NoAnswer
    /\ ~held => listed = <<>>

\* What the monitor told is the outcome of the child, nothing of which is left then.
OutcomeInv ==
    /\ ~held => ~alive
    /\ ppc \in {"poll"} \cup Stops => held
    /\ held /\ ppc \notin Stops \cup {"incomplete"} => ~childAsked
    /\ childOutcome \in Given => ~alive /\ (childOutcome = childExit \/ (childAsked /\ childOutcome = "Ignored"))
    /\ heard # NoAnswer => heard = childOutcome
    /\ childExited # NoAnswer => childExited = heard
    /\ childExited \in Given => report = <<>>

\* The tests that the child has still to run have no result, and have not passed; its exit is what
\* the first of them did.
TurnInv ==
    /\ IsInjective(turn)
    /\ \A i \in DOMAIN turn :
          /\ did[turn[i]] \notin Passes
          /\ turn[i] \notin Ignored
          /\ alive => result[turn[i]] = NoAnswer
    /\ \A t \in Ignored : did[t] = "none"
    /\ childExit # NoAnswer /\ turn # <<>> =>
          did[turn[1]] = IF childExit = "Ok" THEN "unreported" ELSE childExit

\* A test that must run alone was the only one that the child was started for.
AloneInv ==
    \A u \in Unrepeatable : u \in ran \cup ToSet(turn) => ran \cup ToSet(turn) \subseteq {u}

\* The tests whose results the parent expects of the child, in order, and the passes that it has
\* read or has still to read.
Asked(stage, test, list) == IF stage \in {"poll", "stop_late"} THEN <<test>> \o list ELSE list
Expected == Asked(ppc, takenTest, listed)
Ahead == passed \o report

\* The child is as many tests ahead as there are passes, and each pass is of the test in its place.
OrderInv ==
    held /\ ppc # "incomplete" =>
        /\ IsInjective(Expected)
        /\ IF reports
           THEN /\ Len(Expected) = Len(Ahead) + Len(turn)
                /\ \A i \in DOMAIN Ahead : did[Expected[i]] = Ahead[i]
                /\ \A i \in DOMAIN turn : turn[i] = Expected[Len(Ahead) + i]
           ELSE ppc \in {"poll", "stop_late"} /\ Ahead = <<>> /\ turn = <<takenTest>>

IInv ==
    /\ TypeOK /\ QueueInv /\ OutcomeInv /\ TurnInv /\ AloneInv /\ OrderInv
    /\ ResultIsItsTests

Idle == UNCHANGED childVars

-----------------------------------------------------------------------------
\* A phase begins with no child, and all of its tests queued.
LEMMA InitIInv == ChildInit => IInv
<1> SUFFICES ASSUME ChildInit PROVE IInv
  OBVIOUS
<1> USE MutationChildAssumption DEF ChildInit, Process!Init
<1>1. TypeOK
  <2>1. Process!TypeOK
    BY DEF Process!TypeOK
  <2>2. waiting \in Seq(BatchTests)
    OBVIOUS
  <2>3. result \in [BatchTests -> Given \cup {NoAnswer}]
    OBVIOUS
  <2>4. did \in [BatchTests -> {"none", "begun", "unreported", "Failed", "Crashed"} \cup Passes]
    OBVIOUS
  <2>5. ran \subseteq BatchTests /\ passed \in Seq(Passes) /\ report \in Seq(Passes)
    OBVIOUS
  <2>6. listed \in Seq(BatchTests) /\ turn \in Seq(BatchTests) /\ takenTest \in BatchTests \cup {NoneTaken}
    OBVIOUS
  <2>7. {heard, childExited} \subseteq Given \cup {"Failure", NoAnswer}
    OBVIOUS
  <2>8. held \in BOOLEAN /\ pastLimit \in BOOLEAN /\ reports \in BOOLEAN /\ evaluateAll \in BOOLEAN
    OBVIOUS
  <2> QED BY <2>1, <2>2, <2>3, <2>4, <2>5, <2>6, <2>7, <2>8 DEF TypeOK
<1>2. QueueInv
  BY DEF QueueInv, ToSet, IsInjective
<1>3. OutcomeInv /\ TurnInv /\ AloneInv /\ OrderInv
  BY DEF OutcomeInv, TurnInv, AloneInv, OrderInv, ToSet, IsInjective, Given, ChildExits, Stops
<1>4. ResultIsItsTests
  BY DEF ResultIsItsTests
<1> QED BY <1>1, <1>2, <1>3, <1>4 DEF IInv

\* A test with passes ahead of it is none of those.
LEMMA NextIsAhead ==
  ASSUME IInv, held, ppc # "incomplete", turn # <<>>, NEW i \in DOMAIN Ahead
  PROVE  reports => Expected[i] # turn[1]
<1> SUFFICES ASSUME reports PROVE Expected[i] # turn[1]
  OBVIOUS
<1>1. Ahead \in Seq(Passes) /\ turn \in Seq(BatchTests)
  BY DEF IInv, TypeOK, Ahead
<1>2. Expected \in Seq(BatchTests)
  BY DEF IInv, TypeOK, QueueInv, Expected, Asked
<1>3. /\ IsInjective(Expected) /\ Len(Expected) = Len(Ahead) + Len(turn)
      /\ turn[1] = Expected[Len(Ahead) + 1]
  BY <1>1 DEF IInv, OrderInv
<1> HIDE DEF Ahead, Expected
<1>4. Len(turn) \in Nat \ {0} /\ Len(Ahead) \in Nat /\ i \in 1..Len(Ahead)
  BY <1>1
<1>5. i \in DOMAIN Expected /\ Len(Ahead) + 1 \in DOMAIN Expected /\ i # Len(Ahead) + 1
  BY <1>2, <1>3, <1>4
<1> QED BY <1>3, <1>5 DEF IsInjective

-----------------------------------------------------------------------------
(* The child. *)

\* The child begins its next test.
LEMMA BeginKeeps ==
  ASSUME IInv, Begin
  PROVE  IInv'
<1> DEFINE next == turn[1]
<1>1. alive /\ childExit = NoAnswer /\ turn # <<>> /\ held /\ next \in BatchTests
  BY DEF Begin, Runs, IInv, TypeOK, OutcomeInv
<1>2. ran' = ran \cup {next} /\ did' = [did EXCEPT ![next] = "begun"]
  BY <1>1 DEF Begin, Did, IInv, TypeOK
<1>3. UNCHANGED <<queue, ppc, takenTest, held, listed, heard, childExited, passed, pastLimit, turn, reports, report, proc>>
  BY DEF Begin, ParentOnly
<1> HIDE DEF next
<1>4. TypeOK' /\ QueueInv' /\ OutcomeInv'
  BY <1>1, <1>2, <1>3
     DEF IInv, TypeOK, QueueInv, OutcomeInv, queue, proc, Process!TypeOK, Passes
<1>5. TurnInv'
  BY <1>1, <1>2, <1>3 DEF IInv, TypeOK, TurnInv, queue, proc, Passes, next
<1>6. AloneInv'
  <2>1. next \in ToSet(turn)
    BY <1>1 DEF IInv, TypeOK, ToSet, next
  <2> QED BY <2>1, <1>2, <1>3 DEF IInv, AloneInv
<1>7. OrderInv'
  <2>1. Expected' = Expected /\ Ahead' = Ahead
    BY <1>3 DEF Expected, Ahead, queue
  <2>2. ASSUME ppc # "incomplete", reports, NEW i \in DOMAIN Ahead
        PROVE  did'[Expected[i]] = did[Expected[i]]
    <3>1. Expected[i] # next
      BY <1>1, <2>2, NextIsAhead DEF next
    <3>2. DOMAIN did = BatchTests
      BY DEF IInv, TypeOK
    <3>3. Expected[i] \in BatchTests
      <4>1. Expected \in Seq(BatchTests) /\ Ahead \in Seq(Passes) /\ turn \in Seq(BatchTests)
        BY DEF IInv, TypeOK, QueueInv, Expected, Asked, Ahead
      <4>2. Len(Expected) = Len(Ahead) + Len(turn)
        BY <1>1, <2>2 DEF IInv, OrderInv
      <4> QED BY <2>2, <4>1, <4>2
    <3> QED BY <3>1, <3>2, <3>3, <1>2
  <2> HIDE DEF Expected, Ahead
  <2> QED BY <2>1, <2>2, <1>1, <1>3 DEF IInv, OrderInv
<1>8. ResultIsItsTests'
  <2>1. result[next] = NoAnswer
    BY <1>1 DEF IInv, TurnInv, TypeOK, next
  <2> QED BY <2>1, <1>2, <1>3, MutationChildAssumption DEF IInv, TypeOK, ResultIsItsTests, queue
<1> QED BY <1>4, <1>5, <1>6, <1>7, <1>8 DEF IInv

\* The child reports that a test passed.
LEMMA PassKeeps ==
  ASSUME IInv, NEW pass \in Passes, Pass(pass)
  PROVE  IInv'
<1> DEFINE next == turn[1]
<1>1. alive /\ childExit = NoAnswer /\ turn # <<>> /\ held /\ reports /\ next \in BatchTests /\ next \in ran
  BY DEF Pass, RunsFirst, Runs, IInv, TypeOK, OutcomeInv
<1>2. report' = Append(report, pass) /\ turn' = Tail(turn) /\ did' = [did EXCEPT ![next] = pass]
  BY <1>1 DEF Pass, Did, IInv, TypeOK
<1>3. UNCHANGED <<queue, ppc, takenTest, held, listed, heard, childExited, passed, pastLimit, reports, ran, proc>>
  BY DEF Pass, ParentOnly
<1>4. /\ turn' \in Seq(BatchTests) /\ Len(turn) = Len(turn') + 1
      /\ \A i \in DOMAIN turn' : i + 1 \in DOMAIN turn /\ turn'[i] = turn[i + 1]
      /\ ToSet(turn) = ToSet(turn') \cup {next}
  BY <1>1, <1>2, PopLeaves DEF IInv, TypeOK
<1>5. next \notin Ignored /\ did[next] \notin Passes /\ result[next] = NoAnswer
  BY <1>1 DEF IInv, TurnInv, TypeOK
<1>6. IsInjective(turn') /\ \A i \in DOMAIN turn' : turn'[i] # next
  <2>1. turn \in Seq(BatchTests) /\ IsInjective(turn)
    BY DEF IInv, TypeOK, TurnInv
  <2>2. IsInjective(turn') /\ next \notin ToSet(turn')
    BY ONLY <1>1, <1>2, <2>1, PopLeaves DEF next
  <2>3. \A i \in DOMAIN turn' : turn'[i] \in ToSet(turn')
    BY DEF ToSet
  <2> QED BY <2>2, <2>3
<1>7. TypeOK' /\ QueueInv' /\ OutcomeInv'
  <2>1. report' \in Seq(Passes)
    BY <1>2 DEF IInv, TypeOK
  <2>2. childExited \notin Given
    BY <1>1, MutationChildAssumption DEF IInv, OutcomeInv, TypeOK, Given, ChildExits
  <2> QED BY <2>1, <2>2, <1>1, <1>2, <1>3, <1>4
             DEF IInv, TypeOK, QueueInv, OutcomeInv, queue, proc, Process!TypeOK, Passes
<1>8. TurnInv'
  BY <1>1, <1>2, <1>3, <1>4, <1>5, <1>6 DEF IInv, TypeOK, TurnInv, queue, proc
<1>9. AloneInv'
  BY <1>1, <1>3, <1>4 DEF IInv, AloneInv
<1>10. ASSUME ppc # "incomplete"
       PROVE  OrderInv'
  <2>1. /\ Expected \in Seq(BatchTests) /\ Ahead \in Seq(Passes) /\ Expected' = Expected
        /\ turn \in Seq(BatchTests)
    BY <1>3 DEF IInv, TypeOK, QueueInv, Expected, Asked, Ahead
  <2>2. /\ IsInjective(Expected) /\ Len(Expected) = Len(Ahead) + Len(turn)
        /\ \A i \in DOMAIN Ahead : did[Expected[i]] = Ahead[i]
        /\ \A i \in DOMAIN turn : turn[i] = Expected[Len(Ahead) + i]
    BY <1>1, <1>10 DEF IInv, OrderInv
  <2>3. Ahead' = Append(Ahead, pass)
    <3>1. passed \in Seq(Passes) /\ report \in Seq(Passes)
      BY DEF IInv, TypeOK
    <3>2. passed \o Append(report, pass) = Append(passed \o report, pass)
      BY <3>1
    <3> QED BY <3>2, <1>2, <1>3 DEF Ahead
  <2>4. /\ Ahead' \in Seq(Passes) /\ Len(Ahead') = Len(Ahead) + 1 /\ Ahead'[Len(Ahead) + 1] = pass
        /\ \A i \in 1..Len(Ahead) : Ahead'[i] = Ahead[i]
    BY <2>1, <2>3
  <2>5. Len(Expected) = Len(Ahead') + Len(turn')
    BY <2>1, <2>2, <2>4, <1>4
  <2>6. \A i \in DOMAIN turn' : turn'[i] = Expected[Len(Ahead') + i]
    <3> SUFFICES ASSUME NEW i \in DOMAIN turn' PROVE turn'[i] = Expected[Len(Ahead') + i]
      OBVIOUS
    <3>1. i + 1 \in DOMAIN turn /\ turn'[i] = turn[i + 1]
      BY <1>4
    <3>2. turn[i + 1] = Expected[Len(Ahead) + (i + 1)]
      BY <3>1, <2>2
    <3>3. i \in Nat /\ Len(Ahead) \in Nat
      BY <1>4, <2>1
    <3>4. Len(Ahead) + (i + 1) = Len(Ahead') + i
      BY ONLY <3>3, <2>4
    <3> QED BY <3>1, <3>2, <3>4
  <2>7. Expected[Len(Ahead) + 1] = next /\ 1 \in DOMAIN turn
    BY <2>1, <2>2, <1>1
  <2>8. \A i \in 1..Len(Ahead) : Expected[i] # next
    BY <2>1, <2>2, <2>7 DEF IsInjective
  <2>9. \A i \in DOMAIN Ahead' : did'[Expected[i]] = Ahead'[i]
    <3> SUFFICES ASSUME NEW i \in DOMAIN Ahead' PROVE did'[Expected[i]] = Ahead'[i]
      OBVIOUS
    <3>1. did' = [did EXCEPT ![next] = pass] /\ DOMAIN did = BatchTests
      BY <1>2 DEF IInv, TypeOK
    <3>2. CASE i = Len(Ahead) + 1
      BY <3>1, <3>2, <2>4, <2>7, <1>1
    <3>3. CASE i \in 1..Len(Ahead)
      <4>1. Expected[i] \in BatchTests
        BY <3>3, <2>1, <2>2, <2>7
      <4> QED BY <4>1, <3>1, <3>3, <2>1, <2>2, <2>4, <2>8
    <3> QED BY <3>2, <3>3, <2>1, <2>4
  <2> QED BY <2>1, <2>2, <2>5, <2>6, <2>9, <1>1, <1>3 DEF OrderInv
<1>11. OrderInv'
  BY <1>3, <1>10 DEF OrderInv
<1>12. ResultIsItsTests'
  BY <1>2, <1>3, <1>5, MutationChildAssumption DEF IInv, TypeOK, ResultIsItsTests, queue
<1> QED BY <1>7, <1>8, <1>9, <1>11, <1>12 DEF IInv

\* The child ends with the test that it is running, or with none left to run.
LEMMA ExitKeeps ==
  ASSUME IInv, NEW status \in ChildExits,
         Runs, Process!Exit(status), ParentOnly, UNCHANGED <<turn, reports, report, ran>>,
         \/ turn = <<>> /\ status = "Ok" /\ UNCHANGED did
         \/ turn # <<>> /\ Did(turn[1], IF status = "Ok" THEN "unreported" ELSE status)
  PROVE  IInv'
<1>1. alive /\ childExit = NoAnswer /\ held /\ ~(heard \in Given \/ childExited \in Given \/ childOutcome \in Given)
  BY MutationChildAssumption DEF Runs, IInv, TypeOK, OutcomeInv, Given, ChildExits
<1>2. childExit' = status /\ alive' \in BOOLEAN /\ UNCHANGED <<childAsked, childOutcome>>
  BY DEF Process!Exit
<1>3. UNCHANGED <<queue, ppc, takenTest, held, listed, heard, childExited, passed, pastLimit, turn, reports, report, ran>>
  BY DEF ParentOnly
<1>4. did' \in [BatchTests -> {"none", "begun", "unreported", "Failed", "Crashed"} \cup Passes]
  BY DEF Did, IInv, TypeOK, ChildExits
<1>5. \A t \in BatchTests : did'[t] = did[t] \/ (turn # <<>> /\ t = turn[1] /\ did'[t] \notin Passes)
  BY DEF Did, IInv, TypeOK, ChildExits, Passes
<1>6. turn # <<>> => turn[1] \in BatchTests /\ 1 \in DOMAIN turn /\ result[turn[1]] = NoAnswer
                     /\ turn[1] \notin Ignored
  BY <1>1 DEF IInv, TypeOK, TurnInv
<1>7. TypeOK' /\ QueueInv' /\ OutcomeInv'
  <2>1. childExit' \in ChildExits /\ childExit' # NoAnswer
    BY <1>2, MutationChildAssumption DEF ChildExits
  <2>2. Process!TypeOK'
    BY <2>1, <1>2 DEF IInv, TypeOK, Process!TypeOK
  <2>3. TypeOK' /\ QueueInv'
    BY <2>2, <1>3, <1>4 DEF IInv, TypeOK, QueueInv, queue
  <2>4. OutcomeInv'
    BY <1>1, <1>2, <1>3 DEF IInv, TypeOK, OutcomeInv
  <2> QED BY <2>3, <2>4
<1>8. TurnInv' /\ AloneInv'
  <2>1. turn # <<>> => did'[turn[1]] = IF status = "Ok" THEN "unreported" ELSE status
    BY <1>6 DEF Did, IInv, TypeOK
  <2>2. \A i \in DOMAIN turn : turn[i] \in BatchTests
    BY DEF IInv, TypeOK
  <2>3. \A t \in Ignored : t \in BatchTests /\ did'[t] = did[t]
    BY <1>5, <1>6, MutationChildAssumption
  <2>4. AloneInv'
    BY <1>3 DEF IInv, AloneInv
  <2>5. TurnInv'
    BY <2>1, <2>2, <2>3, <1>1, <1>2, <1>3, <1>5 DEF IInv, TurnInv, queue
  <2> QED BY <2>4, <2>5
<1>9. OrderInv'
  <2>1. Expected' = Expected /\ Ahead' = Ahead
    BY <1>3 DEF Expected, Ahead
  <2>2. ASSUME ppc # "incomplete", reports, NEW i \in DOMAIN Ahead
        PROVE  did'[Expected[i]] = did[Expected[i]]
    <3>1. Expected \in Seq(BatchTests) /\ Ahead \in Seq(Passes) /\ turn \in Seq(BatchTests)
      BY DEF IInv, TypeOK, QueueInv, Expected, Asked, Ahead
    <3>2. Len(Expected) = Len(Ahead) + Len(turn) /\ did[Expected[i]] \in Passes
      BY <1>1, <2>2, <3>1 DEF IInv, OrderInv
    <3>3. Expected[i] \in BatchTests
      BY <3>1, <3>2
    <3>4. turn # <<>> => Expected[i] # turn[1]
      BY <1>1, <2>2, NextIsAhead
    <3> QED BY <3>3, <3>4, <1>5
  <2> QED BY <2>1, <2>2, <1>1, <1>3 DEF IInv, OrderInv
<1>10. ResultIsItsTests'
  BY <1>3, <1>5, <1>6, MutationChildAssumption DEF IInv, ResultIsItsTests, queue
<1> QED BY <1>7, <1>8, <1>9, <1>10 DEF IInv

\* Every step of the child.
LEMMA ChildKeeps ==
  ASSUME IInv, Child
  PROVE  IInv'
<1>1. ASSUME RunsFirst PROVE turn # <<>> /\ Head(turn) = turn[1]
  BY <1>1 DEF RunsFirst, IInv, TypeOK
<1>2. CASE PassUnreported
  BY <1>1, <1>2, ExitKeeps DEF PassUnreported, RunsFirst, ChildExits
<1>3. ASSUME NEW status \in {"Failed", "Crashed"}, FailOrCrash(status)
      PROVE  IInv'
  BY <1>1, <1>3, ExitKeeps DEF FailOrCrash, RunsFirst, ChildExits
<1>4. CASE AllPassed
  BY <1>4, ExitKeeps DEF AllPassed, child, ChildExits
<1> QED BY <1>2, <1>3, <1>4, BeginKeeps, PassKeeps DEF Child

-----------------------------------------------------------------------------
(* The owner and the monitor of the child, and time. *)

\* What the owner of the process does by itself, and the limit.
LEMMA OwnerKeeps ==
  ASSUME IInv, CleanChild \/ SendOutcome \/ ChildMonitorFails \/ TakenLimitPasses
  PROVE  IInv'
<1>1. UNCHANGED <<queue, ppc, takenTest, held, listed, heard, childExited, passed, child, childAsked, childExit>>
  BY DEF CleanChild, SendOutcome, ChildMonitorFails, TakenLimitPasses, ParentOnly, Process!Clean,
         Process!Return, Process!Fail, proc
<1>2. \/ UNCHANGED <<alive, childOutcome>> /\ pastLimit' = TRUE
      \/ alive' = FALSE /\ UNCHANGED <<childOutcome, pastLimit>>
      \/ /\ childOutcome = NoAnswer /\ UNCHANGED <<alive, pastLimit>>
         /\ \/ childOutcome' = "Failure"
            \/ ~alive /\ childOutcome' # NoAnswer /\ childOutcome' = childExit
            \/ ~alive /\ childAsked /\ childOutcome' = "Ignored"
  BY DEF CleanChild, SendOutcome, ChildMonitorFails, TakenLimitPasses, ParentOnly, Process!Clean,
         Process!Return, Process!Fail, proc
<1>3. TypeOK'
  <2>1. Process!TypeOK' /\ pastLimit' \in BOOLEAN
    BY <1>1, <1>2 DEF IInv, TypeOK, Process!TypeOK, Process!Outcomes
  <2> QED BY <2>1, <1>1 DEF IInv, TypeOK, queue, child
<1>4. QueueInv' /\ AloneInv' /\ OrderInv' /\ ResultIsItsTests'
  BY <1>1 DEF IInv, QueueInv, AloneInv, OrderInv, Expected, Ahead, ResultIsItsTests, queue, child
<1>5. OutcomeInv'
  <2>1. NoAnswer \notin Given /\ "Failure" \notin Given
    BY MutationChildAssumption DEF Given, ChildExits
  <2> QED BY <2>1, <1>1, <1>2 DEF IInv, TypeOK, OutcomeInv, child
<1>6. TurnInv'
  BY <1>1, <1>2 DEF IInv, TurnInv, queue, child
<1> QED BY <1>3, <1>4, <1>5, <1>6 DEF IInv

-----------------------------------------------------------------------------
(* The parent, while it waits. *)

\* The outcome of the process is taken from its owner.
LEMMA HearKeeps ==
  ASSUME IInv, Hear
  PROVE  IInv'
<1>1. heard' = childOutcome /\ childOutcome # NoAnswer /\ childExited = NoAnswer
  BY DEF Hear, MustWait
<1>2. UNCHANGED <<queue, ppc, takenTest, held, listed, childExited, passed, pastLimit, child, proc>>
  BY DEF Hear
<1>3. TypeOK'
  BY <1>1, <1>2 DEF IInv, TypeOK, Process!TypeOK, Process!Outcomes, queue, child, proc, Given
<1>4. QueueInv' /\ TurnInv' /\ AloneInv' /\ OrderInv' /\ ResultIsItsTests'
  BY <1>2 DEF IInv, QueueInv, TurnInv, AloneInv, OrderInv, Expected, Ahead, ResultIsItsTests,
              queue, child, proc
<1>5. OutcomeInv'
  BY <1>1, <1>2 DEF IInv, OutcomeInv, queue, child, proc
<1> QED BY <1>3, <1>4, <1>5 DEF IInv

\* The reports that the child left are read to the end.
LEMMA ReadKeeps ==
  ASSUME IInv, Read
  PROVE  IInv'
<1>1. passed' = passed \o report /\ report' = <<>> /\ childExited' = heard
  BY DEF Read
<1>2. UNCHANGED <<queue, ppc, takenTest, held, listed, heard, pastLimit, turn, reports, ran, did, proc>>
  BY DEF Read
<1>3. passed \in Seq(Passes) /\ report \in Seq(Passes) /\ Ahead' = Ahead
  <2>1. (passed \o report) \o <<>> = passed \o report
    BY DEF IInv, TypeOK
  <2> QED BY <2>1, <1>1 DEF IInv, TypeOK, Ahead
<1>4. TypeOK'
  BY <1>1, <1>2, <1>3 DEF IInv, TypeOK, Process!TypeOK, Process!Outcomes, queue, proc
<1>5. QueueInv' /\ TurnInv' /\ AloneInv' /\ OrderInv' /\ ResultIsItsTests'
  BY <1>2, <1>3 DEF IInv, QueueInv, TurnInv, AloneInv, OrderInv, Expected, ResultIsItsTests,
                    queue, proc
<1>6. OutcomeInv'
  BY <1>1, <1>2 DEF IInv, OutcomeInv, queue, proc
<1> QED BY <1>4, <1>5, <1>6 DEF IInv

\* A child that is stopped is the one whose tests were asked for so far.
LEMMA KillKeeps ==
  ASSUME IInv, StopStale \/ StopLate \/ StopLast
  PROVE  IInv'
<1>1. /\ held
      /\ \/ ppc = "prepare" /\ ppc' = "stop_stale"
         \/ ppc = "poll" /\ ppc' = "stop_late"
         \/ ppc = "end" /\ ppc' = "stop_last"
  BY DEF StopStale, StopLate, StopLast, Stale, Kill, IInv, OutcomeInv
<1>2. UNCHANGED <<queue, takenTest, held, listed, heard, childExited, passed, pastLimit, child, alive, childExit, childOutcome>>
  BY DEF StopStale, StopLate, StopLast, Kill, Process!Ask, proc
<1>3. childAsked' \in BOOLEAN /\ (childAsked => childAsked')
  BY DEF StopStale, StopLate, StopLast, Kill, Process!Ask, proc, IInv, TypeOK, Process!TypeOK
<1>4. TypeOK'
  BY <1>1, <1>2, <1>3 DEF IInv, TypeOK, Process!TypeOK, queue, child, Stops
<1>5. QueueInv' /\ TurnInv' /\ AloneInv' /\ ResultIsItsTests'
  BY <1>1, <1>2 DEF IInv, QueueInv, TurnInv, AloneInv, ResultIsItsTests, queue, child
<1>6. OutcomeInv'
  BY <1>1, <1>2, <1>3 DEF IInv, OutcomeInv, queue, child, Stops
<1>7. OrderInv'
  BY <1>1, <1>2 DEF IInv, OrderInv, Expected, Asked, Ahead, queue, child
<1> QED BY <1>4, <1>5, <1>6, <1>7 DEF IInv

\* The parent takes the next test, finds none, or returns.
LEMMA TakeKeeps ==
  ASSUME IInv, Pop \/ QueueEmpty \/ Return
  PROVE  IInv'
<1>1. UNCHANGED <<evaluateAll, result, held, listed, heard, childExited, passed, pastLimit, child, proc>>
  BY DEF Pop, QueueEmpty, Return, QueueOnly, queue
<1>2. \/ ppc = "next" /\ ppc' = "end" /\ takenTest' = NoneTaken /\ UNCHANGED waiting
      \/ ppc = "end" /\ ppc' = "returned" /\ ~held /\ UNCHANGED <<takenTest, waiting>>
      \/ /\ ppc = "next" /\ ppc' = "prepare" /\ takenTest' = waiting[1] /\ waiting # <<>>
         /\ waiting' = Tail(waiting)
  BY DEF Pop, QueueEmpty, Return, queue, IInv, TypeOK
<1>3. waiting \in Seq(BatchTests) /\ IsInjective(waiting)
  BY DEF IInv, TypeOK, QueueInv
<1>4. /\ waiting' \in Seq(BatchTests) /\ IsInjective(waiting')
      /\ ToSet(waiting') \subseteq ToSet(waiting)
      /\ takenTest' \in BatchTests \cup {NoneTaken} /\ (ppc' = "prepare" => takenTest' \in BatchTests)
      /\ takenTest' \in BatchTests => takenTest' \notin ToSet(waiting') /\ result[takenTest'] = NoAnswer
  <2>1. CASE ppc' = "prepare"
    <3>1. waiting # <<>> /\ takenTest' = waiting[1] /\ waiting' = Tail(waiting)
      BY <1>2, <2>1
    <3>2. /\ waiting[1] \in BatchTests /\ waiting[1] \in ToSet(waiting)
          /\ Tail(waiting) \in Seq(BatchTests) /\ ToSet(Tail(waiting)) \subseteq ToSet(waiting)
          /\ IsInjective(Tail(waiting)) /\ waiting[1] \notin ToSet(Tail(waiting))
      BY <1>3, <3>1, PopLeaves
    <3> QED BY <2>1, <3>1, <3>2 DEF IInv, QueueInv
  <2>2. CASE ppc' # "prepare"
    BY <1>2, <1>3, <2>2, MutationChildAssumption DEF IInv, TypeOK, QueueInv
  <2> QED BY <2>1, <2>2
<1>5. TypeOK'
  BY <1>1, <1>2, <1>4 DEF IInv, TypeOK, Process!TypeOK, child, proc
<1>6. QueueInv'
  BY <1>1, <1>2, <1>4 DEF IInv, QueueInv
<1>7. OutcomeInv'
  BY <1>1, <1>2 DEF IInv, OutcomeInv, child, proc, Stops
<1>8. TurnInv' /\ AloneInv' /\ ResultIsItsTests'
  BY <1>1 DEF IInv, TurnInv, AloneInv, ResultIsItsTests, child, proc
<1>9. OrderInv'
  BY <1>1, <1>2 DEF IInv, OrderInv, Expected, Asked, Ahead, child, proc
<1> QED BY <1>5, <1>6, <1>7, <1>8, <1>9 DEF IInv

\* The child that is held goes on with the next test of its list.
LEMMA AskNextKeeps ==
  ASSUME IInv, AskNext
  PROVE  IInv'
<1>1. /\ ppc = "prepare" /\ ppc' = "poll" /\ held /\ listed # <<>> /\ listed[1] = takenTest
      /\ listed' = Tail(listed) /\ pastLimit' = FALSE
  BY DEF AskNext, Stale, IInv, TypeOK
<1>2. UNCHANGED <<queue, takenTest, held, heard, childExited, passed, child, proc>>
  BY DEF AskNext
<1>3. takenTest \in BatchTests /\ listed' \in Seq(BatchTests) /\ ToSet(listed') \subseteq ToSet(listed)
  BY <1>1, PopLeaves DEF IInv, TypeOK, QueueInv
<1>4. Expected' = Expected
  <2>1. <<takenTest>> \o Tail(listed) = listed
    BY <1>1, PopAndPush DEF IInv, TypeOK
  <2> QED BY <2>1, <1>1, <1>2 DEF Expected, Asked
<1>5. TypeOK'
  BY <1>1, <1>2, <1>3 DEF IInv, TypeOK, Process!TypeOK, queue, child, proc
<1>6. QueueInv'
  BY <1>1, <1>2, <1>3 DEF IInv, QueueInv, queue
<1>7. OutcomeInv'
  BY <1>1, <1>2 DEF IInv, OutcomeInv, child, proc, Stops
<1>8. TurnInv' /\ AloneInv' /\ ResultIsItsTests'
  BY <1>2 DEF IInv, TurnInv, AloneInv, ResultIsItsTests, queue, child, proc
<1>9. OrderInv'
  BY <1>1, <1>2, <1>4 DEF IInv, OrderInv, Ahead, child
<1> QED BY <1>5, <1>6, <1>7, <1>8, <1>9 DEF IInv

-----------------------------------------------------------------------------
(* The start of a child. *)

\* The queue is cut before the first test that does not follow on.
LEMMA FollowingHolds ==
  ASSUME TypeOK, QueueInv
  PROVE  /\ Following \in Seq(BatchTests) /\ IsInjective(Following)
         /\ ToSet(Following) \subseteq {u \in ToSet(waiting) : FollowOn(u)}
<1> DEFINE Cut(i) == /\ \A j \in 1..i : FollowOn(waiting[j])
                     /\ i < Len(waiting) => ~FollowOn(waiting[i + 1])
           n == CHOOSE i \in 0..Len(waiting) : Cut(i)
           Barriers == {i \in 0..Len(waiting) : i < Len(waiting) => ~FollowOn(waiting[i + 1])}
<1>1. waiting \in Seq(BatchTests) /\ Len(waiting) \in Nat
  BY DEF TypeOK
<1>2. \E i \in 0..Len(waiting) : Cut(i)
  <2>1. Barriers \subseteq Nat /\ Len(waiting) \in Barriers
    BY <1>1
  <2> HIDE DEF Barriers
  <2>2. PICK i \in Barriers : \A k \in Barriers : i <= k
    BY <2>1, LeastNatural
  <2>3. i \in 0..Len(waiting) /\ (i < Len(waiting) => ~FollowOn(waiting[i + 1]))
    BY <2>2 DEF Barriers
  <2>4. ASSUME NEW j \in 1..i
        PROVE  FollowOn(waiting[j])
    <3>1. j - 1 \notin Barriers /\ j - 1 \in 0..Len(waiting) /\ j - 1 < Len(waiting)
      BY <2>1, <2>2, <2>3, <1>1
    <3>2. FollowOn(waiting[(j - 1) + 1])
      BY <3>1 DEF Barriers
    <3> QED BY <3>2
  <2> QED BY <2>3, <2>4
<1>3. n \in 0..Len(waiting) /\ Cut(n)
  BY <1>2
<1>4. Following = SubSeq(waiting, 1, n)
  BY DEF Following
<1> HIDE DEF n
<1>5. /\ Following \in Seq(BatchTests) /\ Len(Following) = n
      /\ \A i \in 1..n : Following[i] = waiting[i]
  BY <1>1, <1>3, <1>4
<1>6. IsInjective(Following)
  BY <1>1, <1>3, <1>5 DEF QueueInv, IsInjective
<1>7. ToSet(Following) \subseteq {u \in ToSet(waiting) : FollowOn(u)}
  BY <1>1, <1>3, <1>5 DEF ToSet
<1> QED BY <1>5, <1>6, <1>7

\* A child is started for tests that all may share it, none of which has a result.
LEMMA BatchHolds ==
  ASSUME TypeOK, QueueInv, takenTest \in BatchTests, takenTest \notin Ignored
  PROVE  /\ Batch \in Seq(BatchTests) /\ Tail(Batch) \in Seq(BatchTests) /\ Batch = <<takenTest>> \o Tail(Batch)
         /\ Batch[1] = takenTest /\ 1 \in DOMAIN Batch /\ IsInjective(Batch)
         /\ ToSet(Batch) = ToSet(Tail(Batch)) \cup {takenTest}
         /\ \A t \in ToSet(Batch) : t \notin Ignored /\ result[t] = NoAnswer
         /\ \A u \in Unrepeatable : u \in ToSet(Batch) => ToSet(Batch) \subseteq {u}
<1> DEFINE rest == IF takenTest \in Unrepeatable THEN <<>> ELSE Following
<1>1. rest \in Seq(BatchTests) /\ IsInjective(rest) /\ ToSet(rest) \subseteq ToSet(waiting)
  BY FollowingHolds DEF IsInjective, ToSet
<1>2. \A u \in ToSet(rest) : u \notin Ignored /\ u \notin Unrepeatable
  BY FollowingHolds DEF FollowOn, ToSet
<1>3. takenTest \in Unrepeatable => ToSet(rest) = {}
  BY DEF ToSet
<1>4. Batch = <<takenTest>> \o rest
  BY DEF Batch
<1>5. takenTest \notin ToSet(rest)
  BY <1>1 DEF QueueInv
<1> HIDE DEF rest
<1>6. /\ Batch \in Seq(BatchTests) /\ Len(Batch) = Len(rest) + 1 /\ Batch[1] = takenTest
      /\ Tail(Batch) = rest /\ ToSet(Batch) = ToSet(rest) \cup {takenTest} /\ IsInjective(Batch)
  BY <1>1, <1>4, <1>5, PushFrontHolds
<1>7. \A t \in ToSet(Batch) : t \notin Ignored /\ result[t] = NoAnswer
  BY <1>1, <1>2, <1>6 DEF QueueInv
<1>8. \A u \in Unrepeatable : u \in ToSet(Batch) => ToSet(Batch) \subseteq {u}
  BY <1>2, <1>3, <1>6
<1>9. 1 \in DOMAIN Batch
  BY <1>1, <1>6
<1> QED BY <1>1, <1>4, <1>6, <1>7, <1>8, <1>9

\* Another child is given what is queued.
LEMMA SpawnKeeps ==
  ASSUME IInv, SpawnChild
  PROVE  IInv'
<1>1. /\ ppc = "prepare" /\ ppc' = "poll" /\ ~held /\ held' = TRUE /\ takenTest \in BatchTests /\ takenTest \notin Ignored
      /\ listed' = Tail(Batch) /\ reports' \in BOOLEAN /\ report' = <<>> /\ passed' = <<>> /\ ran' = {}
  BY DEF SpawnChild, IInv, QueueInv
<1>2. /\ heard' = NoAnswer /\ childExited' = NoAnswer /\ pastLimit' = FALSE
      /\ alive' = TRUE /\ childExit' = NoAnswer /\ childAsked' = FALSE /\ childOutcome' = NoAnswer
      /\ UNCHANGED <<evaluateAll, waiting, result, takenTest>>
  BY DEF SpawnChild, queue
<1>3. turn' = IF reports' THEN Batch ELSE <<takenTest>>
  BY DEF SpawnChild
<1>4. did' = [t \in BatchTests |-> IF t \in ToSet(Batch) THEN "none" ELSE did[t]]
  BY DEF SpawnChild
<1>5. /\ Batch \in Seq(BatchTests) /\ Tail(Batch) \in Seq(BatchTests) /\ Batch = <<takenTest>> \o Tail(Batch)
      /\ Batch[1] = takenTest /\ 1 \in DOMAIN Batch /\ IsInjective(Batch)
      /\ ToSet(Batch) = ToSet(Tail(Batch)) \cup {takenTest}
      /\ \A t \in ToSet(Batch) : t \notin Ignored /\ result[t] = NoAnswer
      /\ \A u \in Unrepeatable : u \in ToSet(Batch) => ToSet(Batch) \subseteq {u}
  BY <1>1, BatchHolds DEF IInv
<1> HIDE DEF Batch
<1>6. /\ turn' \in Seq(BatchTests) /\ IsInjective(turn') /\ ToSet(turn') \subseteq ToSet(Batch)
      /\ \A i \in DOMAIN turn' : turn'[i] \in ToSet(Batch)
  <2>1. <<takenTest>> \in Seq(BatchTests) /\ IsInjective(<<takenTest>>) /\ ToSet(<<takenTest>>) = {takenTest}
    BY <1>1 DEF IsInjective, ToSet
  <2>2. turn' \in Seq(BatchTests) /\ IsInjective(turn') /\ ToSet(turn') \subseteq ToSet(Batch)
    BY <2>1, <1>3, <1>5
  <2>3. \A i \in DOMAIN turn' : turn'[i] \in ToSet(turn')
    BY DEF ToSet
  <2> QED BY <2>2, <2>3
<1>7. TypeOK'
  <2>1. did' \in [BatchTests -> {"none", "begun", "unreported", "Failed", "Crashed"} \cup Passes]
    BY <1>4 DEF IInv, TypeOK
  <2>2. Process!TypeOK'
    BY <1>2 DEF Process!TypeOK
  <2>3. {heard', childExited'} \subseteq Given \cup {"Failure", NoAnswer}
    BY <1>2
  <2>4. report' \in Seq(Passes) /\ passed' \in Seq(Passes)
    BY <1>1
  <2> QED BY <2>1, <2>2, <2>3, <2>4, <1>1, <1>2, <1>5, <1>6 DEF IInv, TypeOK
<1>8. QueueInv'
  BY <1>1, <1>2, <1>5 DEF IInv, QueueInv
<1>9. OutcomeInv'
  BY <1>1, <1>2, MutationChildAssumption DEF IInv, OutcomeInv, Given, ChildExits
<1>10. TurnInv'
  <2>1. \A t \in ToSet(Batch) : t \in BatchTests /\ did'[t] = "none"
    BY <1>4, <1>5 DEF ToSet
  <2>2. \A t \in Ignored : did'[t] = "none"
    BY <1>4, MutationChildAssumption DEF IInv, TurnInv
  <2> QED BY <2>1, <2>2, <1>2, <1>5, <1>6 DEF TurnInv, Passes
<1>11. AloneInv'
  BY <1>1, <1>5, <1>6 DEF AloneInv
<1>12. OrderInv'
  <2>1. Expected' = Batch
    BY <1>1, <1>2, <1>5 DEF Expected, Asked
  <2>2. Ahead' = <<>>
    BY <1>1 DEF Ahead
  <2> QED BY <2>1, <2>2, <1>1, <1>2, <1>3, <1>5 DEF OrderInv
<1>13. ResultIsItsTests'
  BY <1>2, <1>4, <1>5, MutationChildAssumption DEF IInv, ResultIsItsTests
<1> QED BY <1>7, <1>8, <1>9, <1>10, <1>11, <1>12, <1>13 DEF IInv

-----------------------------------------------------------------------------
(* The results. *)

\* The test that is given a result leaves the hands of the parent, and no test but it gets one.
LEMMA GiveHolds ==
  ASSUME IInv, takenTest \in BatchTests, NEW r \in Given, Give(r)
  PROVE  /\ result' \in [BatchTests -> Given \cup {NoAnswer}] /\ result'[takenTest] = r
         /\ \A t \in BatchTests \ {takenTest} : result'[t] = result[t]
         /\ waiting' \in Seq(BatchTests) /\ IsInjective(waiting')
         /\ ToSet(waiting') \subseteq ToSet(waiting)
         /\ takenTest' = NoneTaken /\ ppc' \in {"next", "end"} /\ UNCHANGED evaluateAll
<1>1. result' = [result EXCEPT ![takenTest] = r]
  BY DEF Give
<1>2. result \in [BatchTests -> Given \cup {NoAnswer}]
  BY DEF IInv, TypeOK
<1>3. waiting \in Seq(BatchTests) /\ IsInjective(waiting)
  BY DEF IInv, TypeOK, QueueInv
<1>4. \/ waiting' = waiting
      \/ waiting' = Keep(waiting, {u \in BatchTests : BatchMutationOf[u] # BatchMutationOf[takenTest]})
  BY DEF Give
<1>5. /\ waiting' \in Seq(BatchTests) /\ IsInjective(waiting')
      /\ ToSet(waiting') \subseteq ToSet(waiting)
  <2>1. \A S : /\ Keep(waiting, S) \in Seq(BatchTests) /\ IsInjective(Keep(waiting, S))
               /\ ToSet(Keep(waiting, S)) \subseteq ToSet(waiting)
    BY <1>3, KeepKeeps
  <2> QED BY <2>1, <1>3, <1>4
<1>6. takenTest' = NoneTaken /\ ppc' \in {"next", "end"} /\ UNCHANGED evaluateAll
  BY DEF Give
<1> QED BY <1>1, <1>2, <1>5, <1>6

\* The queue after a result, if the test is not listed any more.
LEMMA GiveKeepsQueue ==
  ASSUME IInv, takenTest \in BatchTests, NEW r \in Given, Give(r), listed' \in Seq(BatchTests),
         ToSet(listed') \subseteq ToSet(listed) \ {takenTest}, ~held' => listed' = <<>>
  PROVE  QueueInv'
<1>1. /\ \A t \in BatchTests \ {takenTest} : result'[t] = result[t]
      /\ waiting' \in Seq(BatchTests) /\ IsInjective(waiting')
      /\ ToSet(waiting') \subseteq ToSet(waiting)
      /\ takenTest' = NoneTaken /\ ppc' \in {"next", "end"}
  BY GiveHolds
<1>2. takenTest \notin ToSet(waiting) /\ \A t \in ToSet(waiting) \cup ToSet(listed) : result[t] = NoAnswer
  BY DEF IInv, QueueInv
<1>3. ToSet(waiting) \cup ToSet(listed) \subseteq BatchTests
  BY DEF IInv, TypeOK, ToSet
<1>4. \A t \in ToSet(waiting') \cup ToSet(listed') : result'[t] = NoAnswer
  BY <1>1, <1>2, <1>3
<1> QED BY <1>1, <1>4, MutationChildAssumption DEF QueueInv

\* A result with which the child goes.
LEMMA LastGiveKeeps ==
  ASSUME IInv, takenTest \in BatchTests, NEW r \in Given, Give(r), Drop, UNCHANGED <<child, proc>>, ~alive,
         r = "Ok" => did[takenTest] \in {"quick", "unreported"},
         r \in {"Failed", "Crashed"} => did[takenTest] = r,
         r = "TimedOut" => did[takenTest] # "quick",
         r # "Ignored"
  PROVE  IInv'
<1>1. /\ result' \in [BatchTests -> Given \cup {NoAnswer}] /\ result'[takenTest] = r
      /\ \A t \in BatchTests \ {takenTest} : result'[t] = result[t]
      /\ waiting' \in Seq(BatchTests) /\ takenTest' = NoneTaken /\ ppc' \in {"next", "end"}
      /\ UNCHANGED evaluateAll
  BY GiveHolds
<1>2. /\ held' = FALSE /\ listed' = <<>> /\ heard' = NoAnswer /\ childExited' = NoAnswer
      /\ passed' = <<>> /\ pastLimit' = FALSE
  BY DEF Drop
<1>3. UNCHANGED <<turn, reports, report, ran, did, alive, childExit, childAsked, childOutcome>>
  BY DEF child, proc
<1>4. TypeOK'
  <2>1. Process!TypeOK' /\ {heard', childExited'} \subseteq Given \cup {"Failure", NoAnswer}
    BY <1>2, <1>3 DEF IInv, TypeOK, Process!TypeOK
  <2>2. listed' \in Seq(BatchTests) /\ passed' \in Seq(Passes)
    BY <1>2
  <2> QED BY <2>1, <2>2, <1>1, <1>2, <1>3 DEF IInv, TypeOK
<1>5. QueueInv'
  <2>1. ToSet(<<>>) = {}
    BY DEF ToSet
  <2> QED BY <2>1, <1>2, GiveKeepsQueue
<1>6. OutcomeInv'
  BY <1>1, <1>2, <1>3, MutationChildAssumption DEF IInv, OutcomeInv, Given, ChildExits, Stops
<1>7. TurnInv' /\ AloneInv'
  BY <1>3 DEF IInv, TurnInv, AloneInv
<1>8. OrderInv'
  BY <1>2 DEF OrderInv
<1>9. ResultIsItsTests'
  BY <1>1, <1>3 DEF IInv, ResultIsItsTests
<1> QED BY <1>4, <1>5, <1>6, <1>7, <1>8, <1>9 DEF IInv

\* An ignored test is given its result without a child.
LEMMA GiveIgnoredKeeps ==
  ASSUME IInv, GiveIgnored
  PROVE  IInv'
<1>1. ~held /\ takenTest \in BatchTests /\ takenTest \in Ignored /\ Give("Ignored") /\ "Ignored" \in Given
  BY DEF GiveIgnored, IInv, QueueInv, Given
<1>2. UNCHANGED <<held, listed, heard, childExited, passed, pastLimit, child, proc>>
  BY DEF GiveIgnored, QueueOnly
<1>3. /\ result' \in [BatchTests -> Given \cup {NoAnswer}] /\ result'[takenTest] = "Ignored"
      /\ \A t \in BatchTests \ {takenTest} : result'[t] = result[t]
      /\ waiting' \in Seq(BatchTests) /\ takenTest' = NoneTaken /\ ppc' \in {"next", "end"}
      /\ UNCHANGED evaluateAll
  BY <1>1, GiveHolds
<1>4. TypeOK'
  BY <1>2, <1>3 DEF IInv, TypeOK, Process!TypeOK, child, proc
<1>5. QueueInv'
  <2>1. listed = <<>> /\ listed' = <<>> /\ ToSet(<<>>) = {}
    BY <1>1, <1>2 DEF IInv, QueueInv, ToSet
  <2> QED BY <2>1, <1>1, GiveKeepsQueue
<1>6. OutcomeInv'
  BY <1>1, <1>2, <1>3 DEF IInv, OutcomeInv, child, proc, Stops
<1>7. TurnInv' /\ AloneInv' /\ OrderInv'
  BY <1>1, <1>2 DEF IInv, OutcomeInv, TurnInv, AloneInv, OrderInv, child, proc
<1>8. ResultIsItsTests'
  <2>1. did[takenTest] = "none"
    BY <1>1 DEF IInv, TurnInv
  <2> QED BY <2>1, <1>2, <1>3 DEF IInv, ResultIsItsTests, child
<1> QED BY <1>4, <1>5, <1>6, <1>7, <1>8 DEF IInv

\* The test that the parent waits for is the one of the first pass, or the one that the child is at.
LEMMA WaitedFor ==
  ASSUME IInv, ppc \in {"poll", "stop_late"}
  PROVE  /\ held /\ takenTest \in BatchTests /\ Expected = <<takenTest>> \o listed
         /\ IsInjective(Expected) /\ takenTest \notin ToSet(listed)
         /\ passed # <<>> => reports /\ did[takenTest] = passed[1] /\ passed[1] \in Passes
         /\ Ahead = <<>> => turn # <<>> /\ turn[1] = takenTest /\ did[takenTest] \notin Passes
<1>1. held /\ takenTest \in BatchTests /\ Expected = <<takenTest>> \o listed
  BY DEF IInv, OutcomeInv, QueueInv, Stops, Expected, Asked
<1>2. listed \in Seq(BatchTests) /\ passed \in Seq(Passes) /\ report \in Seq(Passes) /\ turn \in Seq(BatchTests)
  BY DEF IInv, TypeOK
<1>3. IsInjective(Expected)
  BY <1>1 DEF IInv, OrderInv
<1>4. /\ Expected \in Seq(BatchTests) /\ Len(Expected) = Len(listed) + 1 /\ Expected[1] = takenTest
      /\ Tail(Expected) = listed /\ Expected # <<>>
  BY <1>1, <1>2, PushFrontHolds
<1>5. takenTest \notin ToSet(listed)
  BY <1>3, <1>4, PopLeaves
<1>6. Ahead \in Seq(Passes) /\ Len(Ahead) = Len(passed) + Len(report)
      /\ \A i \in DOMAIN passed : i \in DOMAIN Ahead /\ Ahead[i] = passed[i]
  BY <1>2 DEF Ahead
<1>7. ASSUME passed # <<>>
      PROVE  reports /\ did[takenTest] = passed[1] /\ passed[1] \in Passes
  <2>1. 1 \in DOMAIN passed /\ Ahead # <<>>
    BY <1>2, <1>6, <1>7
  <2> QED BY <2>1, <1>1, <1>2, <1>4, <1>6 DEF IInv, OrderInv
<1>8. ASSUME Ahead = <<>>
      PROVE  turn # <<>> /\ turn[1] = takenTest /\ did[takenTest] \notin Passes
  <2>1. turn # <<>> /\ turn[1] = takenTest
    <3>1. CASE reports
      <4>1. Len(turn) = Len(listed) + 1 /\ \A i \in DOMAIN turn : turn[i] = Expected[Len(Ahead) + i]
        BY <3>1, <1>1, <1>4, <1>8 DEF IInv, OrderInv
      <4> QED BY <4>1, <1>2, <1>4, <1>8
    <3>2. CASE ~reports
      BY <3>2, <1>1 DEF IInv, OrderInv
    <3> QED BY <3>1, <3>2
  <2> QED BY <2>1, <1>2 DEF IInv, TurnInv
<1> QED BY <1>1, <1>3, <1>5, <1>7, <1>8

\* A report is taken as the result of the test that waits for one.
LEMMA GivePassKeeps ==
  ASSUME IInv, GivePass
  PROVE  IInv'
<1> DEFINE r == Within(passed[1])
<1>1. /\ ppc = "poll" /\ passed # <<>> /\ passed' = Tail(passed) /\ Give(r)
      /\ UNCHANGED <<held, listed, heard, childExited, pastLimit, child, proc>>
  BY DEF GivePass, IInv, TypeOK
<1>2. /\ held /\ takenTest \in BatchTests /\ Expected = <<takenTest>> \o listed
      /\ IsInjective(Expected) /\ takenTest \notin ToSet(listed)
      /\ reports /\ did[takenTest] = passed[1] /\ passed[1] \in Passes
  BY <1>1, WaitedFor
<1>3. r \in Given /\ r \in {"Ok", "TimedOut"} /\ (r = "Ok" <=> passed[1] = "quick")
  BY <1>2 DEF Within, Given, ChildExits, Passes
<1> HIDE DEF r
<1>4. /\ result' \in [BatchTests -> Given \cup {NoAnswer}] /\ result'[takenTest] = r
      /\ \A t \in BatchTests \ {takenTest} : result'[t] = result[t]
      /\ waiting' \in Seq(BatchTests) /\ takenTest' = NoneTaken /\ ppc' \in {"next", "end"}
      /\ UNCHANGED evaluateAll
  BY <1>1, <1>2, <1>3, GiveHolds
<1>5. /\ listed \in Seq(BatchTests) /\ turn \in Seq(BatchTests) /\ report \in Seq(Passes)
      /\ passed \in Seq(Passes) /\ passed' \in Seq(Passes) /\ Len(passed) = Len(passed') + 1
      /\ \A i \in DOMAIN passed' : passed'[i] = passed[i + 1]
  BY <1>1, PopLeaves DEF IInv, TypeOK
<1>6. /\ Expected \in Seq(BatchTests) /\ Len(Expected) = Len(listed) + 1 /\ Expected[1] = takenTest
      /\ \A i \in DOMAIN listed : Expected[i + 1] = listed[i]
  BY <1>2, <1>5, PushFrontHolds
<1>7. /\ Ahead \in Seq(Passes) /\ Ahead' \in Seq(Passes) /\ Len(Ahead) = Len(Ahead') + 1
      /\ \A i \in DOMAIN Ahead' : i + 1 \in DOMAIN Ahead /\ Ahead'[i] = Ahead[i + 1]
  <2>1. Ahead = passed \o report /\ Ahead' = passed' \o report
    BY <1>1 DEF Ahead, child
  <2>2. Ahead' = Tail(Ahead)
    BY <2>1, <1>1, <1>5, PopBefore
  <2>3. Ahead \in Seq(Passes) /\ Ahead # <<>>
    BY <2>1, <1>1, <1>5
  <2> HIDE DEF Ahead
  <2> QED BY <2>2, <2>3, PopLeaves
<1>8. /\ Len(Expected) = Len(Ahead) + Len(turn)
      /\ \A i \in DOMAIN Ahead : did[Expected[i]] = Ahead[i]
      /\ \A i \in DOMAIN turn : turn[i] = Expected[Len(Ahead) + i]
  BY <1>1, <1>2 DEF IInv, OrderInv
<1>9. \A i \in DOMAIN turn : turn[i] \in BatchTests \ {takenTest}
  <2> SUFFICES ASSUME NEW i \in DOMAIN turn PROVE turn[i] \in BatchTests /\ turn[i] # takenTest
    OBVIOUS
  <2>1. turn[i] \in BatchTests /\ i \in 1..Len(turn) /\ Len(turn) \in Nat
    BY <1>5
  <2>2. Len(Ahead) \in Nat /\ Len(Ahead) >= 1
    BY <1>7
  <2>3. Len(Ahead) + i \in 1..Len(Expected) /\ 1 \in 1..Len(Expected) /\ Len(Ahead) + i # 1
    BY <2>1, <2>2, <1>8
  <2>4. DOMAIN Expected = 1..Len(Expected)
    BY <1>6
  <2>5. Expected[Len(Ahead) + i] # Expected[1]
    BY <2>3, <2>4, <1>2 DEF IsInjective
  <2> QED BY <2>1, <2>5, <1>6, <1>8
<1>10. TypeOK'
  <2>1. Process!TypeOK'
    BY <1>1 DEF IInv, TypeOK, Process!TypeOK, proc
  <2> QED BY <2>1, <1>1, <1>4, <1>5 DEF IInv, TypeOK, child
<1>11. QueueInv'
  BY <1>1, <1>2, <1>3, <1>5, GiveKeepsQueue DEF IInv, QueueInv
<1>12. OutcomeInv'
  BY <1>1, <1>4 DEF IInv, OutcomeInv, child, proc, Stops
<1>13. TurnInv' /\ AloneInv'
  BY <1>1, <1>4, <1>9 DEF IInv, TurnInv, AloneInv, child, proc
<1>14. OrderInv'
  <2>1. Expected' = listed
    BY <1>1, <1>4 DEF Expected, Asked
  <2>2. IsInjective(listed)
    <3>1. Expected # <<>> /\ Tail(Expected) = listed
      BY <1>2, <1>5, <1>6, PushFrontHolds
    <3> QED BY <3>1, <1>2, <1>6, PopLeaves
  <2>3. Len(listed) = Len(Ahead') + Len(turn)
    BY <1>5, <1>6, <1>7, <1>8
  <2>4. \A i \in DOMAIN Ahead' : did[listed[i]] = Ahead'[i]
    <3> SUFFICES ASSUME NEW i \in DOMAIN Ahead' PROVE did[listed[i]] = Ahead'[i]
      OBVIOUS
    <3>1. i \in DOMAIN listed /\ Expected[i + 1] = listed[i]
      BY <2>3, <1>5, <1>6, <1>7
    <3> QED BY <3>1, <1>7, <1>8
  <2>5. \A i \in DOMAIN turn : turn[i] = listed[Len(Ahead') + i]
    <3> SUFFICES ASSUME NEW i \in DOMAIN turn PROVE turn[i] = listed[Len(Ahead') + i]
      OBVIOUS
    <3>1. Len(Ahead') + i \in DOMAIN listed /\ Len(Ahead) + i = (Len(Ahead') + i) + 1
      <4>1. /\ Len(listed) \in Nat /\ Len(turn) \in Nat /\ Len(Ahead') \in Nat
            /\ DOMAIN listed = 1..Len(listed) /\ DOMAIN turn = 1..Len(turn)
        BY <1>5, <1>7
      <4>2. i \in 1..Len(turn) /\ Len(Ahead) = Len(Ahead') + 1
        BY <4>1, <1>7
      <4> QED BY ONLY <4>1, <4>2, <2>3
    <3> QED BY <3>1, <1>6, <1>8
  <2> QED BY <2>1, <2>2, <2>3, <2>4, <2>5, <1>1, <1>2 DEF OrderInv, child
<1>15. ResultIsItsTests'
  BY <1>1, <1>2, <1>3, <1>4 DEF IInv, ResultIsItsTests, child
<1> QED BY <1>10, <1>11, <1>12, <1>13, <1>14, <1>15 DEF IInv

\* The harness itself has failed, and the run ends without results.
LEMMA IncompleteKeeps ==
  ASSUME IInv, Incomplete
  PROVE  IInv'
<1>1. ppc' = "incomplete"
  BY DEF Incomplete
<1>2. UNCHANGED <<queue, takenTest, held, listed, heard, childExited, passed, pastLimit, child, proc>>
  BY DEF Incomplete
<1>3. TypeOK'
  BY <1>1, <1>2 DEF IInv, TypeOK, Process!TypeOK, queue, child, proc
<1>4. QueueInv' /\ OutcomeInv' /\ TurnInv' /\ AloneInv' /\ OrderInv' /\ ResultIsItsTests'
  BY <1>1, <1>2 DEF IInv, QueueInv, OutcomeInv, TurnInv, AloneInv, OrderInv, ResultIsItsTests,
                    queue, child, proc, Stops
<1> QED BY <1>3, <1>4 DEF IInv

\* The first test that did not report a pass is the one that the child ended with.
LEMMA GiveExitKeeps ==
  ASSUME IInv, GiveExit
  PROVE  IInv'
<1> DEFINE r == IF childExited = "Ok" /\ pastLimit THEN "TimedOut" ELSE childExited
<1>1. ppc = "poll" /\ passed = <<>> /\ childExited # NoAnswer
  BY DEF GiveExit
<1>2. CASE childExited = "Failure"
  BY <1>2, IncompleteKeeps DEF GiveExit
<1>3. CASE childExited # "Failure"
  <2>1. Give(r) /\ Drop /\ UNCHANGED <<child, proc>>
    BY <1>3 DEF GiveExit
  <2>2. childExited \in Given
    BY <1>1, <1>3 DEF IInv, TypeOK
  <2>3. held /\ ~alive /\ childExited = childExit /\ report = <<>>
    BY <1>1, <2>2, MutationChildAssumption DEF IInv, OutcomeInv, Stops
  <2>4. childExit \in ChildExits /\ childExit # NoAnswer
    BY <1>1, <2>3 DEF IInv, TypeOK, Process!TypeOK
  <2>5. Ahead = <<>>
    BY <1>1, <2>3 DEF Ahead
  <2>6. takenTest \in BatchTests /\ turn # <<>> /\ turn[1] = takenTest
    BY <1>1, <2>5, WaitedFor
  <2>7. did[takenTest] = IF childExit = "Ok" THEN "unreported" ELSE childExit
    BY <2>4, <2>6 DEF IInv, TurnInv
  <2>8. r \in Given /\ (r = childExit \/ (r = "TimedOut" /\ childExit = "Ok"))
    BY <2>3, <2>4 DEF Given
  <2> HIDE DEF r
  <2>9. /\ r = "Ok" => did[takenTest] \in {"quick", "unreported"}
        /\ r \in {"Failed", "Crashed"} => did[takenTest] = r
        /\ r = "TimedOut" => did[takenTest] # "quick"
        /\ r # "Ignored"
    BY <2>4, <2>7, <2>8 DEF ChildExits
  <2> QED BY <2>1, <2>3, <2>6, <2>8, <2>9, LastGiveKeeps
<1> QED BY <1>2, <1>3

\* A test past its limit may have passed before its child was killed.
LEMMA GiveLateKeeps ==
  ASSUME IInv, GiveLate
  PROVE  IInv'
<1> DEFINE r == IF passed = <<>> THEN "TimedOut" ELSE Within(passed[1])
<1>1. ppc = "stop_late" /\ childExited # NoAnswer
  BY DEF GiveLate
<1>2. CASE childExited = "Failure"
  BY <1>2, IncompleteKeeps DEF GiveLate
<1>3. CASE childExited # "Failure"
  <2>1. Give(r) /\ Drop /\ UNCHANGED <<child, proc>>
    BY <1>3 DEF GiveLate, IInv, TypeOK
  <2>2. childExited \in Given
    BY <1>1, <1>3 DEF IInv, TypeOK
  <2>3. ~alive /\ report = <<>>
    BY <1>1, <2>2, MutationChildAssumption DEF IInv, OutcomeInv
  <2>4. /\ takenTest \in BatchTests
        /\ passed # <<>> => did[takenTest] = passed[1] /\ passed[1] \in Passes
        /\ Ahead = <<>> => did[takenTest] \notin Passes
    BY <1>1, WaitedFor
  <2>5. passed = <<>> => Ahead = <<>>
    BY <2>3 DEF Ahead
  <2>6. /\ r \in Given /\ r \in {"Ok", "TimedOut"}
        /\ r = "Ok" => did[takenTest] = "quick"
        /\ r = "TimedOut" => did[takenTest] # "quick"
    BY <2>4, <2>5 DEF Within, Passes, Given, ChildExits
  <2> HIDE DEF r
  <2> QED BY <2>1, <2>3, <2>4, <2>6, LastGiveKeeps
<1> QED BY <1>2, <1>3

\* A stale child, or the last one, is gone.
LEMMA DropKeeps ==
  ASSUME IInv, DropStale \/ DropLast
  PROVE  IInv'
<1>1. ppc \in {"stop_stale", "stop_last"} /\ childExited # NoAnswer
  BY DEF DropStale, DropLast
<1>2. CASE Incomplete
  BY <1>2, IncompleteKeeps
<1>3. CASE ~Incomplete
  <2>1. /\ childExited # "Failure" /\ Drop /\ UNCHANGED <<queue, takenTest, child, proc>>
        /\ ppc' = IF ppc = "stop_stale" THEN "prepare" ELSE "returned"
    BY <1>3 DEF DropStale, DropLast
  <2>2. ~alive
    BY <1>1, <2>1 DEF IInv, TypeOK, OutcomeInv
  <2>3. /\ held' = FALSE /\ listed' = <<>> /\ heard' = NoAnswer /\ childExited' = NoAnswer
        /\ passed' = <<>> /\ pastLimit' = FALSE
    BY <2>1 DEF Drop
  <2>4. UNCHANGED <<evaluateAll, waiting, result, takenTest, turn, reports, report, ran, did,
                    alive, childExit, childAsked, childOutcome>>
    BY <2>1 DEF queue, child, proc
  <2>5. TypeOK'
    <3>1. Process!TypeOK' /\ {heard', childExited'} \subseteq Given \cup {"Failure", NoAnswer}
      BY <2>3, <2>4 DEF IInv, TypeOK, Process!TypeOK
    <3>2. listed' \in Seq(BatchTests) /\ passed' \in Seq(Passes)
      BY <2>3
    <3> QED BY <3>1, <3>2, <2>1, <2>3, <2>4 DEF IInv, TypeOK
  <2>6. QueueInv'
    BY <1>1, <2>1, <2>3, <2>4 DEF IInv, QueueInv, ToSet
  <2>7. OutcomeInv'
    BY <2>1, <2>2, <2>3, <2>4, MutationChildAssumption DEF IInv, OutcomeInv, Stops, Given, ChildExits
  <2>8. TurnInv' /\ AloneInv' /\ OrderInv' /\ ResultIsItsTests'
    BY <2>3, <2>4 DEF IInv, TurnInv, AloneInv, OrderInv, ResultIsItsTests
  <2> QED BY <2>5, <2>6, <2>7, <2>8 DEF IInv
<1> QED BY <1>2, <1>3
-----------------------------------------------------------------------------
\* The invariant holds in every state of the run: none of the steps of the parent, the child, its
\* owner, its monitor or time breaks it.
THEOREM Invariance == ChildSpec => []IInv
<1>1. ChildInit => IInv
  BY InitIInv
<1>2. IInv /\ [ChildNext]_childVars => IInv'
  <2> SUFFICES ASSUME IInv, [ChildNext]_childVars PROVE IInv'
    OBVIOUS
  <2>1. CASE Parent
    BY <2>1, TakeKeeps, KillKeeps, SpawnKeeps, AskNextKeeps, GiveIgnoredKeeps, GivePassKeeps,
       GiveExitKeeps, GiveLateKeeps, HearKeeps, ReadKeeps, DropKeeps
       DEF Parent
  <2>2. CASE Child
    BY <2>2, ChildKeeps
  <2>3. CASE CleanChild \/ SendOutcome \/ ChildMonitorFails \/ TakenLimitPasses
    BY <2>3, OwnerKeeps
  <2>4. CASE UNCHANGED childVars
    BY <2>4 DEF childVars, queue, child, proc, IInv, TypeOK, Process!TypeOK, QueueInv, OutcomeInv, TurnInv,
                AloneInv, OrderInv, Expected, Ahead, ResultIsItsTests
  <2> QED BY <2>1, <2>2, <2>3, <2>4 DEF ChildNext
<1> QED BY <1>1, <1>2, PTL DEF ChildSpec

\* The variables keep their types (mutation_child.rs).
THEOREM TypeCorrect == ChildSpec => []TypeOK
<1>1. IInv => TypeOK
  BY DEF IInv
<1> QED BY <1>1, Invariance, PTL

\* The result of a test is what that test did (Child::pass_result, Child::exit_result,
\* kill_timed_out): for any queue, however many tests the child is ahead.
THEOREM ResultsHold == ChildSpec => []ResultIsItsTests
<1>1. IInv => ResultIsItsTests
  BY DEF IInv
<1> QED BY <1>1, Invariance, PTL

\* A test that must run alone shares its child with no other, and none starts while a child is left
\* (tests_to_spawn, Child::stop).
THEOREM AloneHolds == ChildSpec => []RunsAlone
<1>1. IInv => RunsAlone
  <2> SUFFICES ASSUME IInv PROVE RunsAlone
    OBVIOUS
  <2>1. ~held => ~alive
    BY DEF IInv, OutcomeInv
  <2>2. ASSUME NEW u \in ran \cap Unrepeatable
        PROVE  Cardinality(ran) = 1
    <3>1. ran = {u}
      BY <2>2 DEF IInv, AloneInv
    <3> QED BY <3>1, FS_Singleton
  <2> QED BY <2>1, <2>2 DEF RunsAlone
<1> QED BY <1>1, Invariance, PTL
=============================================================================
