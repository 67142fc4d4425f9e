----------------------------- MODULE ExitCodes -----------------------------
(* The exit codes of a run and the log in which each test harness records its *)
(* own (mutest-exit-code/src/lib.rs). The log is a sequence of rows. A row    *)
(* whose write failed halfway is not whole: it lacks its end of line, so the  *)
(* next row joins it.                                                         *)
EXTENDS Integers, Sequences, FiniteSets, SequencesExt, FiniteSetsExt

SUCCESS == 0
USAGE == 1
MISSED == 2
TIMED_OUT == 3
BASELINE_FAILED == 4
PANIC == 101

\* A harness that has recorded no exit.
NoCode == -1

\* The exit status of a process that a signal ended.
SIGNALLED == -2

AnalysisCompleted(code) == code \in {SUCCESS, MISSED, TIMED_OUT}

LeastToMostSevere == <<SUCCESS, MISSED, TIMED_OUT, BASELINE_FAILED, USAGE, PANIC>>

Severity(code) ==
    IF code \in Range(LeastToMostSevere) THEN CHOOSE i \in DOMAIN LeastToMostSevere : LeastToMostSevere[i] = code
    ELSE Len(LeastToMostSevere)

worst(codes) == IF codes = {} THEN SUCCESS ELSE LeastToMostSevere[Max({Severity(code) : code \in codes})]

-----------------------------------------------------------------------------

Started(pid) == [kind |-> "started", pid |-> pid, code |-> NoCode, whole |-> TRUE]
Exited(pid, code) == [kind |-> "exited", pid |-> pid, code |-> code, whole |-> TRUE]
Unreadable == [kind |-> "unreadable", pid |-> 0, code |-> NoCode, whole |-> FALSE]

\* The codes whose digits begin those of this one.
CodePrefixes(code) == {code \div 100, code \div 10, code} \ (IF code = 0 THEN {} ELSE {0})

\* What a row cut short may read as: nothing, the row of another process, or another code of this one.
CutShort(row) ==
    {Unreadable} \cup (IF row.kind = "started" THEN {[row EXCEPT !.pid = 0, !.whole = FALSE]}
                       ELSE {[row EXCEPT !.code = c, !.whole = FALSE] : c \in CodePrefixes(row.code)})

Extend(log, row) ==
    IF log # <<>> /\ ~Last(log).whole THEN Append(Front(log), [Unreadable EXCEPT !.whole = row.whole]) ELSE Append(log, row)

\* record_start and record_exit: the row is appended, the write fails, or it fails halfway.
Appended(log, row) == {Extend(log, row)}
AppendFailed(log, row) == {log} \cup {Extend(log, cut) : cut \in CutShort(row)}

\* An exit that counts for every harness that had this process id.
RecordExitOfAll(harnesses, row) ==
    [i \in DOMAIN harnesses |->
        IF harnesses[i].pid = row.pid /\ harnesses[i].code = NoCode THEN [harnesses[i] EXCEPT !.code = row.code] ELSE harnesses[i]]

\* record_exit_of_latest: a process id may go to a later harness.
RecordExitOfLatest(harnesses, row) ==
    LET open == {i \in DOMAIN harnesses : harnesses[i].pid = row.pid /\ harnesses[i].code = NoCode}
    IN IF open = {} THEN Append(harnesses, [pid |-> row.pid, code |-> row.code])
       ELSE [harnesses EXCEPT ![Max(open)].code = row.code]

\* A start opens a harness, an exit closes one.
Taken(harnesses, row) ==
    CASE row.kind = "started" -> Append(harnesses, [pid |-> row.pid, code |-> NoCode])
      [] row.kind = "exited" -> RecordExitOfLatest(harnesses, row)
      [] row.kind = "unreadable" -> harnesses

\* The harnesses that the first rows of the log tell of.
HarnessesUpTo(log) ==
    LET harnesses[i \in 0..Len(log)] == IF i = 0 THEN <<>> ELSE Taken(harnesses[i - 1], log[i])
    IN  harnesses

\* The codes that the harnesses of the log recorded; a start without an exit counts as a panic.
read(log) ==
    LET harnesses == HarnessesUpTo(log)[Len(log)]
    IN {IF harnesses[i].code = NoCode THEN PANIC ELSE harnesses[i].code : i \in DOMAIN harnesses}
=============================================================================
