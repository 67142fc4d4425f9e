---------------------------- MODULE ProgressLog ----------------------------
(* The progress records of one worker (mutest-runtime/src/progress.rs). Each  *)
(* operator gives the outcomes of a call: whether it succeeded, and the       *)
(* writer after it. The writer carries along what a reader of its file has    *)
(* made of the records so far, by the protocol of docs/runtime-progress.md.   *)
EXTENDS Integers, FiniteSets

NoPhase == "none"

\* sound: every record so far was one the reader could expect.
NewReader == [phase |-> NoPhase, outstanding |-> {}, terminal |-> "none", code |-> -1, sound |-> TRUE]

Reads(reader, record) ==
    LET expected == /\ reader.terminal = "none"
                    /\ CASE record.event = "phase" -> reader.outstanding = {}
                         [] record.event = "test_start" -> reader.phase # NoPhase /\ record.id \notin reader.outstanding
                         [] record.event = "test_end" -> record.id \in reader.outstanding
                         [] record.event = "terminal" -> record.status = "completed" => reader.outstanding = {}
        read == CASE record.event = "phase" -> [reader EXCEPT !.phase = record.phase]
                  [] record.event = "test_start" -> [reader EXCEPT !.outstanding = @ \cup {record.id}]
                  [] record.event = "test_end" /\ record.cleanup = "complete" -> [reader EXCEPT !.outstanding = @ \ {record.id}]
                  [] record.event = "test_end" /\ record.cleanup = "pending" -> reader
                  [] record.event = "terminal" -> [reader EXCEPT !.terminal = record.status, !.code = record.code]
    IN [read EXCEPT !.sound = reader.sound /\ expected]

\* create: `enabled` says whether progress is asked for; the header is written already.
NewWriter(enabled) ==
    [enabled |-> enabled, healthy |-> TRUE, terminal |-> FALSE, phase |-> NoPhase, active |-> {}, reader |-> NewReader]

\* with_writer runs nothing where progress is not asked for.
WithWriter(w, outcomes) == IF w.enabled THEN outcomes ELSE {[ok |-> TRUE, writer |-> w]}

\* append and write_record: a record over a limit, or that cannot be written, makes the writer refuse all later ones.
Append1(w, record) ==
    IF w.healthy /\ ~w.terminal
    THEN {[ok |-> TRUE, writer |-> [w EXCEPT !.reader = Reads(@, record)]], [ok |-> FALSE, writer |-> [w EXCEPT !.healthy = FALSE]]}
    ELSE {[ok |-> FALSE, writer |-> w]}

Then(outcomes, update(_)) == {IF o.ok THEN [o EXCEPT !.writer = update(o.writer)] ELSE o : o \in outcomes}

\* A writer that changes the phase whatever is active.
SetPhaseAnyway(w, phase) ==
    IF w.phase = phase THEN {[ok |-> TRUE, writer |-> w]}
    ELSE Then(Append1(w, [event |-> "phase", phase |-> phase]), LAMBDA v : [v EXCEPT !.phase = phase])

SetPhase(w, phase) ==
    IF w.phase = phase THEN {[ok |-> TRUE, writer |-> w]}
    ELSE IF w.active # {} THEN {[ok |-> FALSE, writer |-> w]}
    ELSE Then(Append1(w, [event |-> "phase", phase |-> phase]), LAMBDA v : [v EXCEPT !.phase = phase])

StartTest(w, id) ==
    Then(Append1(w, [event |-> "test_start", id |-> id]), LAMBDA v : [v EXCEPT !.active = @ \cup {id}])

\* A test whose thread was given up stays active.
EndTest(w, id, complete) ==
    IF id \notin w.active THEN {[ok |-> FALSE, writer |-> w]}
    ELSE Then(Append1(w, [event |-> "test_end", id |-> id, cleanup |-> IF complete THEN "complete" ELSE "pending"]),
              LAMBDA v : IF complete THEN [v EXCEPT !.active = @ \ {id}] ELSE v)

Ready(w) == w.enabled => w.healthy /\ ~w.terminal /\ w.active = {}

Terminal(w, complete, code) ==
    IF complete /\ ~Ready(w) THEN {[ok |-> FALSE, writer |-> w]}
    ELSE Then(Append1(w, [event |-> "terminal", status |-> IF complete THEN "completed" ELSE "incomplete", code |-> code]),
              LAMBDA v : [v EXCEPT !.terminal = TRUE])
=============================================================================
