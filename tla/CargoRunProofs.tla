--------------------------- MODULE CargoRunProofs ---------------------------
(***************************************************************************)
(* Whatever the harnesses hold, however many there are, and wherever they, *)
(* their workers, the builds or Cargo fail: the exit code of a run is      *)
(* true, and so are the progress records and the reports of a worker.      *)
(***************************************************************************)
EXTENDS CargoRun, Queues

-----------------------------------------------------------------------------
(* What the progress records say *)

Phases == {NoPhase, "reference", "evaluation"}
Reader == [phase : Phases, outstanding : SUBSET Nat, terminal : {"none", "completed", "incomplete"}, code : Int, sound : BOOLEAN]
Writer == [enabled : BOOLEAN, healthy : BOOLEAN, terminal : BOOLEAN, phase : Phases, active : SUBSET Nat, reader : Reader]

\* The reader is where the writer is: it knows its phase and which tests are active.
Followed(w) ==
    /\ w \in Writer
    /\ w.reader.sound /\ w.reader.phase = w.phase /\ w.reader.outstanding = w.active
    /\ w.terminal <=> w.reader.terminal # "none"
    /\ w.reader.terminal = "completed" => w.active = {}
    /\ w.enabled \/ w = NewWriter(FALSE)

\* A run of tests is under way.
Testing == wpc \in {"reference", "repeat"} \/ (wpc = "evaluate" /\ current # 0)

ProgressInv ==
    /\ Followed(writer)
    /\ writer.active \subseteq 1..ids
    /\ Testing /\ writer.enabled => writer.phase # NoPhase
    /\ writer.terminal => wpc \in {"exiting", "over"}
    /\ writer.reader.terminal = "completed" => completion = writer.reader.code /\ completion # NoCode

-----------------------------------------------------------------------------
(* The runs of tests and their results *)

Wpcs == {"none", "open", "reference", "repeat", "evaluate", "join", "recorded", "exiting", "over"}
TestOutcomes == {"Undetected", "Detected", "Crashed", "TimedOut"}

\* The verdict says whether a test detected, and only tests that reach the mutation ran.
ResultOK(r, tests) ==
    /\ DOMAIN r.tests \subseteq tests /\ r.verdict \in TestOutcomes
    /\ \A x \in DOMAIN r.tests : r.tests[x] \in TestOutcomes
    /\ r.verdict = "Undetected" <=> \A x \in DOMAIN r.tests : r.tests[x] = "Undetected"
ResultsOK(rs, s) == DOMAIN rs \subseteq DOMAIN s /\ \A m \in DOMAIN rs : ResultOK(rs[m], s[m])

\* A test runs once in a run: it is to run, runs, or has a result.
RunInv ==
    /\ opts \in WorkerOptions /\ Muts \subseteq Nat \ {0} /\ IsFiniteSet(Muts)
    /\ wpc \in Wpcs /\ ids \in Nat
    /\ todo \subseteq SuiteTests /\ running \subseteq [id : 1..ids, test : SuiteTests]
    /\ \A r, s \in running : r.id = s.id \/ r.test = s.test => r = s
    /\ \A r \in running : r.test \notin todo
    /\ wpc \in {"none", "open"} => todo = {} /\ running = {} /\ given = {}
    /\ wpc = "reference" => given = {}
    /\ wpc = "evaluate" /\ current = 0 => todo = {} /\ running = {} /\ given = {}
    /\ wpc \in {"none", "open", "reference", "repeat"} => current = 0
    /\ current # 0 =>
        /\ current \in DOMAIN results /\ todo \subseteq suite[current]
        /\ todo \cap DOMAIN results[current].tests = {}
        /\ \A r \in running : r.test \in suite[current] \ DOMAIN results[current].tests

\* A sequence, of whatever it holds.
Listed(s) == s \in Seq({s[i] : i \in DOMAIN s})

ResultsInv ==
    /\ ResultsOK(results, suite) /\ ResultsOK(journaled, suite)
    /\ Listed(past)
    /\ \A i \in DOMAIN past : ResultsOK(past[i], suite) /\ DOMAIN past[i] = Muts
    /\ wpc \in {"join", "recorded", "exiting"} => DOMAIN results = Muts

WorkerCodes == {NoCode, SIGNALLED, SUCCESS, MISSED, TIMED_OUT, BASELINE_FAILED, PANIC}

CompletionInv ==
    /\ wcode \in WorkerCodes /\ (wpc = "over" => wcode # NoCode)
    /\ completion # NoCode => wpc \in {"recorded", "exiting", "over"} /\ DOMAIN results = Muts /\ completion = FinalCode /\ monitor = "joined"
    /\ wpc \in {"recorded", "exiting"} => completion = FinalCode /\ monitor = "joined"

-----------------------------------------------------------------------------
(* The evaluation stream, in a process that runs its tests itself *)

Ids(rs) == {r.id : r \in rs}
InBox(batches) == UNION {batches[k] : k \in DOMAIN batches}
Lingering == watched \cup InBox(inbox)

\* A test that was started is in one place: it runs, was given up, is in a batch, or is watched.
BatchesApart(batches) == \A j, k \in DOMAIN batches : j # k => batches[j] \cap batches[k] = {}
MonitorInv ==
    /\ inbox \in Seq(SUBSET (1..ids)) /\ watched \subseteq 1..ids /\ given \subseteq 1..ids /\ DOMAIN stream \subseteq 1..ids
    /\ Ids(running) \cap (given \cup Lingering) = {}
    /\ given \cap Lingering = {} /\ watched \cap InBox(inbox) = {} /\ BatchesApart(inbox)
    /\ monitor \in {"open", "closed", "joined"}
    /\ wpc \in {"none", "open", "reference", "repeat", "evaluate"} => monitor = "open"
    /\ wpc \in {"none", "open", "reference", "repeat"} => DOMAIN stream = {} /\ inbox = <<>> /\ watched = {}
    /\ monitor = "joined" => inbox = <<>> /\ watched = {}
    /\ wpc \in {"join", "recorded"} => running = {} /\ given = {}

OnceGiven == <<"TimedOut">>
Complete(s) == Len(s) = 1 \/ (Len(s) = 2 /\ s[1] = "TimedOut")

\* The results that the stream holds of a test, by where it is.
Streamed(s, up, left, lingering) ==
    /\ up \cup left \cup lingering \subseteq DOMAIN s
    /\ \A i \in up : s[i] = <<>>
    /\ \A i \in left : s[i] = OnceGiven
    /\ \A i \in lingering : s[i] \in {<<>>, OnceGiven}
    /\ \A i \in DOMAIN s \ (up \cup left \cup lingering) : Complete(s[i])

StreamInv ==
    ~opts.isolated /\ marked = {} /\ wpc \in {"evaluate", "join", "recorded"} =>
        Streamed(stream, Ids(running), given, Lingering)

-----------------------------------------------------------------------------
(* Builds and harnesses *)

Unbuilt == \E t \in Targets : build[t] # "built"
CargoOver == cargo \in {"exited", "reported", "inspected"}

BuildInv ==
    /\ build \in [Targets -> {"waiting", "building", "built", "failed"}]
    /\ job \in {"run", "no-run"}
    /\ cargo \in {"removing", "building", "testing", "exited", "reported", "inspected"}
    /\ cargo = "removing" => (\A t \in Targets : build[t] = "waiting") /\ ~outside /\ ended = <<>> /\ culprits = {}
    /\ outside => \E t \in Targets : build[t] = "waiting"
    /\ cargo = "testing" => ~Unbuilt /\ job = "run"
    /\ CargoOver => \A t \in Targets : build[t] # "building"
    /\ culprits \subseteq {t \in Targets : build[t] = "failed"}
    /\ harness # "none" => cargo = "testing"
    /\ cargo # "removing" /\ Unbuilt => log = <<>>
    /\ cargo # "removing" /\ ~unlogged => marker.names = culprits

Exits1 == {SUCCESS, MISSED, TIMED_OUT, BASELINE_FAILED, PANIC}

HarnessInv ==
    /\ harness \in {"none", "ready", "watch", "exit"}
    /\ harness = "none" => NoWorker /\ suite = <<>> /\ journaled = <<>> /\ marked = {}
    /\ harness # "none" => target \in Remaining /\ pid \in Pids /\ suite = opts.suites[target]
    /\ harness = "ready" => wpc \in {"none", "over"}
    /\ harness = "exit" => wpc = "over" /\ status = Outcome /\ status \in Exits1

\* What a harness ended with, and what it had completed with.
CertifiedInv ==
    /\ DOMAIN ended \subseteq Targets /\ DOMAIN certified \subseteq Targets
    /\ Unbuilt => DOMAIN certified = {}
    /\ ~CargoOver => DOMAIN certified \subseteq DOMAIN ended \cup (IF harness = "exit" /\ AnalysisCompleted(status) THEN {target} ELSE {})
    /\ harness = "exit" /\ AnalysisCompleted(status) => target \in DOMAIN certified
    /\ \A t \in DOMAIN certified : certified[t].judged = DOMAIN opts.suites[t]
    /\ harness = "exit" /\ AnalysisCompleted(status) => status = IF opts.flakes > 0 THEN SUCCESS ELSE certified[target].code
    /\ \A t \in DOMAIN ended :
        /\ ended[t] \in Exits1 \cup {SIGNALLED}
        /\ AnalysisCompleted(ended[t]) =>
            /\ t \in DOMAIN certified /\ <<t, "evaluated">> \in summaries
            /\ ended[t] = IF opts.flakes > 0 THEN SUCCESS ELSE certified[t].code
        /\ t \in DOMAIN certified => AnalysisCompleted(ended[t]) \/ ended[t] = SIGNALLED

-----------------------------------------------------------------------------
(* The exit code log *)

Rows == [kind : {"started", "exited"}, pid : Pids, code : Exits1 \cup {NoCode}, whole : {TRUE}]
Harnesses == [pid : Pids, code : Exits1 \cup {NoCode}]

Recorded == HarnessesUpTo(log)[Len(log)]
Codes(hs) == {hs[i].code : i \in DOMAIN hs}
EndedCodes == {IF ended[t] = SIGNALLED THEN NoCode ELSE ended[t] : t \in DOMAIN ended}

\* If nothing was lost, the log tells of the harnesses that have ended, and of the one at hand, which is the last.
NothingLost == (cargo \in {"building", "testing"} \/ (CargoOver /\ ccode # NoCode)) /\ ~unlogged
LogTells ==
    /\ log \in Seq(Rows) /\ Recorded \in Seq(Harnesses)
    /\ IF harness = "none" THEN Codes(Recorded) = EndedCodes
       ELSE /\ Recorded # <<>> /\ Recorded[Len(Recorded)] = [pid |-> pid, code |-> NoCode]
            /\ Codes(Front(Recorded)) = EndedCodes
LogInv == NothingLost => LogTells

CodeInv ==
    /\ ccode \in {NoCode, SUCCESS, 101}
    /\ ~CargoOver => ccode = NoCode
    /\ CargoOver /\ Failing => ccode \in {NoCode, 101}
    /\ CargoOver /\ ccode = SUCCESS => ~Unbuilt /\ (job = "run" => DOMAIN ended = Targets /\ \A t \in Targets : ended[t] = SUCCESS)
    /\ CargoOver /\ ccode = 101 /\ ~Unbuilt => DOMAIN ended = Targets /\ \E t \in Targets : ended[t] # SUCCESS
    /\ cargo = "reported" => code = RunExitCode(marker.names, read(log))

WorkerInv == ProgressInv /\ RunInv /\ ResultsInv /\ CompletionInv /\ MonitorInv /\ StreamInv
IInv == WorkerInv /\ BuildInv /\ HarnessInv /\ CertifiedInv /\ LogInv /\ CodeInv

-----------------------------------------------------------------------------
(* The progress writer *)

\* A call that ends nothing leaves what the reader knows of the end.
StaysOpen(v, w) ==
    v.terminal = w.terminal /\ v.reader.terminal = w.reader.terminal /\ v.reader.code = w.reader.code /\ v.enabled = w.enabled

LEMMA NewIsFollowed == \A enabled \in BOOLEAN : Followed(NewWriter(enabled))
<1> SUFFICES ASSUME NEW enabled \in BOOLEAN PROVE Followed(NewWriter(enabled))
  OBVIOUS
<1>1. NewReader \in Reader
  BY DEF NewReader, Reader, Phases
<1>2. NewWriter(enabled) \in Writer
  BY <1>1 DEF NewWriter, Writer, Phases
<1>3. enabled = TRUE \/ NewWriter(enabled) = NewWriter(FALSE)
  OBVIOUS
<1> QED BY <1>1, <1>2, <1>3 DEF Followed, NewWriter, NewReader

\* What a reader makes of the records that it expects.
LEMMA ReadsPhase ==
  ASSUME NEW r \in Reader, r.sound, r.terminal = "none", r.outstanding = {}, NEW p
  PROVE  Reads(r, [event |-> "phase", phase |-> p]) = [r EXCEPT !.phase = p]
BY DEF Reads, Reader

LEMMA ReadsStart ==
  ASSUME NEW r \in Reader, r.sound, r.terminal = "none", r.phase # NoPhase, NEW id, id \notin r.outstanding
  PROVE  Reads(r, [event |-> "test_start", id |-> id]) = [r EXCEPT !.outstanding = r.outstanding \cup {id}]
BY DEF Reads, Reader

LEMMA ReadsEnd ==
  ASSUME NEW r \in Reader, r.sound, r.terminal = "none", NEW id \in r.outstanding, NEW complete \in BOOLEAN
  PROVE  Reads(r, [event |-> "test_end", id |-> id, cleanup |-> IF complete THEN "complete" ELSE "pending"])
            = [r EXCEPT !.outstanding = IF complete THEN r.outstanding \ {id} ELSE r.outstanding]
BY DEF Reads, Reader

LEMMA ReadsTerminal ==
  ASSUME NEW r \in Reader, r.sound, r.terminal = "none", NEW complete \in BOOLEAN, NEW c, complete => r.outstanding = {}
  PROVE  Reads(r, [event |-> "terminal", status |-> IF complete THEN "completed" ELSE "incomplete", code |-> c])
            = [r EXCEPT !.terminal = IF complete THEN "completed" ELSE "incomplete", !.code = c]
BY DEF Reads, Reader

\* What appending a record does.
LEMMA AppendedRecord ==
  ASSUME NEW w, NEW record, NEW o \in Append1(w, record)
  PROVE  \/ o = [ok |-> TRUE, writer |-> [w EXCEPT !.reader = Reads(w.reader, record)]] /\ w.healthy /\ ~w.terminal
         \/ ~o.ok /\ o.writer \in {w, [w EXCEPT !.healthy = FALSE]}
BY DEF Append1

\* A writer that could not append knows what it knew.
LEMMA RefusedFollowed ==
  ASSUME NEW w, Followed(w), w.enabled, NEW v \in {w, [w EXCEPT !.healthy = FALSE]}
  PROVE  Followed(v) /\ StaysOpen(v, w) /\ v.active = w.active /\ v.phase = w.phase /\ v.reader = w.reader
BY DEF Followed, StaysOpen, Writer

Refused(o, w) == ~o.ok /\ o.writer \in {w, [w EXCEPT !.healthy = FALSE]}

\* A record that the reader expects keeps it where the writer is.
LEMMA PhaseFollowed ==
  ASSUME NEW w, Followed(w), NEW p \in Phases, NEW o \in WithWriter(w, SetPhase(w, p))
  PROVE  /\ Followed(o.writer) /\ StaysOpen(o.writer, w) /\ o.writer.active = w.active
         /\ o.ok /\ w.enabled => o.writer.phase = p
<1>1. CASE o = [ok |-> TRUE, writer |-> w] /\ (w.enabled => w.phase = p)
  BY <1>1 DEF StaysOpen
<1>2. CASE w.enabled /\ Refused(o, w)
  BY <1>2, RefusedFollowed DEF Refused
<1>3. CASE w.enabled /\ w.active = {} /\ o \in Then(Append1(w, [event |-> "phase", phase |-> p]), LAMBDA v : [v EXCEPT !.phase = p])
  <2>1. PICK a \in Append1(w, [event |-> "phase", phase |-> p]) :
              o = IF a.ok THEN [a EXCEPT !.writer = [a.writer EXCEPT !.phase = p]] ELSE a
    BY <1>3 DEF Then
  <2>2. CASE a = [ok |-> TRUE, writer |-> [w EXCEPT !.reader = Reads(w.reader, [event |-> "phase", phase |-> p])]] /\ ~w.terminal
    <3>0. w.reader \in Reader /\ w.reader.sound /\ w.reader.terminal = "none" /\ w.reader.outstanding = {}
      BY <2>2, <1>3 DEF Followed, Writer
    <3>1. Reads(w.reader, [event |-> "phase", phase |-> p]) = [w.reader EXCEPT !.phase = p]
      BY <3>0, ReadsPhase
    <3> DEFINE v == [w EXCEPT !.reader = [w.reader EXCEPT !.phase = p], !.phase = p]
    <3>2. o.ok /\ o.writer = v
      BY <2>1, <2>2, <3>1 DEF Followed, Writer
    <3>3. v \in Writer /\ v.enabled
      BY <1>3 DEF Followed, Writer, Reader
    <3>4. Followed(v)
      BY <3>3, <2>2, <1>3 DEF Followed, Writer, Reader
    <3> QED BY <3>2, <3>4, <2>2, <1>3 DEF Followed, StaysOpen, Writer, Reader
  <2>3. CASE Refused(a, w)
    <3>1. o = a
      BY <2>1, <2>3 DEF Refused
    <3> QED BY <3>1, <2>3, <1>2, <1>3
  <2> QED BY <2>2, <2>3, AppendedRecord DEF Refused
<1> QED BY <1>1, <1>2, <1>3 DEF WithWriter, SetPhase, Then, Refused

LEMMA StartFollowed ==
  ASSUME NEW w, Followed(w), NEW id \in Nat, id \notin w.active, w.enabled => w.phase # NoPhase,
         NEW o \in WithWriter(w, StartTest(w, id))
  PROVE  /\ Followed(o.writer) /\ StaysOpen(o.writer, w) /\ o.writer.phase = w.phase /\ o.writer.active \subseteq w.active \cup {id}
         /\ ~o.ok => o.writer.active = w.active
<1>1. CASE ~w.enabled /\ o = [ok |-> TRUE, writer |-> w]
  BY <1>1 DEF StaysOpen
<1>2. CASE w.enabled /\ Refused(o, w)
  BY <1>2, RefusedFollowed DEF Refused
<1>3. CASE w.enabled /\ o \in StartTest(w, id)
  <2>1. PICK a \in Append1(w, [event |-> "test_start", id |-> id]) :
              o = IF a.ok THEN [a EXCEPT !.writer = [a.writer EXCEPT !.active = a.writer.active \cup {id}]] ELSE a
    BY <1>3 DEF Then, StartTest
  <2>2. CASE a = [ok |-> TRUE, writer |-> [w EXCEPT !.reader = Reads(w.reader, [event |-> "test_start", id |-> id])]] /\ ~w.terminal
    <3>1. Reads(w.reader, [event |-> "test_start", id |-> id]) = [w.reader EXCEPT !.outstanding = w.reader.outstanding \cup {id}]
      BY <2>2, <1>3, ReadsStart DEF Followed, Writer, Reader
    <3> DEFINE v == [w EXCEPT !.reader = [w.reader EXCEPT !.outstanding = w.reader.outstanding \cup {id}], !.active = w.active \cup {id}]
    <3>2. o.ok /\ o.writer = v
      BY <2>1, <2>2, <3>1 DEF Followed, Writer
    <3>3. v \in Writer /\ v.enabled
      BY <1>3 DEF Followed, Writer, Reader
    <3>4. Followed(v)
      BY <3>3, <2>2, <1>3 DEF Followed, Writer, Reader
    <3> QED BY <3>2, <3>4, <2>2, <1>3 DEF Followed, StaysOpen, Writer, Reader
  <2>3. CASE Refused(a, w)
    <3>1. o = a
      BY <2>1, <2>3 DEF Refused
    <3> QED BY <3>1, <2>3, <1>2, <1>3
  <2> QED BY <2>2, <2>3, AppendedRecord DEF Refused
<1> QED BY <1>1, <1>3 DEF WithWriter

LEMMA EndFollowed ==
  ASSUME NEW w, Followed(w), NEW id \in Nat, NEW complete \in BOOLEAN, NEW o \in WithWriter(w, EndTest(w, id, complete))
  PROVE  Followed(o.writer) /\ StaysOpen(o.writer, w) /\ o.writer.phase = w.phase /\ o.writer.active \subseteq w.active
<1> DEFINE record == [event |-> "test_end", id |-> id, cleanup |-> IF complete THEN "complete" ELSE "pending"]
           now == IF complete THEN w.active \ {id} ELSE w.active
<1>1. CASE ~w.enabled /\ o = [ok |-> TRUE, writer |-> w]
  BY <1>1 DEF StaysOpen
<1>2. CASE w.enabled /\ Refused(o, w)
  BY <1>2, RefusedFollowed DEF Refused
<1>3. CASE w.enabled /\ id \in w.active
               /\ o \in Then(Append1(w, record), LAMBDA v : IF complete THEN [v EXCEPT !.active = @ \ {id}] ELSE v)
  <2>1. PICK a \in Append1(w, record) :
              o = IF a.ok THEN [a EXCEPT !.writer = IF complete THEN [a.writer EXCEPT !.active = a.writer.active \ {id}] ELSE a.writer] ELSE a
    BY <1>3 DEF Then
  <2>2. CASE a = [ok |-> TRUE, writer |-> [w EXCEPT !.reader = Reads(w.reader, record)]] /\ ~w.terminal
    <3>1. Reads(w.reader, record) = [w.reader EXCEPT !.outstanding = now]
      BY <2>2, <1>3, ReadsEnd DEF Followed, Writer, Reader
    <3> DEFINE v == [w EXCEPT !.reader = [w.reader EXCEPT !.outstanding = now], !.active = now]
    <3>2. o.ok /\ o.writer = v
      BY <2>1, <2>2, <3>1 DEF Followed, Writer
    <3>3. v \in Writer /\ v.enabled
      BY <1>3 DEF Followed, Writer, Reader
    <3>4. Followed(v)
      BY <3>3, <2>2, <1>3 DEF Followed, Writer, Reader
    <3>5. v.active = now /\ v.phase = w.phase /\ StaysOpen(v, w)
      BY <1>3 DEF Followed, StaysOpen, Writer, Reader
    <3>6. now \subseteq w.active
      OBVIOUS
    <3> QED BY <3>2, <3>4, <3>5, <3>6
  <2>3. CASE Refused(a, w)
    <3>1. o = a
      BY <2>1, <2>3 DEF Refused
    <3> QED BY <3>1, <2>3, <1>2, <1>3
  <2> QED BY <2>2, <2>3, AppendedRecord DEF Refused
<1> QED BY <1>1, <1>2, <1>3 DEF WithWriter, EndTest, Then, Refused

\* Only a call that succeeds tells the reader that the worker has completed, and with which code.
LEMMA TerminalFollowed ==
  ASSUME NEW w, Followed(w), NEW complete \in BOOLEAN, NEW c \in Int, NEW o \in WithWriter(w, Terminal(w, complete, c))
  PROVE  /\ Followed(o.writer) /\ o.writer.active = w.active /\ o.writer.phase = w.phase /\ o.writer.enabled = w.enabled
         /\ StaysOpen(o.writer, w) \/ (o.ok /\ o.writer.reader.code = c /\ ~w.terminal
                                       /\ o.writer.reader.terminal = IF complete THEN "completed" ELSE "incomplete")
<1> DEFINE end == IF complete THEN "completed" ELSE "incomplete"
           record == [event |-> "terminal", status |-> end, code |-> c]
<1>1. CASE ~w.enabled /\ o = [ok |-> TRUE, writer |-> w]
  BY <1>1 DEF StaysOpen
<1>2. CASE w.enabled /\ Refused(o, w)
  BY <1>2, RefusedFollowed DEF Refused, StaysOpen
<1>3. CASE w.enabled /\ (complete => w.active = {}) /\ o \in Then(Append1(w, record), LAMBDA v : [v EXCEPT !.terminal = TRUE])
  <2>1. PICK a \in Append1(w, record) : o = IF a.ok THEN [a EXCEPT !.writer = [a.writer EXCEPT !.terminal = TRUE]] ELSE a
    BY <1>3 DEF Then
  <2>2. CASE a = [ok |-> TRUE, writer |-> [w EXCEPT !.reader = Reads(w.reader, record)]] /\ ~w.terminal
    <3>0. w.reader \in Reader /\ w.reader.sound /\ w.reader.terminal = "none" /\ (complete => w.reader.outstanding = {})
      BY <2>2, <1>3 DEF Followed, Writer
    <3>1. Reads(w.reader, record) = [w.reader EXCEPT !.terminal = end, !.code = c]
      BY <3>0, ReadsTerminal
    <3> DEFINE v == [w EXCEPT !.reader = [w.reader EXCEPT !.terminal = end, !.code = c], !.terminal = TRUE]
    <3>2. o.ok /\ o.writer = v
      BY <2>1, <2>2, <3>1 DEF Followed, Writer
    <3>3. v \in Writer /\ v.enabled
      BY <1>3 DEF Followed, Writer, Reader
    <3>4. Followed(v)
      BY <3>3, <2>2, <1>3 DEF Followed, Writer, Reader
    <3>5. v.active = w.active /\ v.phase = w.phase /\ v.reader.code = c /\ v.reader.terminal = end
      BY <1>3 DEF Followed, Writer, Reader
    <3> QED BY <3>2, <3>3, <3>4, <3>5, <2>2, <1>3
  <2>3. CASE Refused(a, w)
    <3>1. o = a
      BY <2>1, <2>3 DEF Refused
    <3> QED BY <3>1, <2>3, <1>2, <1>3
  <2> QED BY <2>2, <2>3, AppendedRecord DEF Refused
<1> QED BY <1>1, <1>2, <1>3 DEF WithWriter, Terminal, Ready, Then, Refused

EndTold(v, w, complete, c) ==
    /\ Followed(v) /\ v.active = w.active
    /\ StaysOpen(v, w) \/ (v.reader.code = c /\ ~w.terminal /\ v.reader.terminal = IF complete THEN "completed" ELSE "incomplete")

LEMMA EndIsTold ==
  ASSUME NEW w, Followed(w), NEW c \in Int
  PROVE  /\ \A o \in WithWriter(w, Terminal(w, TRUE, c)) : EndTold(o.writer, w, TRUE, c)
         /\ \A o \in WithWriter(w, Terminal(w, FALSE, c)) : EndTold(o.writer, w, FALSE, c)
<1>1. \A complete \in BOOLEAN : \A o \in WithWriter(w, Terminal(w, complete, c)) : EndTold(o.writer, w, complete, c)
  BY TerminalFollowed DEF EndTold
<1>2. TRUE \in BOOLEAN /\ FALSE \in BOOLEAN
  OBVIOUS
<1> QED BY ONLY <1>1, <1>2, Zenon

-----------------------------------------------------------------------------
(* Exit codes *)

LEMMA Severities ==
  /\ LeastToMostSevere = <<0, 2, 3, 4, 1, 101>>
  /\ Severity(0) = 1 /\ Severity(2) = 2 /\ Severity(3) = 3 /\ Severity(4) = 4 /\ Severity(101) = 6
<1> DEFINE q == LeastToMostSevere
<1>1. q = <<0, 2, 3, 4, 1, 101>> /\ DOMAIN q = 1..6
  BY DEF LeastToMostSevere, SUCCESS, MISSED, TIMED_OUT, BASELINE_FAILED, USAGE, PANIC
<1>2. q[1] = 0 /\ q[2] = 2 /\ q[3] = 3 /\ q[4] = 4 /\ q[5] = 1 /\ q[6] = 101
  BY <1>1
<1>3. \A i \in DOMAIN q : i = 1 \/ i = 2 \/ i = 3 \/ i = 4 \/ i = 5 \/ i = 6
  BY <1>1
<1> HIDE DEF q
<1>4. ASSUME NEW i \in 1..6
      PROVE  Severity(q[i]) = i
  <2>1. q[i] \in Range(q)
    BY <1>1 DEF Range
  <2>2. \A j \in DOMAIN q : q[j] = q[i] => j = i
    BY <1>1, <1>2, <1>3
  <2>3. (CHOOSE j \in DOMAIN q : q[j] = q[i]) = i
    BY <2>2, <1>1
  <2> QED BY <2>1, <2>3 DEF Severity, q
<1>5. 1 \in 1..6 /\ 2 \in 1..6 /\ 3 \in 1..6 /\ 4 \in 1..6 /\ 6 \in 1..6
  OBVIOUS
<1> QED BY <1>1, <1>2, <1>4, <1>5 DEF q

\* The codes that the harnesses of a run and their results call for.
HarnessCodes == {0, 2, 3, 4, 101}

\* The worst of some codes is one of them, and none is worse.
LEMMA WorstOf ==
  ASSUME NEW codes \in SUBSET HarnessCodes, codes # {}
  PROVE  worst(codes) \in codes /\ \A c \in codes : Severity(c) <= Severity(worst(codes))
<1> DEFINE S == {Severity(c) : c \in codes}
<1>1. S \subseteq {1, 2, 3, 4, 6} /\ S # {}
  <2>1. \A c \in HarnessCodes : Severity(c) \in {1, 2, 3, 4, 6}
    BY Severities DEF HarnessCodes
  <2>2. PICK c \in codes : TRUE
    OBVIOUS
  <2>3. Severity(c) \in S
    OBVIOUS
  <2> QED BY <2>1, <2>3
<1>2. \E x \in S : \A y \in S : x >= y
  <2> HIDE DEF S
  <2>0. \A y \in S : y = 1 \/ y = 2 \/ y = 3 \/ y = 4 \/ y = 6
    BY <1>1
  <2>1. CASE 6 \in S
    <3>1. \A y \in S : 6 >= y
      BY <2>0
    <3> QED BY <3>1, <2>1
  <2>2. CASE 6 \notin S /\ 4 \in S
    <3>1. \A y \in S : 4 >= y
      BY <2>0, <2>2
    <3> QED BY <3>1, <2>2
  <2>3. CASE 6 \notin S /\ 4 \notin S /\ 3 \in S
    <3>1. \A y \in S : 3 >= y
      BY <2>0, <2>3
    <3> QED BY <3>1, <2>3
  <2>4. CASE 6 \notin S /\ 4 \notin S /\ 3 \notin S /\ 2 \in S
    <3>1. \A y \in S : 2 >= y
      BY <2>0, <2>4
    <3> QED BY <3>1, <2>4
  <2>5. CASE 6 \notin S /\ 4 \notin S /\ 3 \notin S /\ 2 \notin S
    <3>1. S = {1}
      BY <2>0, <2>5, <1>1
    <3> QED BY <3>1
  <2> QED BY <2>1, <2>2, <2>3, <2>4, <2>5
<1>3. Max(S) \in S /\ \A y \in S : Max(S) >= y
  BY <1>2 DEF Max
<1> HIDE DEF S
<1>4. PICK c \in codes : Max(S) = Severity(c)
  BY <1>3 DEF S
<1>5. worst(codes) = LeastToMostSevere[Severity(c)]
  BY <1>4 DEF worst, S
<1>6. LeastToMostSevere[Severity(c)] = c
  <2>1. /\ LeastToMostSevere[1] = 0 /\ LeastToMostSevere[2] = 2 /\ LeastToMostSevere[3] = 3 /\ LeastToMostSevere[4] = 4
        /\ LeastToMostSevere[6] = 101
    BY Severities
  <2> QED BY <2>1, Severities DEF HarnessCodes
<1>7. \A d \in codes : Severity(d) <= Severity(c)
  <2> SUFFICES ASSUME NEW d \in codes PROVE Severity(d) <= Severity(c)
    OBVIOUS
  <2>1. Severity(d) \in S /\ Severity(c) \in S
    BY DEF S
  <2>2. Severity(c) >= Severity(d)
    BY <2>1, <1>3, <1>4
  <2> QED BY <2>1, <2>2, <1>1
<1> QED BY <1>5, <1>6, <1>7

\* What the exit code of a completed analysis says of all its harnesses.
LEMMA WorstCompleted ==
  ASSUME NEW codes \in SUBSET HarnessCodes, codes # {}
  PROVE  /\ worst(codes) \in HarnessCodes
         /\ worst(codes) = SUCCESS <=> codes = {SUCCESS}
         /\ AnalysisCompleted(worst(codes)) <=> \A c \in codes : AnalysisCompleted(c)
<1>1. worst(codes) \in codes /\ \A c \in codes : Severity(c) <= Severity(worst(codes))
  BY WorstOf
<1>2. \A c \in HarnessCodes : Severity(c) \in {1, 2, 3, 4, 6} /\ (Severity(c) = 1 <=> c = 0) /\ (Severity(c) <= 3 <=> c \in {0, 2, 3})
  BY Severities DEF HarnessCodes
<1>3. \A c \in codes : c \in HarnessCodes
  OBVIOUS
<1>4. worst(codes) = 0 => \A c \in codes : c = 0
  <2> SUFFICES ASSUME worst(codes) = 0, NEW c \in codes PROVE c = 0
    OBVIOUS
  <2>1. Severity(c) <= 1 /\ Severity(c) \in {1, 2, 3, 4, 6} /\ (Severity(c) = 1 <=> c = 0)
    BY <1>1, <1>2, <1>3, Severities
  <2> QED BY <2>1
<1>5. worst(codes) \in {0, 2, 3} => \A c \in codes : c \in {0, 2, 3}
  <2> SUFFICES ASSUME worst(codes) \in {0, 2, 3}, NEW c \in codes PROVE c \in {0, 2, 3}
    OBVIOUS
  <2>1. Severity(c) <= Severity(worst(codes)) /\ Severity(worst(codes)) <= 3 /\ Severity(c) \in {1, 2, 3, 4, 6} /\ Severity(worst(codes)) \in {1, 2, 3, 4, 6}
    BY <1>1, <1>2, <1>3
  <2>2. Severity(c) <= 3
    BY <2>1
  <2> QED BY <2>2, <1>2, <1>3
<1> QED BY <1>1, <1>3, <1>4, <1>5 DEF AnalysisCompleted, SUCCESS, MISSED, TIMED_OUT

\* The exit code of the results: the worst of what the tests of each mutation call for.
LEMMA VerdictCode ==
  ASSUME NEW rs, IsFiniteSet(DOMAIN rs)
  PROVE  VerdictExitCode(rs) = IF \E m \in DOMAIN rs : rs[m].verdict = "TimedOut" THEN TIMED_OUT
                               ELSE IF \E m \in DOMAIN rs : rs[m].verdict = "Undetected" THEN MISSED ELSE SUCCESS
<1>1. ASSUME NEW v
      PROVE  CountOf(rs, v) > 0 <=> \E m \in DOMAIN rs : rs[m].verdict = v
  <2> DEFINE S == {m \in DOMAIN rs : rs[m].verdict = v}
  <2>1. IsFiniteSet(S)
    BY FS_Subset
  <2>2. Cardinality(S) \in Nat /\ (Cardinality(S) = 0 <=> S = {})
    BY <2>1, FS_CardinalityType, FS_EmptySet
  <2> QED BY <2>2 DEF CountOf
<1> DEFINE missed == IF CountOf(rs, "Undetected") > 0 THEN {MISSED} ELSE {}
           timed == IF CountOf(rs, "TimedOut") > 0 THEN {TIMED_OUT} ELSE {}
<1>2. VerdictExitCode(rs) = worst(missed \cup timed)
  BY DEF VerdictExitCode
<1>3. missed \cup timed \subseteq HarnessCodes
  BY DEF HarnessCodes, MISSED, TIMED_OUT
<1>4. CASE \E m \in DOMAIN rs : rs[m].verdict = "TimedOut"
  <2>1. 3 \in missed \cup timed /\ missed \cup timed \subseteq {2, 3}
    BY <1>1, <1>4 DEF MISSED, TIMED_OUT
  <2> HIDE DEF missed, timed
  <2>2. worst(missed \cup timed) \in {2, 3} /\ Severity(3) <= Severity(worst(missed \cup timed))
    BY <2>1, <1>3, WorstOf
  <2>3. worst(missed \cup timed) = 3
    BY <2>2, Severities
  <2> QED BY <2>3, <1>2, <1>4 DEF TIMED_OUT
<1>5. CASE ~(\E m \in DOMAIN rs : rs[m].verdict = "TimedOut") /\ \E m \in DOMAIN rs : rs[m].verdict = "Undetected"
  <2>1. missed \cup timed = {2}
    BY <1>1, <1>5 DEF MISSED
  <2> HIDE DEF missed, timed
  <2>2. worst(missed \cup timed) = 2
    BY <2>1, <1>3, WorstOf
  <2> QED BY <2>2, <1>2, <1>5 DEF MISSED
<1>6. CASE ~(\E m \in DOMAIN rs : rs[m].verdict = "TimedOut") /\ ~\E m \in DOMAIN rs : rs[m].verdict = "Undetected"
  <2>1. missed \cup timed = {}
    BY <1>1, <1>6
  <2> QED BY <2>1, <1>2, <1>6 DEF worst
<1> QED BY <1>4, <1>5, <1>6

-----------------------------------------------------------------------------
(* Results and queues *)

\* A test that has no result yet gives one to a mutation that it reaches.
LEMMA ResultTaken ==
  ASSUME NEW r, NEW tests, ResultOK(r, tests), NEW x \in tests \ DOMAIN r.tests, NEW outcome \in TestOutcomes
  PROVE  ResultOK(WithTestResult(r, x, outcome), tests) /\ DOMAIN WithTestResult(r, x, outcome).tests = DOMAIN r.tests \cup {x}
<1> DEFINE new == WithTestResult(r, x, outcome)
<1>1. new.tests = [y \in DOMAIN r.tests \cup {x} |-> IF y = x THEN outcome ELSE r.tests[y]]
  BY DEF WithTestResult
<1>2. /\ outcome = "Undetected" => new.verdict = r.verdict
      /\ outcome # "Undetected" => new.verdict \in TestOutcomes \ {"Undetected"}
  BY DEF WithTestResult, TestOutcomes
<1> HIDE DEF new
<1>3. DOMAIN new.tests = DOMAIN r.tests \cup {x} /\ new.tests[x] = outcome /\ \A y \in DOMAIN r.tests : new.tests[y] = r.tests[y]
  BY <1>1
<1>4. ResultOK(new, tests)
  BY <1>2, <1>3 DEF ResultOK
<1> QED BY <1>3, <1>4 DEF new

LEMMA NoResultOK == \A tests : ResultOK(NoResult, tests) /\ DOMAIN NoResult.tests = {}
BY DEF ResultOK, NoResult, TestOutcomes

\* One more result, or one result that changes, of which the rest are right.
LEMMA ResultsPut ==
  ASSUME NEW rs, NEW s, ResultsOK(rs, s), NEW m \in DOMAIN s, NEW new, NEW r, ResultOK(r, s[m]),
         DOMAIN new = DOMAIN rs \cup {m}, new[m] = r, \A n \in DOMAIN rs \ {m} : new[n] = rs[n]
  PROVE  ResultsOK(new, s)
BY DEF ResultsOK

LEMMA BoxGrows ==
  ASSUME NEW T, NEW q \in Seq(T), NEW b
  PROVE  InBox(Append(q, b)) = InBox(q) \cup b
<1>1. DOMAIN Append(q, b) = DOMAIN q \cup {Len(q) + 1}
  OBVIOUS
<1>2. Append(q, b)[Len(q) + 1] = b /\ \A k \in DOMAIN q : Append(q, b)[k] = q[k]
  OBVIOUS
<1> QED BY <1>1, <1>2 DEF InBox

LEMMA BatchesGrow ==
  ASSUME NEW T, NEW q \in Seq(T), BatchesApart(q), NEW b, b \cap InBox(q) = {}
  PROVE  BatchesApart(Append(q, b))
<1>1. DOMAIN Append(q, b) = DOMAIN q \cup {Len(q) + 1}
  OBVIOUS
<1>2. Append(q, b)[Len(q) + 1] = b /\ \A k \in DOMAIN q : Append(q, b)[k] = q[k]
  OBVIOUS
<1>3. \A k \in DOMAIN q : q[k] \cap b = {}
  BY DEF InBox
<1> QED BY <1>1, <1>2, <1>3 DEF BatchesApart

LEMMA BoxShrinks ==
  ASSUME NEW T, NEW q \in Seq(T), q # <<>>, BatchesApart(q)
  PROVE  /\ InBox(q) = Head(q) \cup InBox(Tail(q)) /\ Head(q) \cap InBox(Tail(q)) = {} /\ BatchesApart(Tail(q))
         /\ Head(q) \in T /\ Tail(q) \in Seq(T)
<1>1. Len(q) \in Nat \ {0} /\ DOMAIN q = 1..Len(q)
  OBVIOUS
<1>2. Tail(q) \in Seq(T) /\ Head(q) = q[1] /\ Len(Tail(q)) = Len(q) - 1 /\ q[1] \in T
  OBVIOUS
<1>3. DOMAIN Tail(q) = 1..(Len(q) - 1) /\ \A k \in 1..(Len(q) - 1) : Tail(q)[k] = q[k + 1]
  BY <1>1
<1>4. InBox(q) = Head(q) \cup InBox(Tail(q))
  <2>1. ASSUME NEW i \in InBox(q) PROVE i \in Head(q) \cup InBox(Tail(q))
    <3>1. PICK k \in 1..Len(q) : i \in q[k]
      BY <1>1 DEF InBox
    <3>2. CASE k = 1
      BY <3>1, <3>2, <1>2
    <3>3. CASE k # 1
      <4>1. k - 1 \in 1..(Len(q) - 1) /\ (k - 1) + 1 = k
        BY <3>3, <1>1
      <4> QED BY <4>1, <3>1, <1>3 DEF InBox
    <3> QED BY <3>2, <3>3
  <2>2. ASSUME NEW i \in Head(q) \cup InBox(Tail(q)) PROVE i \in InBox(q)
    <3>1. CASE i \in Head(q)
      BY <3>1, <1>1, <1>2 DEF InBox
    <3>2. CASE i \in InBox(Tail(q))
      <4>1. PICK k \in 1..(Len(q) - 1) : i \in q[k + 1]
        BY <3>2, <1>3 DEF InBox
      <4>2. k + 1 \in 1..Len(q)
        BY <1>1
      <4> QED BY <4>1, <4>2, <1>1 DEF InBox
    <3> QED BY <3>1, <3>2
  <2> QED BY <2>1, <2>2
<1>5. Head(q) \cap InBox(Tail(q)) = {} /\ BatchesApart(Tail(q))
  <2>1. \A k \in 1..(Len(q) - 1) : k + 1 \in 1..Len(q) /\ k + 1 # 1
    BY <1>1
  <2>2. \A k \in DOMAIN Tail(q) : Head(q) \cap Tail(q)[k] = {}
    BY <2>1, <1>1, <1>2, <1>3 DEF BatchesApart
  <2>3. \A j, k \in 1..(Len(q) - 1) : j # k => j + 1 # k + 1
    BY <1>1
  <2>4. BatchesApart(Tail(q))
    BY <2>1, <2>3, <1>1, <1>3 DEF BatchesApart
  <2> QED BY <2>2, <2>4 DEF InBox
<1> QED BY <1>2, <1>4, <1>5

-----------------------------------------------------------------------------
(* The steps of a worker *)

LEMMA WorkerParts ==
  ASSUME WorkerInv
  PROVE  ProgressInv /\ RunInv /\ ResultsInv /\ CompletionInv /\ MonitorInv /\ StreamInv
BY DEF WorkerInv

\* A worker that fails leaves all as it was, but for what it tells the reader.
LEMMA FailureKeeps ==
  ASSUME WorkerInv, NEW w, Followed(w), StaysOpen(w, writer), w.active \subseteq 1..ids,
         NEW c \in {PANIC, BASELINE_FAILED}, ExitIncomplete(w, c), UNCHANGED <<suite, opts>>
  PROVE  WorkerInv'
<1> USE WorkerParts
<1>1. /\ wpc' = "over" /\ wcode' = c
      /\ UNCHANGED <<todo, running, failures, current, ids, given, alive, results, past, stream, inbox, watched, scan, monitor,
                     completion, journaled, marked, suite, opts>>
  BY DEF ExitIncomplete, run, watching, persistent
<1>2. PICK o \in WithWriter(w, Terminal(w, FALSE, c)) : writer' = o.writer
  BY DEF ExitIncomplete
<1>3. ProgressInv'
  <2>0. c \in Int
    BY DEF PANIC, BASELINE_FAILED
  <2>1. /\ Followed(writer') /\ writer'.active = w.active
        /\ StaysOpen(writer', w) \/ writer'.reader.terminal = "incomplete"
    <3>1. EndTold(o.writer, w, FALSE, c)
      BY <2>0, EndIsTold, Zenon
    <3> QED BY <3>1, <1>2 DEF EndTold
  <2>2. writer'.reader.terminal = "completed" => writer.reader.terminal = "completed" /\ writer'.reader.code = writer.reader.code
    BY <2>1 DEF StaysOpen
  <2> QED BY <1>1, <2>1, <2>2 DEF ProgressInv, Testing, InTests
<1>4. RunInv'
  BY <1>1 DEF RunInv, Wpcs, SuiteTests, Muts
<1>5. ResultsInv'
  BY <1>1 DEF ResultsInv, Muts
<1>6. CompletionInv'
  BY <1>1 DEF CompletionInv, WorkerCodes, FinalCode, Muts, NoCode, PANIC, BASELINE_FAILED
<1>7. MonitorInv'
  BY <1>1 DEF MonitorInv, Lingering
<1>8. StreamInv'
  BY <1>1 DEF StreamInv
<1> QED BY <1>3, <1>4, <1>5, <1>6, <1>7, <1>8 DEF WorkerInv

\* What happens after a record, where the call leaves the writer w.
LEMMA RecordFails ==
  ASSUME WorkerInv, NEW o, Followed(o.writer), StaysOpen(o.writer, writer), o.writer.active = writer.active,
         ExitIncomplete(o.writer, PANIC), UNCHANGED <<suite, opts>>
  PROVE  WorkerInv'
BY FailureKeeps, WorkerParts DEF ProgressInv

\* A step after which the tests of a run, and what the writer was told, are within what they were.
LEMMA ProgressKept ==
  ASSUME ProgressInv, Followed(writer'), StaysOpen(writer', writer), writer'.active \subseteq 1..ids',
         Testing' /\ writer'.enabled => writer'.phase # NoPhase,
         wpc \in {"exiting", "over"} => wpc' \in {"exiting", "over"},
         completion' = completion \/ completion = NoCode
  PROVE  ProgressInv'
BY DEF ProgressInv, StaysOpen

LEMMA BeginReferenceKeeps ==
  ASSUME WorkerInv, BeginReference, UNCHANGED <<suite, opts>>
  PROVE  WorkerInv'
<1> USE WorkerParts
<1>1. wpc = "open" /\ results' = journaled /\ UNCHANGED <<past, inbox, watched, scan, monitor, completion, journaled, marked>>
  BY DEF BeginReference, watching, persistent
<1>2. todo = {} /\ running = {} /\ given = {} /\ current = 0 /\ DOMAIN stream = {} /\ inbox = <<>> /\ watched = {}
  BY <1>1 DEF RunInv, MonitorInv
<1>3. \/ wpc' = "evaluate" /\ todo' = {} /\ UNCHANGED <<writer, wcode, running, given, current, ids, stream>>
      \/ \E o \in WithWriter(writer, SetPhase(writer, "reference")) :
            \/ /\ o.ok /\ writer' = o.writer /\ wcode' = wcode /\ wpc' = "reference"
               /\ todo' = SuiteTests /\ running' = {} /\ given' = {} /\ UNCHANGED <<current, ids, stream>>
            \/ ~o.ok /\ ExitIncomplete(o.writer, PANIC)
  BY <1>1, <1>2 DEF BeginReference, Recording, FreshRun, run
<1>4. CASE /\ wpc' = "evaluate" /\ todo' = {} /\ UNCHANGED <<writer, wcode, running, given, current, ids, stream>>
  <2>1. ProgressInv'
    BY <1>1, <1>2, <1>4 DEF ProgressInv, Testing, InTests
  <2>2. RunInv'
    BY <1>1, <1>2, <1>4 DEF RunInv, Wpcs, SuiteTests, Muts
  <2>3. ResultsInv'
    BY <1>1, <1>4 DEF ResultsInv, Muts
  <2>4. CompletionInv'
    BY <1>1, <1>4 DEF CompletionInv
  <2>5. MonitorInv'
    BY <1>1, <1>4 DEF MonitorInv, Lingering
  <2>6. StreamInv'
    BY <1>1, <1>2, <1>4 DEF StreamInv, Streamed, Lingering, Ids, InBox
  <2> QED BY <2>1, <2>2, <2>3, <2>4, <2>5, <2>6 DEF WorkerInv
<1>5. CASE \E o \in WithWriter(writer, SetPhase(writer, "reference")) :
            \/ /\ o.ok /\ writer' = o.writer /\ wcode' = wcode /\ wpc' = "reference"
               /\ todo' = SuiteTests /\ running' = {} /\ given' = {} /\ UNCHANGED <<current, ids, stream>>
            \/ ~o.ok /\ ExitIncomplete(o.writer, PANIC)
  <2>1. PICK o \in WithWriter(writer, SetPhase(writer, "reference")) :
            \/ /\ o.ok /\ writer' = o.writer /\ wcode' = wcode /\ wpc' = "reference"
               /\ todo' = SuiteTests /\ running' = {} /\ given' = {} /\ UNCHANGED <<current, ids, stream>>
            \/ ~o.ok /\ ExitIncomplete(o.writer, PANIC)
    BY <1>5
  <2>2. /\ Followed(o.writer) /\ StaysOpen(o.writer, writer) /\ o.writer.active = writer.active
        /\ o.ok /\ writer.enabled => o.writer.phase = "reference"
    <3>1. "reference" \in Phases /\ Followed(writer)
      BY DEF Phases, ProgressInv
    <3> QED BY <3>1, PhaseFollowed
  <2>3. CASE ~o.ok /\ ExitIncomplete(o.writer, PANIC)
    BY <2>2, <2>3, RecordFails
  <2>4. CASE /\ o.ok /\ writer' = o.writer /\ wcode' = wcode /\ wpc' = "reference"
             /\ todo' = SuiteTests /\ running' = {} /\ given' = {} /\ UNCHANGED <<current, ids, stream>>
    <3>1. ProgressInv'
      BY <1>1, <2>2, <2>4 DEF ProgressInv, Testing, InTests, StaysOpen, NoPhase
    <3>2. RunInv'
      BY <1>1, <1>2, <2>4 DEF RunInv, Wpcs, SuiteTests, Muts
    <3>3. ResultsInv'
      BY <1>1, <2>4 DEF ResultsInv, Muts
    <3>4. CompletionInv'
      BY <1>1, <2>4 DEF CompletionInv
    <3>5. MonitorInv'
      BY <1>1, <1>2, <2>4 DEF MonitorInv, Lingering, Ids
    <3>6. StreamInv'
      BY <2>4 DEF StreamInv
    <3> QED BY <3>1, <3>2, <3>3, <3>4, <3>5, <3>6 DEF WorkerInv
  <2> QED BY <2>1, <2>3, <2>4
<1> QED BY <1>3, <1>4, <1>5

LEMMA IdsAdded ==
  ASSUME NEW rs, NEW i, NEW x
  PROVE  Ids(rs \cup {[id |-> i, test |-> x]}) = Ids(rs) \cup {i}
<1> DEFINE r == [id |-> i, test |-> x]
<1>1. r.id = i
  OBVIOUS
<1> HIDE DEF r
<1>2. Ids(rs \cup {r}) = Ids(rs) \cup {r.id}
  BY DEF Ids
<1> QED BY <1>1, <1>2 DEF r

LEMMA IdsRemoved ==
  ASSUME NEW rs, NEW r \in rs, \A s \in rs : r.id = s.id => r = s
  PROVE  Ids(rs \ {r}) = Ids(rs) \ {r.id} /\ r.id \in Ids(rs)
BY DEF Ids

\* What a test that starts changes, beside the record.
Starts(t) ==
    /\ InTests /\ t \in todo /\ ids' = ids + 1 /\ todo' = todo \ {t} /\ running' = running \cup {[id |-> ids + 1, test |-> t]}
    /\ wpc = "evaluate" => stream' = [i \in DOMAIN stream \cup {ids + 1} |-> IF i = ids + 1 THEN <<>> ELSE stream[i]]
    /\ wpc # "evaluate" => stream' = stream
    /\ UNCHANGED <<wpc, wcode, current, given, results, past, inbox, watched, monitor, completion, journaled, marked, suite, opts>>

LEMMA StartsRun ==
  ASSUME WorkerInv, NEW t, Starts(t)
  PROVE  RunInv'
<1> USE WorkerParts
<1> DEFINE new == [id |-> ids + 1, test |-> t]
<1>1. new.id = ids + 1 /\ new.test = t /\ ids \in Nat /\ t \in SuiteTests /\ SuiteTests' = SuiteTests /\ Muts' = Muts
  BY DEF Starts, RunInv, SuiteTests, Muts
<1>2. new \in [id : 1..(ids + 1), test : SuiteTests] /\ running \subseteq [id : 1..(ids + 1), test : SuiteTests]
  BY <1>1 DEF RunInv
<1>3. \A r \in running : r.id # new.id /\ r.test # new.test
  BY <1>1 DEF RunInv, Starts
<1>4. running' = running \cup {new} /\ todo' = todo \ {t} /\ ids' = ids + 1
  BY DEF Starts
<1>5. wpc' = wpc /\ current' = current /\ given' = given /\ results' = results /\ suite' = suite /\ opts' = opts
  BY DEF Starts
<1> HIDE DEF new
<1>6. running' \subseteq [id : 1..ids', test : SuiteTests'] /\ ids' \in Nat /\ todo' \subseteq SuiteTests'
  BY <1>1, <1>2, <1>4 DEF RunInv
<1>7. \A r, s \in running' : r.id = s.id \/ r.test = s.test => r = s
  BY <1>3, <1>4 DEF RunInv
<1>8. \A r \in running' : r.test \notin todo'
  BY <1>1, <1>4 DEF RunInv
<1>9. current # 0 => \A r \in running' : r.test \in suite[current] \ DOMAIN results[current].tests
  BY <1>1, <1>4 DEF RunInv, Starts
<1>10. wpc # "none" /\ wpc # "open" /\ (wpc = "evaluate" => current # 0)
  BY DEF RunInv, Starts
<1> QED BY <1>1, <1>4, <1>5, <1>6, <1>7, <1>8, <1>9, <1>10 DEF RunInv

LEMMA StartsMonitor ==
  ASSUME WorkerInv, NEW t, Starts(t)
  PROVE  MonitorInv' /\ StreamInv'
<1> USE WorkerParts
<1>1. ids \in Nat /\ ids' = ids + 1 /\ 1..ids \subseteq 1..(ids + 1) /\ ids + 1 \notin 1..ids
  BY DEF Starts, RunInv
<1>2. Ids(running') = Ids(running) \cup {ids + 1} /\ Ids(running) \subseteq 1..ids
  <2>1. running' = running \cup {[id |-> ids + 1, test |-> t]} /\ running \subseteq [id : 1..ids, test : SuiteTests]
    BY DEF Starts, RunInv
  <2> QED BY <2>1, IdsAdded DEF Ids
<1>3. Lingering' = Lingering /\ Lingering \subseteq 1..ids /\ given \subseteq 1..ids /\ given' = given
  BY DEF Starts, Lingering, MonitorInv, InBox
<1>4. inbox' \in Seq(SUBSET (1..ids'))
  BY <1>1 DEF Starts, MonitorInv
<1>5. /\ wpc = "evaluate" => DOMAIN stream' = DOMAIN stream \cup {ids + 1} /\ stream'[ids + 1] = <<>> /\ \A i \in 1..ids \cap DOMAIN stream : stream'[i] = stream[i]
      /\ wpc # "evaluate" => stream' = stream
  BY <1>1 DEF Starts
<1>6. DOMAIN stream \subseteq 1..ids
  BY DEF MonitorInv
<1>7. MonitorInv'
  <2>1. watched' \subseteq 1..ids' /\ given' \subseteq 1..ids' /\ DOMAIN stream' \subseteq 1..ids'
    BY <1>1, <1>3, <1>5, <1>6 DEF Starts, Lingering
  <2>2. Ids(running)' \cap (given' \cup Lingering') = {}
    BY <1>1, <1>2, <1>3 DEF MonitorInv
  <2>3. wpc \in {"reference", "repeat", "evaluate"} /\ wpc' = wpc
    BY DEF Starts, InTests
  <2>4. wpc \in {"reference", "repeat"} => DOMAIN stream' = {}
    BY <1>5 DEF MonitorInv
  <2>5. UNCHANGED <<inbox, watched, monitor, given>>
    BY DEF Starts
  <2> QED BY <1>3, <1>4, <2>1, <2>2, <2>3, <2>4, <2>5 DEF MonitorInv
<1>8. StreamInv'
  <2> SUFFICES ASSUME ~opts.isolated, marked = {}, wpc = "evaluate"
               PROVE  Streamed(stream', Ids(running'), given', Lingering')
    BY DEF StreamInv, Starts, InTests
  <2>1. Streamed(stream, Ids(running), given, Lingering)
    BY DEF StreamInv
  <2> QED BY <2>1, <1>1, <1>2, <1>3, <1>5, <1>6 DEF Streamed
<1> QED BY <1>7, <1>8

LEMMA StartsTestKeeps ==
  ASSUME WorkerInv, NEW t \in todo, StartsTest(t), UNCHANGED <<suite, opts>>
  PROVE  WorkerInv'
<1> USE WorkerParts
<1>1. PICK o \in WithWriter(writer, StartTest(writer, ids + 1)) :
          (o.ok /\ writer' = o.writer /\ Starts(t)) \/ (~o.ok /\ ExitIncomplete(o.writer, PANIC))
  BY DEF StartsTest, Recording, Starts, watching, persistent
<1>2. InTests
  BY DEF StartsTest
<1>3. /\ Followed(o.writer) /\ StaysOpen(o.writer, writer) /\ o.writer.phase = writer.phase
      /\ o.writer.active \subseteq writer.active \cup {ids + 1} /\ (~o.ok => o.writer.active = writer.active)
  <2>1. ids + 1 \in Nat /\ ids + 1 \notin writer.active /\ Followed(writer) /\ (writer.enabled => writer.phase # NoPhase)
    BY <1>2 DEF ProgressInv, Testing, InTests, RunInv
  <2> QED BY <2>1, StartFollowed
<1>4. CASE ~o.ok /\ ExitIncomplete(o.writer, PANIC)
  BY <1>3, <1>4, RecordFails
<1>5. CASE writer' = o.writer /\ Starts(t)
  <2>1. ProgressInv'
    <3>1. writer'.active \subseteq 1..ids'
      BY <1>3, <1>5 DEF ProgressInv, RunInv, Starts
    <3> QED BY <3>1, <1>2, <1>3, <1>5, ProgressKept DEF ProgressInv, Testing, InTests, Starts, StaysOpen
  <2>2. ResultsInv'
    BY <1>5 DEF ResultsInv, Starts, Muts
  <2>3. CompletionInv'
    BY <1>5 DEF CompletionInv, Starts, FinalCode, Muts
  <2> QED BY <2>1, <2>2, <2>3, <1>5, StartsRun, StartsMonitor DEF WorkerInv
<1> QED BY <1>1, <1>4, <1>5

\* What a test that is over changes, beside the record: it gave a result, or was given up.
Reported(r, outcome, up) ==
    /\ InTests /\ r \in running /\ outcome \in TestOutcomes
    /\ up \in {{}, {r.id}} /\ (up # {} => outcome = "TimedOut" /\ wpc # "reference")
    /\ running' = running \ {r} /\ given' = given \cup up
    /\ wpc = "evaluate" => /\ results' = [results EXCEPT ![current] = WithTestResult(results[current], r.test, outcome)]
                           /\ stream' = [stream EXCEPT ![r.id] = Append(stream[r.id], outcome)]
    /\ wpc # "evaluate" => results' = results /\ stream' = stream
    /\ UNCHANGED <<wpc, wcode, todo, current, ids, past, inbox, watched, monitor, completion, journaled, marked, suite, opts>>

LEMMA ReportedResult ==
  ASSUME WorkerInv, NEW r, NEW outcome, NEW up, Reported(r, outcome, up)
  PROVE  RunInv' /\ ResultsInv'
<1> USE WorkerParts
<1>1. /\ UNCHANGED <<wpc, todo, current, ids, past, journaled, suite, opts>>
      /\ Muts' = Muts /\ SuiteTests' = SuiteTests /\ running' = running \ {r} /\ r \in running
      /\ wpc \in {"reference", "repeat", "evaluate"} /\ outcome \in TestOutcomes
  BY DEF Reported, Muts, SuiteTests, InTests
<1>2. CASE wpc = "evaluate"
  <2> DEFINE had == results[current]
             has == WithTestResult(had, r.test, outcome)
  <2>1. current # 0 /\ current \in DOMAIN results /\ current \in DOMAIN suite /\ r.test \in suite[current] \ DOMAIN had.tests
    BY <1>1, <1>2 DEF RunInv, ResultsInv, ResultsOK
  <2>2. ResultOK(had, suite[current])
    BY <2>1 DEF ResultsInv, ResultsOK
  <2>3. ResultOK(has, suite[current]) /\ DOMAIN has.tests = DOMAIN had.tests \cup {r.test}
    BY <1>1, <2>1, <2>2, ResultTaken
  <2>4. DOMAIN results' = DOMAIN results /\ results'[current] = has /\ \A n \in DOMAIN results \ {current} : results'[n] = results[n]
    BY <1>2, <2>1 DEF Reported
  <2> HIDE DEF has
  <2>5. ResultsOK(results', suite')
    <3>1. ResultsOK(results, suite) /\ DOMAIN results' = DOMAIN results \cup {current}
      BY <2>1, <2>4 DEF ResultsInv
    <3>2. ResultsOK(results', suite)
      BY ONLY <3>1, <2>1, <2>3, <2>4, ResultsPut
    <3> QED BY <3>2, <1>1
  <2>6. ResultsInv'
    BY <1>1, <1>2, <2>5 DEF ResultsInv
  <2>7. RunInv'
    <3>1. r.test \notin todo /\ \A s \in running \ {r} : s.test # r.test
      BY <1>1 DEF RunInv
    <3>2. /\ todo' \subseteq suite'[current'] /\ todo' \cap DOMAIN results'[current'].tests = {} /\ current' \in DOMAIN results'
          /\ \A s \in running' : s.test \in suite'[current'] \ DOMAIN results'[current'].tests
      BY <3>1, <1>1, <2>1, <2>3, <2>4 DEF RunInv
    <3> QED BY <3>2, <1>1, <1>2, <2>1 DEF RunInv
  <2> QED BY <2>6, <2>7
<1>3. CASE wpc # "evaluate"
  <2>1. results' = results /\ current = 0 /\ (wpc = "reference" => given' = given)
    BY <1>1, <1>3 DEF Reported, RunInv
  <2> QED BY <1>1, <1>3, <2>1 DEF RunInv, ResultsInv
<1> QED BY <1>2, <1>3

LEMMA ReportedMonitor ==
  ASSUME WorkerInv, NEW r, NEW outcome, NEW up, Reported(r, outcome, up)
  PROVE  MonitorInv' /\ StreamInv'
<1> USE WorkerParts
<1>1. /\ UNCHANGED <<wpc, ids, inbox, watched, monitor, marked, opts>>
      /\ running' = running \ {r} /\ given' = given \cup up /\ up \subseteq {r.id}
      /\ wpc \in {"reference", "repeat", "evaluate"}
  BY DEF Reported, InTests
<1>2. Ids(running') = Ids(running) \ {r.id} /\ r.id \in Ids(running) /\ Ids(running) \subseteq 1..ids
  <2>1. r \in running /\ running \subseteq [id : 1..ids, test : SuiteTests] /\ \A s \in running : r.id = s.id => r = s
    BY DEF Reported, RunInv
  <2>2. Ids(running \ {r}) = Ids(running) \ {r.id} /\ r.id \in Ids(running)
    BY ONLY <2>1, IdsRemoved
  <2> QED BY <2>1, <2>2, <1>1 DEF Ids
<1>3. Lingering' = Lingering
  BY <1>1 DEF Lingering
<1>4. /\ DOMAIN stream' = DOMAIN stream /\ \A i \in DOMAIN stream \ {r.id} : stream'[i] = stream[i]
      /\ wpc = "evaluate" /\ r.id \in DOMAIN stream => stream'[r.id] = Append(stream[r.id], outcome)
  BY <1>1 DEF Reported
<1>5. MonitorInv'
  BY <1>1, <1>2, <1>3, <1>4 DEF MonitorInv
<1>6. StreamInv'
  <2> SUFFICES ASSUME ~opts.isolated, marked = {}, wpc = "evaluate"
               PROVE  Streamed(stream', Ids(running'), given', Lingering')
    BY <1>1 DEF StreamInv
  <2>1. Streamed(stream, Ids(running), given, Lingering)
    BY DEF StreamInv
  <2>2. r.id \in DOMAIN stream /\ stream[r.id] = <<>> /\ stream'[r.id] = Append(stream[r.id], outcome)
    BY <2>1, <1>2, <1>4 DEF Streamed
  <2>3. stream'[r.id] = <<outcome>>
    BY <2>2
  <2>4. Complete(stream'[r.id]) /\ (up # {} => stream'[r.id] = OnceGiven)
    BY <2>3 DEF Complete, OnceGiven, Reported
  <2>5. r.id \notin given \cup Lingering
    BY <1>2 DEF MonitorInv
  <2>6. up = {} \/ up = {r.id}
    BY DEF Reported
  <2> QED BY <2>1, <2>2, <2>4, <2>5, <2>6, <1>1, <1>2, <1>3, <1>4 DEF Streamed
<1> QED BY <1>5, <1>6

LEMMA ReportedKeeps ==
  ASSUME WorkerInv, NEW r, NEW outcome, NEW up, NEW complete \in BOOLEAN, NEW o \in WithWriter(writer, EndTest(writer, r.id, complete)),
         InTests, r \in running, (o.ok /\ writer' = o.writer /\ Reported(r, outcome, up)) \/ (~o.ok /\ ExitIncomplete(o.writer, PANIC)),
         UNCHANGED <<suite, opts>>
  PROVE  WorkerInv'
<1> USE WorkerParts
<1>1. Followed(o.writer) /\ StaysOpen(o.writer, writer) /\ o.writer.phase = writer.phase /\ o.writer.active \subseteq writer.active
  <2>1. r.id \in Nat /\ Followed(writer)
    BY DEF RunInv, ProgressInv
  <2> QED BY <2>1, EndFollowed
<1>2. CASE ~o.ok /\ ExitIncomplete(o.writer, PANIC)
  <2>1. o.writer.active \subseteq 1..ids
    BY <1>1 DEF ProgressInv
  <2> QED BY <2>1, <1>1, <1>2, FailureKeeps
<1>3. CASE writer' = o.writer /\ Reported(r, outcome, up)
  <2>1. ProgressInv'
    BY <1>1, <1>3, ProgressKept DEF ProgressInv, Testing, InTests, Reported, StaysOpen
  <2>2. CompletionInv'
    BY <1>3 DEF CompletionInv, Reported, InTests
  <2> QED BY <2>1, <2>2, <1>3, ReportedResult, ReportedMonitor DEF WorkerInv
<1> QED BY <1>2, <1>3

LEMMA TestReportsKeeps ==
  ASSUME WorkerInv, NEW r \in running, NEW outcome \in Outcomes, TestReports(r, outcome), UNCHANGED <<suite, opts>>
  PROVE  WorkerInv'
<1>1. outcome \in TestOutcomes /\ InTests
  BY DEF Outcomes, TestOutcomes, TestReports
<1>2. PICK o \in WithWriter(writer, EndTest(writer, r.id, TRUE)) :
          (o.ok /\ writer' = o.writer /\ Reported(r, outcome, {})) \/ (~o.ok /\ ExitIncomplete(o.writer, PANIC))
  BY <1>1 DEF TestReports, Recording, Reported, Callback, InTests, watching, persistent
<1> QED BY <1>1, <1>2, ReportedKeeps

LEMMA TestTimesOutKeeps ==
  ASSUME WorkerInv, NEW r \in running, TestTimesOut(r), UNCHANGED <<suite, opts>>
  PROVE  WorkerInv'
<1>1. InTests
  BY DEF InTests, TestTimesOut
<1>2. PICK o \in WithWriter(writer, EndTest(writer, r.id, FALSE)) :
          (o.ok /\ writer' = o.writer /\ Reported(r, "TimedOut", {r.id})) \/ (~o.ok /\ ExitIncomplete(o.writer, PANIC))
  BY <1>1 DEF TestTimesOut, Recording, Reported, Callback, InTests, TestOutcomes, watching, persistent
<1> QED BY <1>1, <1>2, ReportedKeeps

LEMMA CancelTestKeeps ==
  ASSUME WorkerInv, NEW r \in running, CancelTest(r), UNCHANGED <<suite, opts>>
  PROVE  WorkerInv'
<1> USE WorkerParts
<1>1. PICK o \in WithWriter(writer, EndTest(writer, r.id, TRUE)) :
          \/ /\ o.ok /\ writer' = o.writer /\ wcode' = wcode /\ running' = running \ {r}
             /\ UNCHANGED <<wpc, todo, failures, current, ids, given, alive, results, past, stream, inbox, watched, monitor,
                            completion, journaled, marked>>
          \/ ~o.ok /\ ExitIncomplete(o.writer, PANIC)
  BY DEF CancelTest, Recording, watching, persistent
<1>2. Followed(o.writer) /\ StaysOpen(o.writer, writer) /\ o.writer.phase = writer.phase /\ o.writer.active \subseteq writer.active
  <2>1. r.id \in Nat /\ Followed(writer)
    BY DEF RunInv, ProgressInv
  <2> QED BY <2>1, EndFollowed
<1>3. wpc = "evaluate" /\ (opts.isolated \/ marked # {})
  BY DEF CancelTest, IsolatedNow
<1>4. CASE ~o.ok /\ ExitIncomplete(o.writer, PANIC)
  <2>1. o.writer.active \subseteq 1..ids
    BY <1>2 DEF ProgressInv
  <2> QED BY <2>1, <1>2, <1>4, FailureKeeps
<1>5. CASE /\ o.ok /\ writer' = o.writer /\ wcode' = wcode /\ running' = running \ {r}
           /\ UNCHANGED <<wpc, todo, failures, current, ids, given, alive, results, past, stream, inbox, watched, monitor,
                          completion, journaled, marked>>
  <2>1. ProgressInv'
    BY <1>2, <1>5, ProgressKept DEF ProgressInv, Testing, InTests, StaysOpen
  <2>2. RunInv'
    BY <1>5 DEF RunInv, SuiteTests, Muts
  <2>3. ResultsInv' /\ CompletionInv'
    BY <1>3, <1>5 DEF ResultsInv, CompletionInv, Muts
  <2>4. MonitorInv'
    <3>1. Ids(running') \subseteq Ids(running) /\ Lingering' = Lingering
      BY <1>5 DEF Ids, Lingering
    <3> QED BY <3>1, <1>5 DEF MonitorInv
  <2>5. StreamInv'
    BY <1>3, <1>5 DEF StreamInv
  <2> QED BY <2>1, <2>2, <2>3, <2>4, <2>5 DEF WorkerInv
<1> QED BY <1>1, <1>4, <1>5

LEMMA EndReferenceKeeps ==
  ASSUME WorkerInv, EndReference, UNCHANGED <<suite, opts>>
  PROVE  WorkerInv'
<1> USE WorkerParts
<1>1. wpc = "reference" /\ todo = {} /\ running = {} /\ current = 0
  BY DEF EndReference, RunOver, Stopped, RunInv
<1>2. CASE ExitIncomplete(writer, BASELINE_FAILED)
  BY <1>2, FailureKeeps DEF ProgressInv, StaysOpen
<1>3. CASE /\ wpc' \in {"evaluate", "repeat"} /\ (wpc' = "evaluate" => opts.isolated /\ UNCHANGED <<todo, running, given>>)
           /\ (wpc' = "repeat" => todo' = SuiteTests /\ running' = {} /\ given' = {})
           /\ UNCHANGED <<wcode, writer, current, ids, results, past, stream, inbox, watched, monitor, completion, journaled, marked>>
  <2>1. ProgressInv'
    <3> QED BY <1>1, <1>3 DEF ProgressInv, Testing, InTests
  <2>2. RunInv'
    BY <1>1, <1>3 DEF RunInv, Wpcs, SuiteTests, Muts
  <2>3. ResultsInv' /\ CompletionInv'
    BY <1>1, <1>3 DEF ResultsInv, CompletionInv, Muts
  <2>4. MonitorInv'
    BY <1>1, <1>3 DEF MonitorInv, Lingering, Ids, InBox
  <2>5. StreamInv'
    BY <1>1, <1>3 DEF StreamInv
  <2> QED BY <2>1, <2>2, <2>3, <2>4, <2>5 DEF WorkerInv
<1> QED BY <1>1, <1>2, <1>3 DEF EndReference, FreshRun, run, watching, persistent

LEMMA EndRepeatKeeps ==
  ASSUME WorkerInv, EndRepeat, UNCHANGED <<suite, opts>>
  PROVE  WorkerInv'
<1> USE WorkerParts
<1>1. /\ wpc = "repeat" /\ wpc' = "evaluate" /\ current = 0 /\ todo' = {} /\ running' = {} /\ given' = {}
      /\ DOMAIN stream = {} /\ inbox = <<>> /\ watched = {}
      /\ UNCHANGED <<wcode, writer, current, ids, results, past, stream, inbox, watched, monitor, completion, journaled, marked>>
  BY DEF EndRepeat, FreshRun, RunInv, MonitorInv, watching, persistent
<1>2. ProgressInv'
  BY <1>1 DEF ProgressInv, Testing, InTests
<1>3. RunInv'
  BY <1>1 DEF RunInv, Wpcs, SuiteTests, Muts
<1>4. ResultsInv' /\ CompletionInv'
  BY <1>1 DEF ResultsInv, CompletionInv, Muts
<1>5. Ids(running') = {} /\ Lingering' = {} /\ Lingering = {}
  BY <1>1 DEF Ids, Lingering, InBox
<1>6. MonitorInv'
  BY <1>1, <1>5 DEF MonitorInv
<1>7. StreamInv'
  BY <1>1, <1>5 DEF StreamInv, Streamed
<1> QED BY <1>2, <1>3, <1>4, <1>6, <1>7 DEF WorkerInv

LEMMA BeginMutationKeeps ==
  ASSUME WorkerInv, NEW m \in Muts, BeginMutation(m), UNCHANGED <<suite, opts>>
  PROVE  WorkerInv'
<1> USE WorkerParts
<1> DEFINE Goes == /\ current' = m /\ todo' = suite[m] /\ running' = {} /\ given' = {} /\ wpc' = wpc
                   /\ results' = [n \in DOMAIN results \cup {m} |-> IF n = m THEN NoResult ELSE results[n]]
                   /\ UNCHANGED <<wcode, ids, past, stream, inbox, watched, monitor, completion, journaled, marked>>
<1>1. wpc = "evaluate" /\ current = 0 /\ todo = {} /\ running = {} /\ given = {}
  BY DEF BeginMutation, RunInv
<1>2. PICK o \in WithWriter(writer, SetPhase(writer, "evaluation")) :
          (o.ok /\ writer' = o.writer /\ Goes) \/ (~o.ok /\ ExitIncomplete(o.writer, PANIC))
  BY DEF BeginMutation, Recording, FreshRun, watching, persistent
<1>3. /\ Followed(o.writer) /\ StaysOpen(o.writer, writer) /\ o.writer.active = writer.active
      /\ o.ok /\ writer.enabled => o.writer.phase = "evaluation"
  <2>1. "evaluation" \in Phases /\ Followed(writer)
    BY DEF Phases, ProgressInv
  <2> QED BY <2>1, PhaseFollowed
<1>4. CASE ~o.ok /\ ExitIncomplete(o.writer, PANIC)
  BY <1>3, <1>4, RecordFails
<1>5. CASE o.ok /\ writer' = o.writer /\ Goes
  <2>1. ProgressInv'
    BY <1>1, <1>3, <1>5, ProgressKept DEF ProgressInv, Testing, InTests, StaysOpen, NoPhase
  <2>2. m \in DOMAIN suite /\ m # 0 /\ suite[m] \subseteq SuiteTests
    BY DEF Muts, SuiteTests, RunInv
  <2>3. DOMAIN results' = DOMAIN results \cup {m} /\ results'[m] = NoResult /\ \A n \in DOMAIN results \ {m} : results'[n] = results[n]
    BY <1>5
  <2>4. RunInv'
    BY <1>1, <1>5, <2>2, <2>3, NoResultOK DEF RunInv, SuiteTests, Muts
  <2>5. ResultsOK(results', suite)
    <3>1. ResultOK(NoResult, suite[m]) /\ ResultsOK(results, suite)
      BY NoResultOK DEF ResultsInv
    <3> QED BY ONLY <3>1, <2>2, <2>3, ResultsPut
  <2>6. ResultsInv' /\ CompletionInv'
    BY <1>1, <1>5, <2>5 DEF ResultsInv, CompletionInv, Muts
  <2>7. MonitorInv' /\ StreamInv'
    <3>1. Lingering' = Lingering
      BY <1>5 DEF Lingering
    <3> QED BY <3>1, <1>1, <1>5 DEF MonitorInv, StreamInv
  <2> QED BY <2>1, <2>4, <2>6, <2>7 DEF WorkerInv
<1> QED BY <1>2, <1>4, <1>5

LEMMA EndMutationKeeps ==
  ASSUME WorkerInv, EndMutation, UNCHANGED <<suite, opts>>
  PROVE  WorkerInv'
<1> USE WorkerParts
<1> DEFINE left == Ids(running)
           batch == given \cup left
<1>1. /\ wpc = "evaluate" /\ current' = 0 /\ todo' = {} /\ running' = {} /\ given' = {}
      /\ inbox' = Append(inbox, batch) /\ journaled' \in {journaled, results}
      /\ UNCHANGED <<wpc, wcode, writer, ids, results, past, stream, watched, monitor, completion, marked>>
  BY DEF EndMutation, FreshRun, Ids
<1>2. left \subseteq 1..ids /\ given \subseteq 1..ids /\ inbox \in Seq(SUBSET (1..ids))
  BY DEF Ids, RunInv, MonitorInv
<1>3. batch \cap Lingering = {} /\ InBox(inbox) \subseteq Lingering
  BY DEF MonitorInv, Lingering
<1> HIDE DEF batch, left
<1>4. InBox(inbox') = InBox(inbox) \cup batch /\ BatchesApart(inbox')
  BY <1>1, <1>2, <1>3, BoxGrows, BatchesGrow DEF MonitorInv
<1>5. Lingering' = Lingering \cup batch /\ Ids(running') = {}
  BY <1>1, <1>4 DEF Lingering, Ids
<1>6. inbox' \in Seq(SUBSET (1..ids))
  BY <1>1, <1>2 DEF batch
<1>7. ProgressInv'
  BY <1>1 DEF ProgressInv, Testing
<1>8. RunInv'
  BY <1>1 DEF RunInv, SuiteTests, Muts
<1>9. ResultsInv' /\ CompletionInv'
  BY <1>1 DEF ResultsInv, CompletionInv, Muts
<1>10. MonitorInv'
  <2>1. watched' \cap InBox(inbox') = {}
    BY <1>1, <1>3, <1>4 DEF MonitorInv, Lingering
  <2>2. monitor = "open"
    BY <1>1 DEF MonitorInv
  <2> QED BY <2>1, <2>2, <1>1, <1>4, <1>5, <1>6 DEF MonitorInv
<1>11. StreamInv'
  <2> SUFFICES ASSUME ~opts.isolated, marked = {}
               PROVE  Streamed(stream', Ids(running'), given', Lingering')
    BY <1>1 DEF StreamInv
  <2>1. Streamed(stream, left, given, Lingering)
    BY <1>1 DEF StreamInv, left
  <2> QED BY <2>1, <1>1, <1>5 DEF Streamed, batch
<1> QED BY <1>7, <1>8, <1>9, <1>10, <1>11 DEF WorkerInv

\* A sequence with one more element is a sequence.
LEMMA ListedGrows ==
  ASSUME NEW s, Listed(s), NEW x
  PROVE  /\ Listed(Append(s, x)) /\ DOMAIN Append(s, x) = DOMAIN s \cup {Len(s) + 1} /\ Len(s) + 1 \notin DOMAIN s
         /\ Append(s, x)[Len(s) + 1] = x /\ \A i \in DOMAIN s : Append(s, x)[i] = s[i]
<1> DEFINE T == {s[i] : i \in DOMAIN s} \cup {x}
<1>1. s \in Seq(T)
  BY DEF Listed
<1> HIDE DEF T
<1>2. /\ DOMAIN s = 1..Len(s) /\ Len(s) \in Nat /\ Append(s, x)[Len(s) + 1] = x /\ \A i \in DOMAIN s : Append(s, x)[i] = s[i]
      /\ DOMAIN Append(s, x) = DOMAIN s \cup {Len(s) + 1}
  BY <1>1
<1>3. {Append(s, x)[i] : i \in DOMAIN Append(s, x)} = T
  BY <1>2 DEF T
<1>4. Append(s, x) \in Seq(T)
  BY <1>1 DEF T
<1>5. Len(s) + 1 \notin DOMAIN s
  BY <1>2
<1> QED BY <1>2, <1>3, <1>4, <1>5 DEF Listed

LEMMA EndIterationKeeps ==
  ASSUME WorkerInv, EndIteration, UNCHANGED <<suite, opts>>
  PROVE  WorkerInv'
<1> USE WorkerParts
<1>1. /\ wpc = "evaluate" /\ current = 0 /\ DOMAIN results = Muts
      /\ \/ past' = Append(past, results) /\ results' = <<>> /\ UNCHANGED <<wpc, monitor>>
         \/ wpc' = "join" /\ monitor' = "closed" /\ UNCHANGED <<past, results>>
      /\ UNCHANGED <<wcode, writer, todo, running, failures, current, ids, given, stream, inbox, watched, completion, journaled, marked>>
  BY DEF EndIteration, run, persistent
<1>2. ProgressInv'
  BY <1>1 DEF ProgressInv, Testing
<1>3. RunInv'
  BY <1>1 DEF RunInv, SuiteTests, Muts, Wpcs
<1>4. ResultsInv'
  <2>1. ResultsOK(results, suite) /\ ResultsOK(journaled, suite) /\ Listed(past)
    BY DEF ResultsInv
  <2>2. CASE wpc' = "join" /\ UNCHANGED <<past, results>>
    BY <1>1, <2>2 DEF ResultsInv, Muts
  <2>3. CASE past' = Append(past, results) /\ results' = <<>> /\ wpc' = wpc
    <3>1. Listed(past') /\ \A i \in DOMAIN past' : ResultsOK(past'[i], suite) /\ DOMAIN past'[i] = Muts
      <4>1. \A i \in DOMAIN past' : past'[i] = results \/ (i \in DOMAIN past /\ past'[i] = past[i])
        BY <2>1, <2>3, ListedGrows
      <4>2. Listed(past')
        BY <2>1, <2>3, ListedGrows
      <4> QED BY <4>1, <4>2, <1>1, <2>1 DEF ResultsInv
    <3>2. ResultsOK(results', suite)
      BY <2>3 DEF ResultsOK
    <3> QED BY <1>1, <2>1, <2>3, <3>1, <3>2 DEF ResultsInv, Muts
  <2> QED BY <1>1, <2>2, <2>3
<1>5. CompletionInv'
  BY <1>1 DEF CompletionInv, Muts
<1>6. MonitorInv'
  <2>1. running = {} /\ given = {} /\ Lingering' = Lingering /\ monitor = "open"
    BY <1>1 DEF RunInv, MonitorInv, Lingering
  <2> QED BY <2>1, <1>1 DEF MonitorInv
<1>7. StreamInv'
  BY <1>1 DEF StreamInv, Lingering
<1> QED BY <1>2, <1>3, <1>4, <1>5, <1>6, <1>7 DEF WorkerInv

\* What the monitor does leaves the rest to itself.
LEMMA MonitorFrameKeeps ==
  ASSUME WorkerInv, UNCHANGED <<suite, opts>>, MonitorFrame, MonitorInv', StreamInv', monitor = "joined" => monitor' = "joined"
  PROVE  WorkerInv'
<1> USE WorkerParts
<1>1. UNCHANGED <<wpc, wcode, writer, todo, running, failures, current, ids, given, alive, results, past, completion, journaled, marked, suite, opts>>
  BY DEF MonitorFrame, run, persistent
<1>2. ProgressInv' /\ RunInv'
  BY <1>1 DEF ProgressInv, Testing, RunInv, SuiteTests, Muts
<1>3. ResultsInv' /\ CompletionInv'
  BY <1>1 DEF ResultsInv, CompletionInv, Muts, FinalCode
<1> QED BY <1>2, <1>3 DEF WorkerInv

LEMMA MonitorReceivesKeeps ==
  ASSUME WorkerInv, MonitorReceives, UNCHANGED <<suite, opts>>
  PROVE  WorkerInv'
<1> USE WorkerParts
<1>1. /\ wpc \notin {"none", "over"} /\ inbox # <<>> /\ watched' = watched \cup Head(inbox) /\ inbox' = Tail(inbox)
      /\ UNCHANGED <<wpc, running, ids, given, stream, monitor, marked, opts>> /\ MonitorFrame
  BY DEF MonitorReceives, MonitorFrame, run, persistent
<1>2. /\ InBox(inbox) = Head(inbox) \cup InBox(inbox') /\ Head(inbox) \cap InBox(inbox') = {} /\ BatchesApart(inbox')
      /\ Head(inbox) \subseteq 1..ids /\ inbox' \in Seq(SUBSET (1..ids))
  BY <1>1, BoxShrinks DEF MonitorInv
<1>3. Lingering' = Lingering
  BY <1>1, <1>2 DEF Lingering
<1>4. MonitorInv'
  <2>1. watched' \subseteq 1..ids /\ watched' \cap InBox(inbox') = {}
    BY <1>1, <1>2 DEF MonitorInv
  <2>2. monitor # "joined" /\ wpc \notin {"none", "open", "reference", "repeat"}
    BY <1>1 DEF MonitorInv
  <2> QED BY <2>1, <2>2, <1>1, <1>2, <1>3 DEF MonitorInv
<1>5. StreamInv'
  BY <1>1, <1>3 DEF StreamInv
<1> QED BY <1>1, <1>4, <1>5, MonitorFrameKeeps

LEMMA MonitorReportsKeeps ==
  ASSUME WorkerInv, MonitorReports, UNCHANGED <<suite, opts>>
  PROVE  WorkerInv'
<1> USE WorkerParts
<1>1. UNCHANGED <<wpc, running, ids, given, inbox, monitor, marked, opts>> /\ MonitorFrame
  BY DEF MonitorReports, MonitorFrame, run, persistent
<1>2. CASE \E i \in Ended : watched' = watched \ {i} /\ stream' = [stream EXCEPT ![i] = Append(@, "Completion")]
  <2>1. PICK i \in Ended : watched' = watched \ {i} /\ stream' = [stream EXCEPT ![i] = Append(stream[i], "Completion")]
    BY <1>2
  <2>2. i \in watched
    BY DEF Ended
  <2>3. /\ DOMAIN stream' = DOMAIN stream /\ \A j \in DOMAIN stream \ {i} : stream'[j] = stream[j]
        /\ i \in DOMAIN stream => stream'[i] = Append(stream[i], "Completion")
    BY <2>1
  <2>4. Lingering' = Lingering \ {i} /\ i \in Lingering
    BY <2>1, <2>2, <1>1 DEF Lingering, MonitorInv
  <2>5. MonitorInv'
    BY <2>1, <2>2, <2>3, <2>4, <1>1 DEF MonitorInv
  <2>6. StreamInv'
    <3> SUFFICES ASSUME ~opts.isolated, marked = {}, wpc \in {"evaluate", "join", "recorded"}
                 PROVE  Streamed(stream', Ids(running'), given', Lingering')
      BY <1>1 DEF StreamInv
    <3>1. Streamed(stream, Ids(running), given, Lingering)
      BY DEF StreamInv
    <3>2. stream[i] \in {<<>>, <<"TimedOut">>} /\ i \in DOMAIN stream
      BY <3>1, <2>4 DEF Streamed, OnceGiven
    <3>3. stream'[i] = Append(stream[i], "Completion")
      BY <2>3, <3>2
    <3>4. Complete(Append(<<>>, "Completion")) /\ Complete(Append(<<"TimedOut">>, "Completion"))
      BY DEF Complete
    <3>5. Complete(stream'[i])
      BY <3>2, <3>3, <3>4
    <3>6. i \notin Ids(running) \cup given
      BY <2>4 DEF MonitorInv
    <3> QED BY <3>1, <3>2, <3>5, <3>6, <2>3, <2>4, <1>1 DEF Streamed
  <2> QED BY <1>1, <2>5, <2>6, MonitorFrameKeeps
<1>3. CASE UNCHANGED <<watched, stream>>
  <2>1. Lingering' = Lingering
    BY <1>1, <1>3 DEF Lingering
  <2>2. MonitorInv' /\ StreamInv'
    BY <1>1, <1>3, <2>1 DEF MonitorInv, StreamInv
  <2> QED BY <1>1, <2>2, MonitorFrameKeeps
<1> QED BY <1>2, <1>3 DEF MonitorReports

LEMMA MonitorEndsKeeps ==
  ASSUME WorkerInv, MonitorEnds, UNCHANGED <<suite, opts>>
  PROVE  WorkerInv'
<1> USE WorkerParts
<1>1. /\ inbox = <<>> /\ watched' = {} /\ monitor = "closed" /\ monitor' = "joined"
      /\ stream' = [i \in DOMAIN stream |-> IF i \in watched THEN Append(stream[i], "Termination") ELSE stream[i]]
      /\ UNCHANGED <<wpc, running, ids, given, inbox, marked, opts>> /\ MonitorFrame
  BY DEF MonitorEnds, MonitorFrame, run, persistent
<1>2. Lingering = watched /\ Lingering' = {} /\ InBox(inbox') = {}
  BY <1>1 DEF Lingering, InBox
<1>3. MonitorInv'
  BY <1>1, <1>2 DEF MonitorInv
<1>4. StreamInv'
  <2> SUFFICES ASSUME ~opts.isolated, marked = {}, wpc \in {"evaluate", "join", "recorded"}
               PROVE  Streamed(stream', Ids(running'), given', Lingering')
    BY <1>1 DEF StreamInv
  <2>1. Streamed(stream, Ids(running), given, watched)
    BY <1>2 DEF StreamInv
  <2>2. ASSUME NEW i \in watched PROVE Complete(stream'[i])
    <3>1. i \in DOMAIN stream /\ stream[i] \in {<<>>, <<"TimedOut">>}
      BY <2>1 DEF Streamed, OnceGiven
    <3>2. stream'[i] = Append(stream[i], "Termination")
      BY <3>1, <1>1
    <3>3. Complete(Append(<<>>, "Termination")) /\ Complete(Append(<<"TimedOut">>, "Termination"))
      BY DEF Complete
    <3> QED BY <3>1, <3>2, <3>3
  <2>3. DOMAIN stream' = DOMAIN stream /\ \A i \in DOMAIN stream \ watched : stream'[i] = stream[i]
    BY <1>1
  <2>4. (Ids(running) \cup given) \cap watched = {}
    BY <1>2 DEF MonitorInv
  <2> QED BY <2>1, <2>2, <2>3, <2>4, <1>1, <1>2 DEF Streamed
<1> QED BY <1>1, <1>3, <1>4, MonitorFrameKeeps

-----------------------------------------------------------------------------
(* The end of a worker *)

LEMMA FinalCodeIs == WorkerInv => FinalCode \in {0, 2, 3}
<1> SUFFICES ASSUME WorkerInv PROVE FinalCode \in {0, 2, 3}
  OBVIOUS
<1>1. DOMAIN results \subseteq Muts /\ IsFiniteSet(Muts)
  BY WorkerParts DEF ResultsInv, ResultsOK, RunInv, Muts
<1>2. IsFiniteSet(DOMAIN results)
  BY <1>1, FS_Subset
<1> QED BY <1>2, VerdictCode DEF FinalCode, SUCCESS, MISSED, TIMED_OUT

\* A step towards the end of a worker changes what the worker is at, and little more.
LEMMA EndStepKeeps ==
  ASSUME WorkerInv, UNCHANGED <<todo, running, current, ids, given, results, past, stream, inbox, watched, monitor, journaled, marked, suite, opts>>,
         wpc' \in {"recorded", "exiting", "over"}, wpc' \in {"recorded", "exiting"} => wpc \in {"join", "recorded"},
         CompletionInv', ProgressInv'
  PROVE  WorkerInv'
<1> USE WorkerParts
<1>1. RunInv'
  BY DEF RunInv, Wpcs, SuiteTests, Muts
<1>2. ResultsInv'
  BY DEF ResultsInv, Muts
<1>3. MonitorInv'
  BY DEF MonitorInv, Lingering
<1>4. StreamInv'
  BY DEF StreamInv, Lingering
<1> QED BY <1>1, <1>2, <1>3, <1>4 DEF WorkerInv

LEMMA CompletesKeeps ==
  ASSUME WorkerInv, Completes, UNCHANGED <<suite, opts>>
  PROVE  WorkerInv'
<1> USE WorkerParts
<1>1. wpc = "join" /\ monitor = "joined"
  BY DEF Completes
<1>2. CASE ExitIncomplete(writer, PANIC)
  <2>1. Followed(writer) /\ StaysOpen(writer, writer) /\ writer.active \subseteq 1..ids
    BY DEF ProgressInv, StaysOpen
  <2> QED BY <1>2, <2>1, FailureKeeps
<1>3. CASE /\ completion' = FinalCode /\ wpc' = "recorded"
           /\ UNCHANGED <<wcode, writer, run, results, past, stream, watching, persistent>>
  <2>1. UNCHANGED <<wcode, writer, todo, running, current, ids, given, results, past, stream, inbox, watched, monitor, journaled, marked, suite, opts>>
    BY <1>3 DEF run, watching, persistent
  <2>2. completion = NoCode
    BY <1>1 DEF CompletionInv
  <2>3. ProgressInv'
    BY <1>1, <1>3, <2>1, <2>2 DEF ProgressInv, Testing
  <2>4. DOMAIN results = Muts
    BY <1>1 DEF ResultsInv
  <2>5. FinalCode' = FinalCode /\ Muts' = Muts
    BY <2>1 DEF FinalCode, Muts
  <2>6. CompletionInv'
    BY <1>1, <1>3, <2>1, <2>4, <2>5 DEF CompletionInv
  <2> QED BY <1>1, <1>3, <2>1, <2>3, <2>6, EndStepKeeps
<1> QED BY <1>2, <1>3 DEF Completes

LEMMA WorkerExitsKeeps ==
  ASSUME WorkerInv, WorkerExits, UNCHANGED <<suite, opts>>
  PROVE  WorkerInv'
<1> USE WorkerParts
<1>1. wpc = "recorded" /\ completion = FinalCode /\ monitor = "joined"
  BY DEF WorkerExits, CompletionInv
<1>2. completion \in {0, 2, 3} /\ completion \in Int /\ completion # NoCode
  BY <1>1, FinalCodeIs DEF NoCode
<1>3. PICK o \in WithWriter(writer, Terminal(writer, TRUE, completion)) :
          \/ /\ o.ok /\ writer' = o.writer /\ wcode' = wcode /\ wpc' = "exiting"
             /\ UNCHANGED <<run, results, past, stream, watching, completion, persistent>>
          \/ ~o.ok /\ ExitIncomplete(o.writer, PANIC)
  BY DEF WorkerExits, Recording
<1>4. /\ Followed(o.writer) /\ o.writer.active = writer.active /\ o.writer.enabled = writer.enabled
      /\ \/ StaysOpen(o.writer, writer)
         \/ o.ok /\ o.writer.reader.code = completion /\ o.writer.reader.terminal = "completed"
  <2>1. \A complete \in BOOLEAN : \A p \in WithWriter(writer, Terminal(writer, complete, completion)) :
            /\ Followed(p.writer) /\ p.writer.active = writer.active /\ p.writer.enabled = writer.enabled
            /\ \/ StaysOpen(p.writer, writer)
               \/ p.ok /\ p.writer.reader.code = completion /\ p.writer.reader.terminal = IF complete THEN "completed" ELSE "incomplete"
    BY <1>2, TerminalFollowed DEF ProgressInv
  <2>2. TRUE \in BOOLEAN
    OBVIOUS
  <2>3. \A p \in WithWriter(writer, Terminal(writer, TRUE, completion)) :
            /\ Followed(p.writer) /\ p.writer.active = writer.active /\ p.writer.enabled = writer.enabled
            /\ \/ StaysOpen(p.writer, writer)
               \/ p.ok /\ p.writer.reader.code = completion /\ p.writer.reader.terminal = "completed"
    BY ONLY <2>1, <2>2, Zenon
  <2> QED BY ONLY <2>3, <1>3, Zenon
<1>5. CASE ~o.ok /\ ExitIncomplete(o.writer, PANIC)
  BY <1>4, <1>5, RecordFails
<1>6. CASE /\ o.ok /\ writer' = o.writer /\ wcode' = wcode /\ wpc' = "exiting"
           /\ UNCHANGED <<run, results, past, stream, watching, completion, persistent>>
  <2>1. UNCHANGED <<todo, running, current, ids, given, results, past, stream, inbox, watched, monitor, completion, journaled, marked, suite, opts>>
    BY <1>6 DEF run, watching, persistent
  <2>2. ProgressInv'
    <3>1. Followed(writer') /\ writer'.active \subseteq 1..ids'
      BY <1>4, <1>6, <2>1 DEF ProgressInv
    <3>2. wpc' = "exiting" /\ ~Testing'
      BY <1>6 DEF Testing
    <3>3. writer'.reader.terminal = "completed" => completion' = writer'.reader.code /\ completion' # NoCode
      BY <1>2, <1>4, <1>6, <2>1 DEF ProgressInv, StaysOpen
    <3> QED BY <3>1, <3>2, <3>3 DEF ProgressInv
  <2>3. CompletionInv'
    BY <1>1, <1>6, <2>1 DEF CompletionInv, FinalCode, Muts
  <2> QED BY <1>1, <1>6, <2>1, <2>2, <2>3, EndStepKeeps
<1> QED BY <1>3, <1>5, <1>6

LEMMA ExitsKeeps ==
  ASSUME WorkerInv, Exits, UNCHANGED <<suite, opts>>
  PROVE  WorkerInv'
<1> USE WorkerParts
<1>1. /\ wpc = "exiting" /\ wpc' = "over" /\ wcode' = completion
      /\ UNCHANGED <<writer, todo, running, current, ids, given, results, past, stream, inbox, watched, monitor, completion, journaled, marked, suite, opts>>
  BY DEF Exits, run, watching, persistent
<1>2. completion \in {0, 2, 3}
  BY <1>1, FinalCodeIs DEF CompletionInv
<1>3. CompletionInv'
  BY <1>1, <1>2 DEF CompletionInv, FinalCode, Muts, WorkerCodes, NoCode, SUCCESS, MISSED, TIMED_OUT
<1>4. ProgressInv'
  BY <1>1 DEF ProgressInv, Testing
<1> QED BY <1>1, <1>3, <1>4, EndStepKeeps

LEMMA TestEndsWorkerKeeps ==
  ASSUME WorkerInv, TestEndsWorker, UNCHANGED <<suite, opts>>
  PROVE  WorkerInv'
<1> USE WorkerParts
<1>1. /\ wpc # "over" /\ wpc' = "over" /\ wcode' \in {SIGNALLED, SUCCESS}
      /\ UNCHANGED <<writer, todo, running, current, ids, given, results, past, stream, inbox, watched, monitor, completion, journaled, marked, suite, opts>>
  BY DEF TestEndsWorker, run, watching, persistent
<1>2. CompletionInv'
  BY <1>1 DEF CompletionInv, FinalCode, Muts, WorkerCodes, NoCode, SUCCESS, SIGNALLED
<1>3. ProgressInv'
  BY <1>1 DEF ProgressInv, Testing
<1> QED BY <1>1, <1>2, <1>3, EndStepKeeps

\* The threads that were given up are no part of the invariant.
LEMMA ThreadEndsKeeps ==
  ASSUME WorkerInv, UNCHANGED <<wpc, wcode, writer, todo, running, current, results, past, ids, given, stream, inbox, watched, monitor,
                                completion, journaled, marked, suite, opts>>
  PROVE  WorkerInv'
<1> USE WorkerParts
<1>1. ProgressInv' /\ RunInv'
  BY DEF ProgressInv, Testing, RunInv, SuiteTests, Muts
<1>2. ResultsInv' /\ CompletionInv'
  BY DEF ResultsInv, CompletionInv, FinalCode, Muts
<1>3. MonitorInv' /\ StreamInv'
  BY DEF MonitorInv, StreamInv, Lingering
<1> QED BY <1>1, <1>2, <1>3 DEF WorkerInv

LEMMA WorkerNextKeeps ==
  ASSUME WorkerInv, WorkerNext
  PROVE  WorkerInv'
<1>1. CASE ThreadEnds
  BY <1>1, ThreadEndsKeeps DEF WorkerNext, ThreadEnds, watching, persistent
<1>2. CASE TestEndsWorker
  BY <1>2, TestEndsWorkerKeeps DEF WorkerNext
<1>3. CASE WorkerStep
  <2>0. UNCHANGED <<suite, opts>>
    BY DEF WorkerNext
  <2>1. CASE BeginReference \/ EndReference \/ EndRepeat \/ EndMutation \/ EndIteration
    BY <2>0, <2>1, BeginReferenceKeeps, EndReferenceKeeps, EndRepeatKeeps, EndMutationKeeps, EndIterationKeeps
  <2>2. CASE \E t \in todo : StartsTest(t)
    BY <2>0, <2>2, StartsTestKeeps
  <2>3. CASE \E r \in running : CancelTest(r) \/ TestTimesOut(r) \/ (\E outcome \in Outcomes : TestReports(r, outcome))
    BY <2>0, <2>3, CancelTestKeeps, TestTimesOutKeeps, TestReportsKeeps
  <2>4. CASE \E m \in Muts : BeginMutation(m)
    BY <2>0, <2>4, BeginMutationKeeps
  <2>5. CASE MonitorReceives \/ MonitorReports \/ MonitorEnds
    BY <2>0, <2>5, MonitorReceivesKeeps, MonitorReportsKeeps, MonitorEndsKeeps
  <2>6. CASE Completes \/ WorkerExits \/ Exits
    BY <2>0, <2>6, CompletesKeeps, WorkerExitsKeeps, ExitsKeeps
  <2> QED BY <1>3, <2>1, <2>2, <2>3, <2>4, <2>5, <2>6 DEF WorkerStep
<1> QED BY <1>1, <1>2, <1>3 DEF WorkerNext

-----------------------------------------------------------------------------
(* The exit code log *)

\* What the recursion of HarnessesUpTo says of the harnesses that each part of the log tells of.
ReadBy(f, rows) == f = [i \in 0..Len(rows) |-> IF i = 0 THEN <<>> ELSE Taken(f[i - 1], rows[i])]

LEMMA ReadExists ==
  ASSUME NEW T, NEW rows \in Seq(T)
  PROVE  \E f : ReadBy(f, rows)
<1> DEFINE Step(f, i) == IF i = 0 THEN <<>> ELSE Taken(f[i - 1], rows[i])
           Missing == {n \in 0..Len(rows) : ~\E f : f = [i \in 0..n |-> Step(f, i)]}
<1>1. ASSUME Missing # {}
      PROVE  FALSE
  <2>0. Missing \in SUBSET Nat
    OBVIOUS
  <2> HIDE DEF Missing
  <2>1. PICK n \in Missing : \A m \in Missing : n <= m
    BY <2>0, <1>1, LeastNatural
  <2>2. n \in 0..Len(rows) /\ Len(rows) \in Nat
    BY DEF Missing
  <2>3. n # 0
    <3>1. [i \in 0..0 |-> <<>>] = [i \in 0..0 |-> Step([j \in 0..0 |-> <<>>], i)]
      OBVIOUS
    <3> QED BY <3>1 DEF Missing
  <2>4. n - 1 \in 0..Len(rows) /\ n - 1 \notin Missing
    BY <2>1, <2>2, <2>3
  <2>5. PICK f : f = [i \in 0..(n - 1) |-> Step(f, i)]
    BY <2>4 DEF Missing
  <2> DEFINE g == [i \in 0..n |-> Step(f, i)]
  <2> HIDE DEF Step
  <2>6. \A i \in 0..(n - 1) : g[i] = f[i]
    <3> SUFFICES ASSUME NEW i \in 0..(n - 1) PROVE g[i] = f[i]
      OBVIOUS
    <3>1. f[i] = Step(f, i)
      BY <2>5
    <3>2. i \in 0..n
      BY <2>2
    <3> QED BY <3>1, <3>2
  <2>7. \A i \in 0..n : Step(g, i) = Step(f, i)
    <3> SUFFICES ASSUME NEW i \in 0..n PROVE Step(g, i) = Step(f, i)
      OBVIOUS
    <3>1. i = 0 \/ g[i - 1] = f[i - 1]
      <4>1. i = 0 \/ i - 1 \in 0..(n - 1)
        BY <2>2
      <4> HIDE DEF g
      <4> QED BY <4>1, <2>6
    <3> QED BY <3>1 DEF Step
  <2>8. g = [i \in 0..n |-> Step(g, i)]
    BY <2>7
  <2> QED BY <2>8, <2>2 DEF Missing
<1>2. Len(rows) \in 0..Len(rows)
  OBVIOUS
<1> QED BY <1>1, <1>2 DEF ReadBy

\* The recursion of HarnessesUpTo, unfolded.
LEMMA ReadRecursion ==
  ASSUME NEW T, NEW rows \in Seq(T), NEW i \in 0..Len(rows)
  PROVE  HarnessesUpTo(rows)[i] = IF i = 0 THEN <<>> ELSE Taken(HarnessesUpTo(rows)[i - 1], rows[i])
<1>1. HarnessesUpTo(rows) = CHOOSE f : ReadBy(f, rows)
  BY DEF HarnessesUpTo, ReadBy
<1>2. ReadBy(HarnessesUpTo(rows), rows)
  BY <1>1, ReadExists
<1> QED BY <1>2 DEF ReadBy

\* An empty log tells of no harness.
LEMMA ReadNothing == HarnessesUpTo(<<>>)[Len(<<>>)] = <<>>
<1>1. <<>> \in Seq({}) /\ Len(<<>>) = 0 /\ 0 \in 0..Len(<<>>)
  OBVIOUS
<1> QED BY <1>1, ReadRecursion

\* One more row is taken after the others.
LEMMA ReadOneMore ==
  ASSUME NEW T, NEW rows \in Seq(T), NEW row \in T
  PROVE  HarnessesUpTo(Append(rows, row))[Len(Append(rows, row))] = Taken(HarnessesUpTo(rows)[Len(rows)], row)
<1> DEFINE longer == Append(rows, row)
<1>1. /\ longer \in Seq(T) /\ Len(longer) = Len(rows) + 1 /\ Len(rows) \in Nat /\ longer[Len(rows) + 1] = row
      /\ \A i \in 1..Len(rows) : longer[i] = rows[i]
  OBVIOUS
<1> HIDE DEF longer
<1> DEFINE Apart == {n \in 0..Len(rows) : HarnessesUpTo(longer)[n] # HarnessesUpTo(rows)[n]}
<1>2. ASSUME Apart # {}
      PROVE  FALSE
  <2>0. Apart \in SUBSET Nat
    OBVIOUS
  <2> HIDE DEF Apart
  <2>1. PICK n \in Apart : \A m \in Apart : n <= m
    BY <2>0, <1>2, LeastNatural
  <2>2. n \in 0..Len(rows) /\ n \in 0..Len(longer) /\ HarnessesUpTo(longer)[n] # HarnessesUpTo(rows)[n]
    BY <1>1 DEF Apart
  <2>3. n # 0
    BY <2>2, <1>1, ReadRecursion
  <2>4. n - 1 \in 0..Len(rows) /\ n - 1 \notin Apart /\ n \in 1..Len(rows)
    BY <2>1, <2>2, <2>3, <1>1
  <2>5. HarnessesUpTo(longer)[n - 1] = HarnessesUpTo(rows)[n - 1]
    BY <2>4 DEF Apart
  <2>6. /\ HarnessesUpTo(longer)[n] = Taken(HarnessesUpTo(longer)[n - 1], longer[n])
        /\ HarnessesUpTo(rows)[n] = Taken(HarnessesUpTo(rows)[n - 1], rows[n])
    BY <2>2, <2>3, <1>1, ReadRecursion
  <2> QED BY <2>2, <2>4, <2>5, <2>6, <1>1
<1>3. HarnessesUpTo(longer)[Len(rows)] = HarnessesUpTo(rows)[Len(rows)]
  <2>1. Len(rows) \in 0..Len(rows)
    BY <1>1
  <2> QED BY <2>1, <1>2
<1>4. Len(longer) \in 0..Len(longer) /\ Len(longer) # 0 /\ Len(longer) - 1 = Len(rows)
  BY <1>1
<1>5. HarnessesUpTo(longer)[Len(longer)] = Taken(HarnessesUpTo(longer)[Len(rows)], row)
  BY <1>1, <1>4, ReadRecursion
<1> QED BY <1>3, <1>5 DEF longer

\* A row that is written whole follows the rows that were.
LEMMA WholeRow ==
  ASSUME NEW rows \in Seq(Rows), NEW row
  PROVE  Extend(rows, row) = Append(rows, row)
<1>1. rows = <<>> \/ rows[Len(rows)] \in Rows
  OBVIOUS
<1>2. \A r \in Rows : r.whole
  BY DEF Rows
<1> QED BY <1>1, <1>2 DEF Extend, Last

\* What the front of a longer sequence is.
LEMMA FrontOfLonger ==
  ASSUME NEW T, NEW s \in Seq(T), NEW x \in T
  PROVE  /\ Append(s, x) \in Seq(T) /\ Append(s, x) # <<>> /\ Front(Append(s, x)) = s /\ Append(s, x)[Len(Append(s, x))] = x
<1>1. Append(s, x) \in Seq(T) /\ Append(s, x) # <<>> /\ Len(Append(s, x)) = Len(s) + 1 /\ Append(s, x)[Len(s) + 1] = x
  OBVIOUS
<1>2. Front(Append(s, x)) = s
  BY DEF Front
<1> QED BY <1>1, <1>2

\* The front of a sequence that is not empty, and its last element, are all of it.
LEMMA CodesOfFront ==
  ASSUME NEW hs \in Seq(Harnesses), hs # <<>>
  PROVE  Codes(hs) = Codes(Front(hs)) \cup {hs[Len(hs)].code}
<1>1. Len(hs) \in Nat \ {0} /\ DOMAIN hs = 1..Len(hs) /\ 1..Len(hs) = 1..(Len(hs) - 1) \cup {Len(hs)}
  OBVIOUS
<1>2. DOMAIN Front(hs) = 1..(Len(hs) - 1) /\ \A i \in 1..(Len(hs) - 1) : Front(hs)[i] = hs[i]
  BY <1>1 DEF Front
<1> QED BY <1>1, <1>2 DEF Codes

\* A start opens a harness after the others.
LEMMA StartIsRead ==
  ASSUME NEW hs, NEW p
  PROVE  Taken(hs, Started(p)) = Append(hs, [pid |-> p, code |-> NoCode])
BY DEF Taken, Started

\* The exit of the harness that started last is its own, whatever process ids the others had.
LEMMA ExitIsRead ==
  ASSUME NEW hs \in Seq(Harnesses), NEW p, NEW c \in Exits1, hs # <<>>, hs[Len(hs)] = [pid |-> p, code |-> NoCode]
  PROVE  /\ Taken(hs, Exited(p, c)) \in Seq(Harnesses)
         /\ Codes(Taken(hs, Exited(p, c))) = Codes(Front(hs)) \cup {c}
<1> DEFINE open == {i \in DOMAIN hs : hs[i].pid = p /\ hs[i].code = NoCode}
           new == [hs EXCEPT ![Len(hs)].code = c]
<1>1. /\ Len(hs) \in Nat \ {0} /\ DOMAIN hs = 1..Len(hs) /\ 1..Len(hs) = 1..(Len(hs) - 1) \cup {Len(hs)}
      /\ Len(hs) \notin 1..(Len(hs) - 1)
  OBVIOUS
<1>2. Len(hs) \in open /\ \A i \in open : Len(hs) >= i
  BY <1>1
<1>3. Max(open) = Len(hs)
  <2>1. \A x \in open : (\A y \in open : x >= y) => x = Len(hs)
    BY <1>1, <1>2
  <2> HIDE DEF open
  <2>2. (CHOOSE x \in open : \A y \in open : x >= y) = Len(hs)
    BY <1>2, <2>1
  <2> QED BY <2>2 DEF Max
<1>4. Taken(hs, Exited(p, c)) = new
  <2>1. Taken(hs, Exited(p, c)) = RecordExitOfLatest(hs, Exited(p, c))
    BY DEF Taken, Exited
  <2>2. Exited(p, c).pid = p /\ Exited(p, c).code = c
    BY DEF Exited
  <2>3. RecordExitOfLatest(hs, Exited(p, c)) = IF open = {} THEN Append(hs, [pid |-> p, code |-> c])
                                               ELSE [hs EXCEPT ![Max(open)].code = c]
    BY <2>2 DEF RecordExitOfLatest
  <2> HIDE DEF open
  <2> QED BY <2>1, <2>3, <1>2, <1>3
<1>5. /\ DOMAIN new = DOMAIN hs /\ new[Len(hs)] = [hs[Len(hs)] EXCEPT !.code = c]
      /\ \A i \in 1..(Len(hs) - 1) : new[i] = hs[i]
  BY <1>1
<1>6. new[Len(hs)] = [pid |-> p, code |-> c] /\ p \in Pids
  BY <1>1, <1>5 DEF Harnesses
<1>7. new \in Seq(Harnesses)
  <2>1. \A i \in 1..Len(hs) : new[i] \in Harnesses
    <3>1. \A i \in 1..(Len(hs) - 1) : hs[i] \in Harnesses
      BY <1>1
    <3>2. [pid |-> p, code |-> c] \in Harnesses
      BY <1>6 DEF Harnesses
    <3> HIDE DEF new
    <3> QED BY <3>1, <3>2, <1>1, <1>5, <1>6
  <2>2. new = [i \in 1..Len(hs) |-> new[i]]
    BY <1>1
  <2> HIDE DEF new
  <2> QED BY <2>1, <2>2, <1>1
<1>8. Codes(new) = Codes(Front(hs)) \cup {c}
  <2>1. DOMAIN Front(hs) = 1..(Len(hs) - 1) /\ \A i \in 1..(Len(hs) - 1) : Front(hs)[i] = hs[i]
    BY <1>1 DEF Front
  <2> HIDE DEF new
  <2>2. new[Len(hs)].code = c
    BY <1>6
  <2> QED BY <2>1, <2>2, <1>1, <1>5 DEF Codes
<1> QED BY <1>4, <1>7, <1>8

\* What read makes of the harnesses.
LEMMA ReadCodes == read(log) = {IF c = NoCode THEN PANIC ELSE c : c \in Codes(Recorded)}
<1>1. read(log) = {IF Recorded[i].code = NoCode THEN PANIC ELSE Recorded[i].code : i \in DOMAIN Recorded}
  BY DEF read, Recorded
<1> QED BY <1>1 DEF Codes

-----------------------------------------------------------------------------
(* The worker, as the harness and Cargo see it *)

\* A worker that has not begun.
Idle ==
    /\ wpc \in {"none", "open"} /\ wcode = NoCode /\ (\E enabled \in BOOLEAN : writer = NewWriter(enabled))
    /\ todo = {} /\ running = {} /\ current = 0 /\ results = <<>> /\ past = <<>>
    /\ ids = 0 /\ given = {} /\ stream = <<>>
    /\ inbox = <<>> /\ watched = {} /\ monitor = "open" /\ completion = NoCode
    /\ opts \in WorkerOptions /\ Muts \subseteq Nat \ {0} /\ IsFiniteSet(Muts) /\ ResultsOK(journaled, suite)

LEMMA IdleIsRight == Idle => WorkerInv
<1> SUFFICES ASSUME Idle PROVE WorkerInv
  OBVIOUS
<1> USE DEF Idle
<1>1. ProgressInv
  <2>1. PICK enabled \in BOOLEAN : writer = NewWriter(enabled)
    OBVIOUS
  <2>2. Followed(writer)
    BY <2>1, NewIsFollowed
  <2>3. writer.active = {} /\ writer.terminal = FALSE /\ writer.reader.terminal = "none"
    BY <2>1 DEF NewWriter, NewReader
  <2> QED BY <2>2, <2>3 DEF ProgressInv, Testing
<1>2. RunInv
  BY DEF RunInv, Wpcs
<1>3. ResultsInv
  <2>1. ResultsOK(<<>>, suite) /\ Listed(<<>>)
    BY DEF ResultsOK, Listed
  <2> QED BY <2>1 DEF ResultsInv
<1>4. CompletionInv
  BY DEF CompletionInv, WorkerCodes
<1>5. MonitorInv
  BY DEF MonitorInv, Lingering, Ids, InBox, BatchesApart
<1>6. StreamInv
  BY DEF StreamInv
<1> QED BY <1>1, <1>2, <1>3, <1>4, <1>5, <1>6 DEF WorkerInv

LEMMA NothingHeld == DOMAIN <<>> \subseteq Nat \ {0} /\ IsFiniteSet(DOMAIN <<>>) /\ \A s : ResultsOK(<<>>, s)
<1>1. DOMAIN <<>> = {}
  OBVIOUS
<1> QED BY <1>1, FS_EmptySet DEF ResultsOK

LEMMA OptionIsBoolean ==
  ASSUME NEW o \in WorkerOptions
  PROVE  o.progress \in BOOLEAN /\ o.isolated \in BOOLEAN /\ o.flakes \in Nat /\ DOMAIN o.suites = Targets /\ \A t \in Targets : o.suites[t] \in Suites
BY WorkerAssumption, CargoAssumption

\* A harness that is gone has no worker.
LEMMA GoneIsNothing ==
  ASSUME WorkerInv, Gone
  PROVE  /\ WorkerInv' /\ NoWorker' /\ harness' = "none" /\ suite' = <<>> /\ journaled' = <<>> /\ marked' = {} /\ opts' = opts
<1>1. FreshWorker("none", NewWriter(FALSE)) /\ suite' = <<>> /\ journaled' = <<>> /\ marked' = {} /\ opts' = opts /\ harness' = "none"
  BY DEF Gone
<1>2. NoWorker'
  BY <1>1 DEF FreshWorker, NoWorker
<1>3. opts \in WorkerOptions
  BY WorkerParts DEF RunInv
<1>4. Idle'
  BY <1>1, <1>3, NothingHeld DEF FreshWorker, Idle, Muts
<1>5. Idle' => WorkerInv'
  BY IdleIsRight, PTL
<1> QED BY <1>1, <1>2, <1>4, <1>5

LEMMA WorkerInvInit == Init => WorkerInv
<1> SUFFICES ASSUME Init PROVE WorkerInv
  OBVIOUS
<1>1. Idle
  BY NothingHeld DEF Init, NoWorker, Idle, Muts
<1> QED BY <1>1, IdleIsRight

\* The steps of the builds, and those of Cargo, are not the worker's.
LEMMA OthersKeepWorker ==
  ASSUME WorkerInv, UNCHANGED workerVars
  PROVE  WorkerInv'
<1>1. UNCHANGED <<wpc, wcode, writer, todo, running, current, results, past, ids, given, stream, inbox, watched, monitor,
                  completion, journaled, marked, suite, opts>>
  BY DEF workerVars, run, watching, persistent
<1> QED BY <1>1, ThreadEndsKeeps

\* Cargo runs the harness of the first target that is left.
LEMMA LeastRemaining == Remaining # {} => Min(Remaining) \in Remaining
<1> SUFFICES ASSUME Remaining # {} PROVE Min(Remaining) \in Remaining
  OBVIOUS
<1>1. Remaining \in SUBSET Nat
  BY CargoAssumption DEF Remaining
<1>2. \E n \in Remaining : \A m \in Remaining : n <= m
  BY <1>1, LeastNatural
<1> QED BY <1>2 DEF Min

LEMMA StartHarnessKeepsWorker ==
  ASSUME IInv, StartHarness
  PROVE  WorkerInv'
<1> USE DEF IInv
<1>1. NoWorker /\ opts \in WorkerOptions
  BY WorkerParts DEF HarnessInv, StartHarness, RunInv
<1>2. Remaining # {} /\ target' = Min(Remaining) /\ suite' = opts.suites[Min(Remaining)] /\ journaled' = <<>>
  BY DEF StartHarness
<1>3. Min(Remaining) \in Targets
  BY <1>2, LeastRemaining DEF Remaining
<1>4. suite' \in Suites
  BY <1>1, <1>2, <1>3, OptionIsBoolean
<1>5. Muts' \subseteq Nat \ {0} /\ IsFiniteSet(Muts')
  BY <1>4, WorkerAssumption DEF Muts
<1>6. UNCHANGED <<opts, wpc, wcode, writer, todo, running, current, results, past, ids, given, stream, inbox, watched, monitor, completion>>
  BY DEF StartHarness, run, watching
<1>7. Idle'
  BY <1>1, <1>2, <1>5, <1>6, NothingHeld DEF Idle, NoWorker, Muts
<1>8. Idle' => WorkerInv'
  BY IdleIsRight, PTL
<1> QED BY <1>7, <1>8

LEMMA StartWorkerKeepsWorker ==
  ASSUME IInv, StartWorker
  PROVE  WorkerInv'
<1>0. WorkerInv
  BY DEF IInv
<1>1. FreshWorker("open", NewWriter(opts.progress)) /\ suite' = suite /\ journaled' = journaled /\ opts' = opts
  BY DEF StartWorker, persistent
<1>2. opts \in WorkerOptions /\ Muts \subseteq Nat \ {0} /\ IsFiniteSet(Muts) /\ ResultsOK(journaled, suite)
  BY <1>0, WorkerParts DEF RunInv, ResultsInv
<1>3. opts.progress \in BOOLEAN
  BY <1>2, OptionIsBoolean
<1>4. Idle'
  BY <1>1, <1>2, <1>3 DEF FreshWorker, Idle, Muts
<1>5. Idle' => WorkerInv'
  BY IdleIsRight, PTL
<1> QED BY <1>4, <1>5

LEMMA WorkerOverKeepsWorker ==
  ASSUME IInv, WorkerOver
  PROVE  WorkerInv'
<1>0. WorkerInv
  BY DEF IInv
<1> USE <1>0, WorkerParts
<1>1. /\ wpc = "over"
      /\ UNCHANGED <<wpc, wcode, writer, todo, running, current, results, past, ids, given, stream, inbox, watched, monitor,
                     completion, journaled, suite, opts>>
  BY DEF WorkerOver, run, watching
<1>2. ProgressInv' /\ RunInv'
  BY <1>1 DEF ProgressInv, Testing, RunInv, SuiteTests, Muts
<1>3. ResultsInv' /\ CompletionInv'
  BY <1>1 DEF ResultsInv, CompletionInv, FinalCode, Muts
<1>4. MonitorInv' /\ StreamInv'
  BY <1>1 DEF MonitorInv, StreamInv, Lingering
<1> QED BY <1>2, <1>3, <1>4 DEF WorkerInv

\* Who takes a step: the builds and Cargo, the harness at hand, or what ends it.
LEMMA BuildsAndCargo ==
  ASSUME PassTo \/ EndBuilds \/ CargoExits \/ Report \/ Inspect \/ OutsideFails
         \/ \E t \in Targets : BuildStep(t) \/ BuildSucceeds(t) \/ BuildFails(t)
  PROVE  UNCHANGED workerVars
<1>1. CASE PassTo \/ EndBuilds \/ CargoExits \/ Report \/ Inspect
  BY <1>1 DEF PassTo, EndBuilds, CargoExits, Report, Inspect
<1>2. CASE OutsideFails
  BY <1>2 DEF OutsideFails, BuildFrame
<1>3. ASSUME NEW t \in Targets, BuildStep(t) \/ BuildSucceeds(t) \/ BuildFails(t)
      PROVE  BuildFrame
  <2>1. NoticeFailure(t) => BuildFrame
    BY DEF NoticeFailure
  <2>2. StartBuild(t) => BuildFrame
    BY DEF StartBuild
  <2>3. AbortBuild(t) => BuildFrame
    BY DEF AbortBuild
  <2>4. BuildSucceeds(t) => BuildFrame
    BY DEF BuildSucceeds
  <2>5. BuildFails(t) => BuildFrame
    BY DEF BuildFails
  <2>6. BuildGoesOn(t) => BuildFrame
    BY DEF BuildGoesOn
  <2> QED BY <1>3, <2>1, <2>2, <2>3, <2>4, <2>5, <2>6 DEF BuildStep
<1> QED BY <1>1, <1>2, <1>3 DEF BuildFrame

LEMMA WorkerInvNext ==
  ASSUME IInv, Next
  PROVE  WorkerInv'
<1>0. WorkerInv
  BY DEF IInv
<1>1. CASE PassTo \/ EndBuilds \/ CargoExits \/ Report \/ Inspect \/ OutsideFails
           \/ \E t \in Targets : BuildStep(t) \/ BuildSucceeds(t) \/ BuildFails(t)
  BY <1>0, <1>1, BuildsAndCargo, OthersKeepWorker
<1>2. CASE StartHarness
  BY <1>2, StartHarnessKeepsWorker
<1>3. CASE StartWorker
  BY <1>3, StartWorkerKeepsWorker
<1>4. CASE WorkerRuns
  BY <1>0, <1>4, WorkerNextKeeps DEF WorkerRuns
<1>5. CASE WorkerOver
  BY <1>5, WorkerOverKeepsWorker
<1>6. CASE HarnessExits \/ HarnessKilled \/ CargoKilled
  BY <1>0, <1>6, GoneIsNothing DEF HarnessExits, HarnessKilled, CargoKilled, Ends
<1> QED BY <1>1, <1>2, <1>3, <1>4, <1>5, <1>6 DEF Next, RunStep

-----------------------------------------------------------------------------
(* The builds *)

\* What is wrong with a build shows in the build of some target.
LEMMA FailingIsUnbuilt == BuildInv /\ Failing => Unbuilt
BY DEF BuildInv, Failing, Unbuilt

\* Only the steps of the builds, and the end of Cargo, change a build.
LEMMA BuildsKept ==
  ASSUME BuildInv, UNCHANGED <<job, build, outside, marker, culprits, cargo>>,
         UNCHANGED <<log, harness, unlogged>> \/ cargo = "testing", cargo # "removing" \/ ended' = ended,
         unlogged => unlogged'
  PROVE  BuildInv'
<1>1. Unbuilt' = Unbuilt /\ CargoOver' = CargoOver
  BY DEF Unbuilt, CargoOver
<1> QED BY <1>1 DEF BuildInv

\* Each step of a build changes the build of its target, which was not built before.
LEMMA BuildChanges ==
  ASSUME BuildInv, NEW t \in Targets, build[t] \in {"waiting", "building"}, cargo # "removing", ~CargoOver,
         NEW to \in {"building", "built", "failed"}, build' = [build EXCEPT ![t] = to],
         UNCHANGED <<job, outside, cargo, ended, log, harness>>,
         build[t] = "waiting" => ~Failing,
         culprits' \subseteq culprits \cup (IF to = "failed" THEN {t} ELSE {}),
         ~unlogged' => ~unlogged /\ (marker.names = culprits => marker'.names = culprits')
  PROVE  BuildInv'
<1> USE DEF BuildInv
<1>1. build' \in [Targets -> {"waiting", "building", "built", "failed"}] /\ build'[t] = to /\ \A s \in Targets \ {t} : build'[s] = build[s]
  OBVIOUS
<1>2. Unbuilt /\ cargo = "building"
  BY DEF Unbuilt, CargoOver
<1>3. outside' => \E s \in Targets : build'[s] = "waiting"
  BY <1>1 DEF Failing
<1>4. CargoOver' = CargoOver
  BY DEF CargoOver
<1>5. culprits' \subseteq {s \in Targets : build'[s] = "failed"}
  BY <1>1
<1> QED BY <1>1, <1>2, <1>3, <1>4, <1>5

LEMMA BuildStepsKeepBuilds ==
  ASSUME IInv, NEW t \in Targets, BuildStep(t) \/ BuildSucceeds(t) \/ BuildFails(t)
  PROVE  BuildInv'
<1>0. BuildInv /\ CodeInv
  BY DEF IInv
<1>1. BuildFrame /\ UNCHANGED cargo /\ outside' = outside
  BY BuildsAndCargo DEF BuildStep, StartBuild, BuildGoesOn, NoticeFailure, AbortBuild, BuildSucceeds, BuildFails
<1>2. UNCHANGED <<job, harness, log, ended, cargo, outside>>
  BY <1>1 DEF BuildFrame, process
<1>3. CASE NoticeFailure(t) \/ BuildGoesOn(t)
  <2>1. UNCHANGED <<build, marker, culprits, unlogged>>
    BY <1>3 DEF NoticeFailure, BuildGoesOn
  <2> QED BY <1>0, <1>2, <2>1, BuildsKept
<1>4. CASE StartBuild(t)
  <2>1. build[t] = "waiting" /\ ~Failing /\ cargo = "building" /\ build' = [build EXCEPT ![t] = "building"] /\ UNCHANGED <<marker, culprits, unlogged>>
    BY <1>4 DEF StartBuild
  <2> QED BY <1>0, <1>2, <2>1, BuildChanges DEF CargoOver
<1>5. CASE BuildSucceeds(t) \/ BuildFails(t) \/ AbortBuild(t)
  <2>1. build[t] = "building"
    BY <1>5 DEF BuildSucceeds, BuildFails, AbortBuild
  <2>2. cargo # "removing" /\ ~CargoOver
    BY <1>0, <2>1 DEF BuildInv
  <2>3. CASE BuildSucceeds(t)
    <3>1. build' = [build EXCEPT ![t] = "built"] /\ UNCHANGED <<marker, culprits, unlogged>>
      BY <2>3 DEF BuildSucceeds
    <3> QED BY <1>0, <1>2, <2>1, <2>2, <3>1, BuildChanges
  <2>4. CASE BuildFails(t)
    <3>1. build' = [build EXCEPT ![t] = "failed"] /\ culprits' = (IF t \in asked THEN culprits ELSE culprits \cup {t}) /\ RecordFailure(t, t \in asked)
      BY <2>4 DEF BuildFails
    <3>2. ~unlogged' => ~unlogged /\ (marker.names = culprits => marker'.names = culprits')
      BY <3>1 DEF RecordFailure
    <3> QED BY <1>0, <1>2, <2>1, <2>2, <3>1, <3>2, BuildChanges
  <2>5. CASE AbortBuild(t)
    <3>1. build' = [build EXCEPT ![t] = "failed"] /\ culprits' = culprits /\ RecordFailure(t, TRUE)
      BY <2>5 DEF AbortBuild
    <3>2. UNCHANGED <<marker, unlogged>>
      BY <3>1 DEF RecordFailure
    <3> QED BY <1>0, <1>2, <2>1, <2>2, <3>1, <3>2, BuildChanges
  <2> QED BY <1>5, <2>3, <2>4, <2>5
<1> QED BY <1>3, <1>4, <1>5 DEF BuildStep

LEMMA BuildInvInit == Init => BuildInv
<1> SUFFICES ASSUME Init PROVE BuildInv
  OBVIOUS
<1> QED BY DEF Init, CargoInit, BuildInv, CargoOver, Unbuilt

LEMMA BuildInvNext ==
  ASSUME IInv, Next
  PROVE  BuildInv'
<1>0. BuildInv /\ HarnessInv /\ CodeInv
  BY DEF IInv
<1>1. CASE PassTo
  <2>1. /\ cargo = "removing" /\ cargo' = "building" /\ log' = <<>> /\ marker'.names = {} /\ UNCHANGED <<job, build, outside, culprits, harness, ended>>
    BY <1>1 DEF PassTo, process
  <2> QED BY <1>0, <2>1 DEF BuildInv, Unbuilt, CargoOver
<1>2. CASE EndBuilds
  <2>1. /\ cargo = "building" /\ (\A t \in Targets : build[t] # "building")
        /\ UNCHANGED <<job, build, outside, marker, culprits, harness, log, ended, unlogged>>
        /\ cargo' = "exited" \/ (cargo' = "testing" /\ job # "no-run" /\ \A t \in Targets : build[t] = "built")
    BY <1>2 DEF EndBuilds, builds, process, reports
  <2> QED BY <1>0, <2>1 DEF BuildInv, Unbuilt, CargoOver
<1>3. CASE CargoExits \/ Report \/ Inspect
  <2>1. /\ UNCHANGED <<job, build, outside, marker, culprits, harness, log, ended, unlogged>>
        /\ cargo' \in {"exited", "reported", "inspected"} /\ cargo \in {"testing", "exited", "reported"} /\ (cargo = "testing" => harness = "none")
    BY <1>3 DEF CargoExits, Report, Inspect, builds, process, reports
  <2>2. \A t \in Targets : build[t] # "building"
    BY <1>0, <2>1 DEF BuildInv, Unbuilt, CargoOver
  <2> QED BY <1>0, <2>1, <2>2 DEF BuildInv, Unbuilt, CargoOver
<1>4. CASE OutsideFails
  <2>1. /\ cargo = "building" /\ (\E t \in Targets : build[t] = "waiting")
        /\ UNCHANGED <<job, build, marker, culprits, cargo, unlogged, harness, log, ended>>
    BY <1>4 DEF OutsideFails, BuildFrame, process
  <2> QED BY <1>0, <2>1 DEF BuildInv, Unbuilt, CargoOver
<1>5. CASE \E t \in Targets : BuildStep(t) \/ BuildSucceeds(t) \/ BuildFails(t)
  BY <1>5, BuildStepsKeepBuilds
<1>6. CASE StartHarness \/ StartWorker \/ WorkerOver \/ HarnessExits \/ HarnessKilled
  <2>1. UNCHANGED <<job, build, outside, marker, culprits, cargo>>
    BY <1>6 DEF StartHarness, StartWorker, WorkerOver, HarnessExits, HarnessKilled, HarnessFrame, builds
  <2>2. cargo = "testing"
    BY <1>0, <1>6 DEF BuildInv, StartHarness, StartWorker, WorkerOver, HarnessExits, HarnessKilled
  <2>3. unlogged => unlogged'
    BY <1>6 DEF StartHarness, StartWorker, WorkerOver, HarnessExits, HarnessKilled, LogRow, reports
  <2> QED BY <1>0, <2>1, <2>2, <2>3, BuildsKept
<1>7. CASE WorkerRuns
  <2>1. UNCHANGED <<job, build, outside, marker, culprits, cargo, log, harness, unlogged, ended>>
    BY <1>7 DEF WorkerRuns, cargoVars, builds, process, reports
  <2> QED BY <1>0, <2>1, BuildsKept
<1>8. CASE CargoKilled
  <2>1. /\ cargo \in {"building", "testing"} /\ cargo' = "exited" /\ harness' = "none"
        /\ UNCHANGED <<job, outside, marker, culprits, log, ended, unlogged>>
        /\ build' = [t \in Targets |-> IF build[t] = "building" THEN "failed" ELSE build[t]]
    BY <1>8 DEF CargoKilled, Gone, reports
  <2>2. /\ build' \in [Targets -> {"waiting", "building", "built", "failed"}]
        /\ \A t \in Targets : build'[t] = IF build[t] = "building" THEN "failed" ELSE build[t]
    BY <1>0, <2>1 DEF BuildInv
  <2>3. Unbuilt' = Unbuilt /\ CargoOver'
    BY <2>1, <2>2 DEF Unbuilt, CargoOver
  <2>4. outside' => \E t \in Targets : build'[t] = "waiting"
    BY <1>0, <2>1, <2>2 DEF BuildInv
  <2>5. culprits' \subseteq {t \in Targets : build'[t] = "failed"}
    BY <1>0, <2>1, <2>2 DEF BuildInv
  <2> QED BY <1>0, <2>1, <2>2, <2>3, <2>4, <2>5 DEF BuildInv
<1> QED BY <1>1, <1>2, <1>3, <1>4, <1>5, <1>6, <1>7, <1>8 DEF Next, RunStep

-----------------------------------------------------------------------------
(* The harness at hand *)

\* While no harness is at work, only a start changes what the harness is.
LEMMA NoHarnessKept ==
  ASSUME HarnessInv, UNCHANGED <<workerVars, harness, target, pid, status, ended>>
  PROVE  HarnessInv'
<1>1. UNCHANGED <<wpc, wcode, writer, todo, running, failures, current, results, past, ids, given, alive, stream, inbox, watched, scan, monitor,
                  completion, journaled, marked, suite, opts>>
  BY DEF workerVars, run, watching, persistent
<1>2. NoWorker' = NoWorker
  BY <1>1 DEF NoWorker
<1>3. Outcome' = Outcome /\ Remaining' = Remaining
  BY <1>1 DEF Outcome, Remaining
<1> QED BY <1>1, <1>2, <1>3 DEF HarnessInv

LEMMA OutcomeIs ==
  ASSUME WorkerInv, wpc = "over"
  PROVE  Outcome \in Exits1
BY WorkerParts DEF CompletionInv, WorkerCodes, Outcome, Exits1, NoCode, SIGNALLED

LEMMA HarnessInvInit == Init => HarnessInv
<1> SUFFICES ASSUME Init PROVE HarnessInv
  OBVIOUS
<1> QED BY DEF Init, CargoInit, HarnessInv

LEMMA HarnessInvNext ==
  ASSUME IInv, Next
  PROVE  HarnessInv'
<1>0. WorkerInv /\ BuildInv /\ HarnessInv
  BY DEF IInv
<1>1. CASE PassTo \/ EndBuilds \/ CargoExits \/ Report \/ Inspect \/ OutsideFails
           \/ \E t \in Targets : BuildStep(t) \/ BuildSucceeds(t) \/ BuildFails(t)
  <2>1. UNCHANGED workerVars
    BY <1>1, BuildsAndCargo
  <2>2. CASE PassTo \/ EndBuilds \/ CargoExits \/ Report \/ Inspect
    BY <1>0, <2>1, <2>2, NoHarnessKept DEF PassTo, EndBuilds, CargoExits, Report, Inspect, process, reports
  <2>3. CASE OutsideFails \/ \E t \in Targets : BuildStep(t) \/ BuildSucceeds(t) \/ BuildFails(t)
    <3>1. BuildFrame
      BY <2>3 DEF OutsideFails, BuildStep, StartBuild, BuildGoesOn, NoticeFailure, AbortBuild, BuildSucceeds, BuildFails
    <3> QED BY <1>0, <2>1, <3>1, NoHarnessKept DEF BuildFrame, process
  <2> QED BY <1>1, <2>2, <2>3
<1>2. CASE StartHarness
  <2>1. /\ harness' = "ready" /\ target' = Min(Remaining) /\ pid' \in Pids /\ suite' = opts.suites[target'] /\ Remaining # {}
        /\ UNCHANGED <<wpc, opts, ended>> /\ harness = "none"
    BY <1>2 DEF StartHarness
  <2>2. Remaining' = Remaining /\ target' \in Remaining
    BY <2>1, LeastRemaining DEF Remaining
  <2>3. wpc = "none"
    BY <1>0, <2>1 DEF HarnessInv, NoWorker
  <2> QED BY <2>1, <2>2, <2>3 DEF HarnessInv
<1>3. CASE StartWorker
  <2>1. /\ harness = "ready" /\ harness' = "watch" /\ UNCHANGED <<suite, opts, target, pid, ended>>
    BY <1>3 DEF StartWorker, reports
  <2>2. Remaining' = Remaining
    BY <2>1 DEF Remaining
  <2> QED BY <1>0, <2>1, <2>2 DEF HarnessInv
<1>4. CASE WorkerRuns
  <2>1. harness = "watch" /\ UNCHANGED <<harness, suite, opts, target, pid, ended>>
    BY <1>4 DEF WorkerRuns, WorkerNext, cargoVars, process, reports
  <2>2. Remaining' = Remaining
    BY <2>1 DEF Remaining
  <2> QED BY <1>0, <2>1, <2>2 DEF HarnessInv
<1>5. CASE WorkerOver
  <2>1. /\ harness = "watch" /\ wpc = "over" /\ UNCHANGED <<wpc, wcode, completion, suite, opts, target, pid, ended>>
        /\ harness' = "ready" \/ (harness' = "exit" /\ status' = Outcome)
    BY <1>5 DEF WorkerOver
  <2>2. Remaining' = Remaining /\ Outcome' = Outcome /\ Outcome \in Exits1
    BY <1>0, <2>1, OutcomeIs DEF Remaining, Outcome
  <2> QED BY <1>0, <2>1, <2>2 DEF HarnessInv
<1>6. CASE HarnessExits \/ HarnessKilled \/ CargoKilled
  <2>1. Gone
    BY <1>6 DEF HarnessExits, HarnessKilled, CargoKilled, Ends
  <2> QED BY <1>0, <2>1, GoneIsNothing DEF HarnessInv
<1> QED BY <1>1, <1>2, <1>3, <1>4, <1>5, <1>6 DEF Next, RunStep

-----------------------------------------------------------------------------
(* What the harnesses end with *)

\* The exit code of a harness is what the tests of its mutations call for.
LEMMA CodeIsOfTests ==
  ASSUME WorkerInv
  PROVE  VerdictExitCode(results) = CodeOf(results)
<1>1. ResultsOK(results, suite) /\ IsFiniteSet(Muts)
  BY WorkerParts DEF ResultsInv, RunInv
<1>2. IsFiniteSet(DOMAIN results)
  BY <1>1, FS_Subset DEF ResultsOK, Muts
<1>3. \A m \in DOMAIN results : results[m].verdict = "Undetected" <=> Range(results[m].tests) \subseteq {"Undetected"}
  BY <1>1 DEF ResultsOK, ResultOK, Range
<1> QED BY <1>2, <1>3, VerdictCode DEF CodeOf

\* A worker whose exit says that the analysis completed had recorded so.
LEMMA CompletedOutcome ==
  ASSUME IInv, harness # "none", AnalysisCompleted(Outcome)
  PROVE  /\ monitor = "joined" /\ DOMAIN results = DOMAIN opts.suites[target] /\ wcode # BASELINE_FAILED
         /\ Outcome = IF opts.flakes > 0 THEN SUCCESS ELSE CodeOf(results)
<1>0. WorkerInv /\ HarnessInv
  BY DEF IInv
<1>1. completion = wcode /\ Outcome = wcode /\ AnalysisCompleted(wcode)
  BY DEF Outcome, AnalysisCompleted, PANIC, SUCCESS, MISSED, TIMED_OUT
<1>2. completion # NoCode /\ wcode # BASELINE_FAILED
  BY <1>1 DEF AnalysisCompleted, SUCCESS, MISSED, TIMED_OUT, NoCode, BASELINE_FAILED
<1>3. monitor = "joined" /\ DOMAIN results = Muts /\ completion = FinalCode
  BY <1>0, <1>2, WorkerParts DEF CompletionInv
<1>4. suite = opts.suites[target]
  BY <1>0 DEF HarnessInv
<1> QED BY <1>0, <1>1, <1>2, <1>3, <1>4, CodeIsOfTests DEF FinalCode, Muts

\* The harness at hand completed.
Done == harness = "exit" /\ AnalysisCompleted(status)

LEMMA CertifiedKept ==
  ASSUME CertifiedInv, UNCHANGED <<opts, ended, certified, summaries>>, Unbuilt' => Unbuilt, ~CargoOver' => ~CargoOver,
         (Done' <=> Done), Done => UNCHANGED <<status, target>>
  PROVE  CertifiedInv'
<1>1. CASE Done
  BY <1>1 DEF CertifiedInv, Done
<1>2. CASE ~Done
  BY <1>2 DEF CertifiedInv, Done
<1> QED BY <1>1, <1>2

LEMMA CertifiedInvInit == Init => CertifiedInv
<1> SUFFICES ASSUME Init PROVE CertifiedInv
  OBVIOUS
<1>1. ended = <<>> /\ certified = <<>> /\ harness = "none" /\ DOMAIN <<>> = {}
  BY DEF Init, CargoInit
<1> QED BY <1>1 DEF CertifiedInv

LEMMA BuildsKeepCertified ==
  ASSUME IInv, PassTo \/ EndBuilds \/ CargoExits \/ Report \/ Inspect \/ OutsideFails
               \/ \E t \in Targets : BuildStep(t) \/ BuildSucceeds(t) \/ BuildFails(t)
  PROVE  CertifiedInv'
<1>0. CertifiedInv /\ BuildInv
  BY DEF IInv
<1>1. UNCHANGED opts
  BY BuildsAndCargo DEF workerVars
<1>2. CASE PassTo \/ EndBuilds \/ CargoExits \/ Report \/ Inspect
  <2>1. UNCHANGED <<build, harness, status, target, ended, certified, summaries>>
    BY <1>2 DEF PassTo, EndBuilds, CargoExits, Report, Inspect, process, reports, builds
  <2>2. ~CargoOver' => ~CargoOver
    BY <1>2 DEF PassTo, EndBuilds, CargoExits, Report, Inspect, CargoOver
  <2>3. Unbuilt' = Unbuilt /\ (Done' <=> Done)
    BY <2>1 DEF Unbuilt, Done
  <2> QED BY <1>0, <1>1, <2>1, <2>2, <2>3, CertifiedKept
<1>3. CASE OutsideFails \/ \E t \in Targets : BuildStep(t) \/ BuildSucceeds(t) \/ BuildFails(t)
  <2>1. BuildFrame /\ cargo' = cargo
    BY <1>3 DEF OutsideFails, BuildStep, StartBuild, BuildGoesOn, NoticeFailure, AbortBuild, BuildSucceeds, BuildFails
  <2>2. UNCHANGED <<harness, status, target, ended, certified, summaries>>
    BY <2>1 DEF BuildFrame, process
  <2>3. CargoOver' = CargoOver /\ (Done' <=> Done)
    BY <2>1, <2>2 DEF CargoOver, Done
  <2>4. Unbuilt' => Unbuilt
    <3>1. CASE OutsideFails
      BY <3>1 DEF OutsideFails, Unbuilt
    <3>2. CASE \E t \in Targets : BuildStep(t) \/ BuildSucceeds(t) \/ BuildFails(t)
      <4>1. PICK t \in Targets : BuildStep(t) \/ BuildSucceeds(t) \/ BuildFails(t)
        BY <3>2
      <4>2. build[t] # "built"
        BY <4>1 DEF BuildStep, StartBuild, BuildGoesOn, NoticeFailure, AbortBuild, BuildSucceeds, BuildFails
      <4> QED BY <4>2 DEF Unbuilt
    <3> QED BY <1>3, <3>1, <3>2
  <2> QED BY <1>0, <1>1, <2>2, <2>3, <2>4, CertifiedKept
<1> QED BY <1>2, <1>3

LEMMA WorkerOverKeepsCertified ==
  ASSUME IInv, WorkerOver
  PROVE  CertifiedInv'
<1>0. CertifiedInv /\ BuildInv /\ HarnessInv
  BY DEF IInv
<1>1. /\ harness = "watch" /\ UNCHANGED <<opts, target, summaries, ended, build, cargo>>
  BY DEF WorkerOver, HarnessFrame, builds
<1>2. Unbuilt' = Unbuilt /\ CargoOver' = CargoOver /\ ~Done
  BY <1>1 DEF Unbuilt, CargoOver, Done
<1>3. CASE harness' = "ready" /\ UNCHANGED certified
  <2>1. ~Done'
    BY <1>3 DEF Done
  <2> QED BY <1>0, <1>1, <1>2, <1>3, <2>1, CertifiedKept
<1>4. CASE harness' = "exit" /\ status' = Outcome /\ ~AnalysisCompleted(Outcome) /\ UNCHANGED certified
  <2>1. ~Done'
    BY <1>4 DEF Done
  <2> QED BY <1>0, <1>1, <1>2, <1>4, <2>1, CertifiedKept
<1>5. CASE /\ harness' = "exit" /\ status' = Outcome /\ AnalysisCompleted(Outcome)
           /\ certified' = Put(certified, target, Completed(results))
  <2> DEFINE what == Completed(results)
  <2>1. DOMAIN certified' = DOMAIN certified \cup {target} /\ certified'[target] = what /\ \A t \in DOMAIN certified \ {target} : certified'[t] = certified[t]
    <3> HIDE DEF what
    <3>1. certified' = Put(certified, target, what)
      BY <1>5 DEF what
    <3>2. certified' = [t \in DOMAIN certified \cup {target} |-> IF t = target THEN what ELSE certified[t]]
      BY <3>1 DEF Put
    <3> QED BY ONLY <3>2
  <2>2. what.judged = DOMAIN opts.suites[target] /\ Outcome = IF opts.flakes > 0 THEN SUCCESS ELSE what.code
    BY <1>1, <1>5, CompletedOutcome DEF Completed
  <2> HIDE DEF what
  <2>3. target \in Targets /\ target \notin DOMAIN ended
    BY <1>0, <1>1 DEF HarnessInv, Remaining
  <2>4. ~Unbuilt
    BY <1>0, <1>1 DEF BuildInv
  <2>5. \A t \in DOMAIN ended : t \in DOMAIN certified' <=> t \in DOMAIN certified
    BY <2>1, <2>3
  <2>6. \A t \in DOMAIN ended : t \in DOMAIN certified => certified'[t] = certified[t]
    BY <2>1, <2>3
  <2>7. \A t \in DOMAIN certified' : certified'[t].judged = DOMAIN opts'.suites[t]
    BY <1>0, <1>1, <2>1, <2>2 DEF CertifiedInv
  <2>8. DOMAIN certified' \subseteq Targets /\ (~CargoOver' => DOMAIN certified' \subseteq DOMAIN ended' \cup {target})
    BY <1>0, <1>1, <1>2, <2>1, <2>3, <2>4 DEF CertifiedInv
  <2>9. \A t \in DOMAIN ended' :
            /\ ended'[t] \in Exits1 \cup {SIGNALLED}
            /\ AnalysisCompleted(ended'[t]) =>
                /\ t \in DOMAIN certified' /\ <<t, "evaluated">> \in summaries'
                /\ ended'[t] = IF opts'.flakes > 0 THEN SUCCESS ELSE certified'[t].code
            /\ t \in DOMAIN certified' => AnalysisCompleted(ended'[t]) \/ ended'[t] = SIGNALLED
    BY <1>0, <1>1, <2>5, <2>6 DEF CertifiedInv
  <2> QED BY <1>0, <1>1, <1>2, <1>5, <2>1, <2>2, <2>4, <2>7, <2>8, <2>9 DEF CertifiedInv
<1>6. \/ harness' = "ready" /\ UNCHANGED certified
      \/ /\ harness' = "exit" /\ status' = Outcome
         /\ certified' = IF AnalysisCompleted(Outcome)
                         THEN Put(certified, target, Completed(results)) ELSE certified
  BY DEF WorkerOver
<1> QED BY <1>3, <1>4, <1>5, <1>6

\* A harness ends with the status it was to exit with, or is killed.
LEMMA EndKeepsCertified ==
  ASSUME IInv, harness # "none", NEW exit, exit = SIGNALLED \/ (harness = "exit" /\ exit = status), Ends(exit),
         UNCHANGED <<build, cargo, certified>>, summaries \subseteq summaries',
         harness = "exit" /\ AnalysisCompleted(exit) => <<target, "evaluated">> \in summaries'
  PROVE  CertifiedInv'
<1>0. CertifiedInv /\ BuildInv /\ HarnessInv
  BY DEF IInv
<1>1. harness' = "none" /\ opts' = opts /\ ended' = Put(ended, target, exit)
  BY DEF Ends, Gone
<1>2. DOMAIN ended' = DOMAIN ended \cup {target} /\ ended'[target] = exit /\ \A t \in DOMAIN ended \ {target} : ended'[t] = ended[t]
  <2>1. ended' = [t \in DOMAIN ended \cup {target} |-> IF t = target THEN exit ELSE ended[t]]
    BY <1>1 DEF Put
  <2> QED BY ONLY <2>1
<1>3. target \in Targets /\ target \notin DOMAIN ended
  BY <1>0 DEF HarnessInv, Remaining
<1>4. Unbuilt' = Unbuilt /\ CargoOver' = CargoOver
  BY DEF Unbuilt, CargoOver
<1>5. ~CargoOver /\ cargo = "testing"
  BY <1>0 DEF BuildInv, CargoOver
<1>6. exit \in Exits1 \cup {SIGNALLED} /\ ~AnalysisCompleted(SIGNALLED)
  BY <1>0 DEF HarnessInv, AnalysisCompleted, SIGNALLED, SUCCESS, MISSED, TIMED_OUT
<1>7. AnalysisCompleted(exit) => harness = "exit" /\ exit = status
  BY <1>6
<1>8. /\ AnalysisCompleted(exit) =>
            /\ target \in DOMAIN certified /\ <<target, "evaluated">> \in summaries'
            /\ exit = IF opts.flakes > 0 THEN SUCCESS ELSE certified[target].code
      /\ target \in DOMAIN certified => AnalysisCompleted(exit) \/ exit = SIGNALLED
  BY <1>0, <1>3, <1>5, <1>7 DEF CertifiedInv
<1>9. \A t \in DOMAIN ended' :
          /\ ended'[t] \in Exits1 \cup {SIGNALLED}
          /\ AnalysisCompleted(ended'[t]) =>
              /\ t \in DOMAIN certified' /\ <<t, "evaluated">> \in summaries'
              /\ ended'[t] = IF opts'.flakes > 0 THEN SUCCESS ELSE certified'[t].code
          /\ t \in DOMAIN certified' => AnalysisCompleted(ended'[t]) \/ ended'[t] = SIGNALLED
  <2> SUFFICES ASSUME NEW t \in DOMAIN ended'
               PROVE  /\ ended'[t] \in Exits1 \cup {SIGNALLED}
                      /\ AnalysisCompleted(ended'[t]) =>
                          /\ t \in DOMAIN certified /\ <<t, "evaluated">> \in summaries'
                          /\ ended'[t] = IF opts.flakes > 0 THEN SUCCESS ELSE certified[t].code
                      /\ t \in DOMAIN certified => AnalysisCompleted(ended'[t]) \/ ended'[t] = SIGNALLED
    BY <1>1
  <2>1. CASE t = target
    BY <2>1, <1>2, <1>6, <1>8
  <2>2. CASE t \in DOMAIN ended /\ t # target
    BY <2>2, <1>0, <1>2 DEF CertifiedInv
  <2> QED BY <2>1, <2>2, <1>2
<1>10. DOMAIN certified \subseteq DOMAIN ended \cup {target}
  BY <1>0, <1>5 DEF CertifiedInv
<1> QED BY <1>0, <1>1, <1>2, <1>3, <1>4, <1>9, <1>10 DEF CertifiedInv

LEMMA CertifiedInvNext ==
  ASSUME IInv, Next
  PROVE  CertifiedInv'
<1>0. CertifiedInv /\ BuildInv /\ HarnessInv
  BY DEF IInv
<1>1. CASE PassTo \/ EndBuilds \/ CargoExits \/ Report \/ Inspect \/ OutsideFails
           \/ \E t \in Targets : BuildStep(t) \/ BuildSucceeds(t) \/ BuildFails(t)
  BY <1>1, BuildsKeepCertified
<1>2. CASE StartHarness \/ StartWorker \/ WorkerRuns
  <2>1. UNCHANGED <<build, cargo, opts, ended, certified, summaries>>
    BY <1>2 DEF StartHarness, StartWorker, WorkerRuns, WorkerNext, HarnessFrame, cargoVars, builds, process, reports
  <2>2. ~Done /\ ~Done'
    BY <1>2 DEF Done, StartHarness, StartWorker, WorkerRuns, cargoVars, process
  <2>3. Unbuilt' = Unbuilt /\ CargoOver' = CargoOver
    BY <2>1 DEF Unbuilt, CargoOver
  <2> QED BY <1>0, <2>1, <2>2, <2>3, CertifiedKept
<1>3. CASE WorkerOver
  BY <1>3, WorkerOverKeepsCertified
<1>4. CASE HarnessExits
  <2>1. /\ harness = "exit" /\ Ends(status) /\ UNCHANGED <<build, cargo, certified>> /\ summaries \subseteq summaries'
        /\ monitor = "joined" => <<target, "evaluated">> \in summaries'
    BY <1>4 DEF HarnessExits, HarnessFrame, builds
  <2>2. status = Outcome
    BY <1>0, <2>1 DEF HarnessInv
  <2>3. AnalysisCompleted(status) => monitor = "joined"
    BY <2>1, <2>2, CompletedOutcome
  <2> QED BY <2>1, <2>3, EndKeepsCertified
<1>5. CASE HarnessKilled
  <2>1. harness # "none" /\ Ends(SIGNALLED) /\ UNCHANGED <<build, cargo, certified, summaries>>
    BY <1>5 DEF HarnessKilled, HarnessFrame, builds
  <2>2. ~AnalysisCompleted(SIGNALLED)
    BY DEF AnalysisCompleted, SIGNALLED, SUCCESS, MISSED, TIMED_OUT
  <2> QED BY <2>1, <2>2, EndKeepsCertified
<1>6. CASE CargoKilled
  <2>1. /\ cargo \in {"building", "testing"} /\ cargo' = "exited" /\ harness' = "none" /\ opts' = opts
        /\ UNCHANGED <<ended, certified, summaries>>
        /\ build' = [t \in Targets |-> IF build[t] = "building" THEN "failed" ELSE build[t]]
    BY <1>6 DEF CargoKilled, Gone, reports
  <2>2. Unbuilt' => Unbuilt
    BY <2>1 DEF Unbuilt
  <2>3. CargoOver'
    BY <2>1 DEF CargoOver
  <2> QED BY <1>0, <2>1, <2>2, <2>3 DEF CertifiedInv
<1> QED BY <1>1, <1>2, <1>3, <1>4, <1>5, <1>6 DEF Next, RunStep

-----------------------------------------------------------------------------
(* What the log tells *)

LEMMA LogKept ==
  ASSUME LogInv, NothingLost' => NothingLost, UNCHANGED <<log, harness, pid, ended>>
  PROVE  LogInv'
<1>1. Recorded' = Recorded /\ EndedCodes' = EndedCodes
  BY DEF Recorded, EndedCodes
<1> QED BY <1>1 DEF LogInv, LogTells

\* The harness at hand is not the one that has ended.
LEMMA EndedGrows ==
  ASSUME NEW exit, target \notin DOMAIN ended, ended' = Put(ended, target, exit)
  PROVE  EndedCodes' = EndedCodes \cup {IF exit = SIGNALLED THEN NoCode ELSE exit}
<1>1. ended' = [t \in DOMAIN ended \cup {target} |-> IF t = target THEN exit ELSE ended[t]]
  BY DEF Put
<1>2. DOMAIN ended' = DOMAIN ended \cup {target} /\ ended'[target] = exit /\ \A t \in DOMAIN ended : ended'[t] = ended[t]
  BY <1>1
<1> QED BY <1>2 DEF EndedCodes

LEMMA RowsAre ==
  ASSUME NEW p \in Pids, NEW c \in Exits1
  PROVE  Started(p) \in Rows /\ Exited(p, c) \in Rows
BY DEF Started, Exited, Rows

LEMMA LogInvInit == Init => LogInv
<1> SUFFICES ASSUME Init PROVE LogInv
  OBVIOUS
<1> QED BY DEF Init, CargoInit, LogInv, NothingLost, CargoOver

LEMMA StartHarnessKeepsLog ==
  ASSUME IInv, StartHarness
  PROVE  LogInv'
<1>0. LogInv /\ BuildInv
  BY DEF IInv
<1>1. /\ harness = "none" /\ harness' = "ready" /\ pid' \in Pids /\ LogRow(Started(pid')) /\ UNCHANGED <<cargo, ended, ccode>> /\ cargo = "testing"
  BY DEF StartHarness, HarnessFrame
<1> SUFFICES ASSUME NothingLost' PROVE LogTells'
  BY DEF LogInv
<1>2. NothingLost /\ log' \in Appended(log, Started(pid'))
  BY <1>1 DEF NothingLost, LogRow
<1>3. log \in Seq(Rows) /\ Recorded \in Seq(Harnesses) /\ Codes(Recorded) = EndedCodes
  BY <1>0, <1>1, <1>2 DEF LogInv, LogTells
<1> DEFINE row == Started(pid')
           opened == [pid |-> pid', code |-> NoCode]
<1>4. row \in Rows /\ opened \in Harnesses
  BY <1>1 DEF Started, Rows, Harnesses
<1>5. log' = Append(log, row)
  BY <1>2, <1>3, WholeRow DEF Appended
<1>6. Taken(Recorded, row) = Append(Recorded, opened)
  BY StartIsRead
<1> HIDE DEF row, opened
<1>7. HarnessesUpTo(Append(log, row))[Len(Append(log, row))] = Taken(HarnessesUpTo(log)[Len(log)], row)
  BY <1>3, <1>4, ReadOneMore
<1>8. Recorded' = Append(Recorded, opened)
  BY <1>5, <1>6, <1>7 DEF Recorded
<1>9. /\ Append(Recorded, opened) \in Seq(Harnesses) /\ Append(Recorded, opened) # <<>> /\ Front(Append(Recorded, opened)) = Recorded
      /\ Append(Recorded, opened)[Len(Append(Recorded, opened))] = opened
  BY <1>3, <1>4, FrontOfLonger
<1>10. EndedCodes' = EndedCodes
  BY <1>1 DEF EndedCodes
<1>11. log' \in Seq(Rows)
  BY <1>3, <1>4, <1>5
<1>12. /\ Recorded' \in Seq(Harnesses) /\ Recorded' # <<>> /\ Recorded'[Len(Recorded')] = [pid |-> pid', code |-> NoCode]
       /\ Codes(Front(Recorded')) = EndedCodes'
  BY <1>3, <1>8, <1>9, <1>10 DEF opened
<1> QED BY <1>1, <1>11, <1>12 DEF LogTells

LEMMA HarnessExitsKeepsLog ==
  ASSUME IInv, HarnessExits
  PROVE  LogInv'
<1>0. LogInv /\ BuildInv /\ HarnessInv
  BY DEF IInv
<1>1. /\ harness = "exit" /\ harness' = "none" /\ LogRow(Exited(pid, status)) /\ ended' = Put(ended, target, status)
      /\ UNCHANGED <<cargo, ccode>> /\ cargo = "testing"
  BY <1>0 DEF HarnessExits, HarnessFrame, Ends, Gone, BuildInv
<1>2. pid \in Pids /\ status \in Exits1 /\ target \notin DOMAIN ended
  BY <1>0, <1>1 DEF HarnessInv, Remaining
<1> SUFFICES ASSUME NothingLost' PROVE LogTells'
  BY DEF LogInv
<1>3. NothingLost /\ log' \in Appended(log, Exited(pid, status))
  BY <1>1 DEF NothingLost, LogRow
<1>4. /\ log \in Seq(Rows) /\ Recorded \in Seq(Harnesses) /\ Recorded # <<>> /\ Recorded[Len(Recorded)] = [pid |-> pid, code |-> NoCode]
      /\ Codes(Front(Recorded)) = EndedCodes
  BY <1>0, <1>1, <1>3 DEF LogInv, LogTells
<1> DEFINE row == Exited(pid, status)
<1>5. row \in Rows
  BY <1>2, RowsAre
<1>6. log' = Append(log, row)
  BY <1>3, <1>4, WholeRow DEF Appended
<1>7. Taken(Recorded, row) \in Seq(Harnesses) /\ Codes(Taken(Recorded, row)) = Codes(Front(Recorded)) \cup {status}
  BY <1>2, <1>4, ExitIsRead
<1> HIDE DEF row
<1>8. HarnessesUpTo(Append(log, row))[Len(Append(log, row))] = Taken(HarnessesUpTo(log)[Len(log)], row)
  BY <1>4, <1>5, ReadOneMore
<1>9. Recorded' = Taken(Recorded, row)
  BY <1>6, <1>8 DEF Recorded
<1>10. EndedCodes' = EndedCodes \cup {status}
  <2>1. status # SIGNALLED
    BY <1>2 DEF Exits1, SIGNALLED, SUCCESS, MISSED, TIMED_OUT, BASELINE_FAILED, PANIC
  <2> QED BY <2>1, <1>1, <1>2, EndedGrows
<1>11. log' \in Seq(Rows)
  BY <1>4, <1>5, <1>6
<1> QED BY <1>1, <1>4, <1>7, <1>9, <1>10, <1>11 DEF LogTells

\* The start of a harness that was killed has no exit.
LEMMA HarnessKilledKeepsLog ==
  ASSUME IInv, HarnessKilled
  PROVE  LogInv'
<1>0. LogInv /\ BuildInv /\ HarnessInv
  BY DEF IInv
<1>1. harness # "none" /\ harness' = "none" /\ ended' = Put(ended, target, SIGNALLED) /\ UNCHANGED <<log, unlogged, cargo, ccode>>
  BY DEF HarnessKilled, HarnessFrame, Ends, Gone
<1>2. target \notin DOMAIN ended
  BY <1>0, <1>1 DEF HarnessInv, Remaining
<1> SUFFICES ASSUME NothingLost' PROVE LogTells'
  BY DEF LogInv
<1>3. NothingLost
  BY <1>1 DEF NothingLost, CargoOver
<1>4. /\ log \in Seq(Rows) /\ Recorded \in Seq(Harnesses) /\ Recorded # <<>> /\ Recorded[Len(Recorded)] = [pid |-> pid, code |-> NoCode]
      /\ Codes(Front(Recorded)) = EndedCodes
  BY <1>0, <1>1, <1>3 DEF LogInv, LogTells
<1>5. Codes(Recorded) = Codes(Front(Recorded)) \cup {NoCode}
  BY <1>4, CodesOfFront
<1>6. EndedCodes' = EndedCodes \cup {NoCode}
  BY <1>1, <1>2, EndedGrows
<1>7. Recorded' = Recorded
  BY <1>1 DEF Recorded
<1> QED BY <1>1, <1>4, <1>5, <1>6, <1>7 DEF LogTells

LEMMA LogInvNext ==
  ASSUME IInv, Next
  PROVE  LogInv'
<1>0. LogInv /\ BuildInv /\ CodeInv
  BY DEF IInv
<1>1. CASE PassTo
  <2>1. /\ cargo = "removing" /\ log' = <<>> /\ UNCHANGED <<harness, ended>>
    BY <1>1 DEF PassTo, process
  <2>2. harness = "none" /\ ended = <<>>
    BY <1>0, <2>1 DEF BuildInv
  <2>3. Recorded' = <<>>
    BY <2>1, ReadNothing DEF Recorded
  <2>4. EndedCodes' = {} /\ Codes(<<>>) = {}
    BY <2>1, <2>2 DEF EndedCodes, Codes
  <2> QED BY <2>1, <2>2, <2>3, <2>4 DEF LogInv, LogTells
<1>2. CASE EndBuilds \/ CargoExits \/ Report \/ Inspect
  <2>1. UNCHANGED <<log, harness, pid, ended, unlogged>>
    BY <1>2 DEF EndBuilds, CargoExits, Report, Inspect, process, reports
  <2>2. cargo \in {"building", "testing"} \/ (CargoOver /\ cargo' \notin {"building", "testing"} /\ ccode' = ccode)
    BY <1>2 DEF EndBuilds, CargoExits, Report, Inspect, CargoOver
  <2>3. NothingLost' => NothingLost
    BY <2>1, <2>2 DEF NothingLost
  <2> QED BY <1>0, <2>1, <2>3, LogKept
<1>3. CASE OutsideFails \/ \E t \in Targets : BuildStep(t) \/ BuildSucceeds(t) \/ BuildFails(t)
  <2>1. BuildFrame /\ cargo' = cargo /\ (unlogged => unlogged')
    BY <1>3 DEF OutsideFails, BuildStep, StartBuild, BuildGoesOn, NoticeFailure, AbortBuild, BuildSucceeds, BuildFails, RecordFailure
  <2>2. UNCHANGED <<log, harness, pid, ended, ccode>>
    BY <2>1 DEF BuildFrame, process
  <2>3. NothingLost' => NothingLost
    BY <2>1, <2>2 DEF NothingLost, CargoOver
  <2> QED BY <1>0, <2>2, <2>3, LogKept
<1>4. CASE StartHarness
  BY <1>4, StartHarnessKeepsLog
<1>5. CASE StartWorker \/ WorkerRuns \/ WorkerOver
  <2>1. /\ harness # "none" /\ harness' # "none" /\ UNCHANGED <<log, pid, ended, unlogged, cargo, ccode>>
    BY <1>5 DEF StartWorker, WorkerRuns, WorkerOver, HarnessFrame, cargoVars, process, reports
  <2>2. Recorded' = Recorded /\ EndedCodes' = EndedCodes /\ (NothingLost' => NothingLost)
    BY <2>1 DEF Recorded, EndedCodes, NothingLost, CargoOver
  <2> QED BY <1>0, <2>1, <2>2 DEF LogInv, LogTells
<1>6. CASE HarnessExits
  BY <1>6, HarnessExitsKeepsLog
<1>7. CASE HarnessKilled
  BY <1>7, HarnessKilledKeepsLog
<1>8. CASE CargoKilled
  <2>1. ~NothingLost'
    BY <1>8 DEF CargoKilled, NothingLost, CargoOver
  <2> QED BY <2>1 DEF LogInv
<1> QED BY <1>1, <1>2, <1>3, <1>4, <1>5, <1>6, <1>7, <1>8 DEF Next, RunStep

-----------------------------------------------------------------------------
(* The exit code of Cargo *)

LEMMA CodeInvInit == Init => CodeInv
<1> SUFFICES ASSUME Init PROVE CodeInv
  OBVIOUS
<1> QED BY DEF Init, CargoInit, CodeInv, CargoOver

LEMMA CodeInvNext ==
  ASSUME IInv, Next
  PROVE  CodeInv'
<1>0. BuildInv /\ CertifiedInv /\ CodeInv
  BY DEF IInv
<1>1. CASE EndBuilds
  <2>1. /\ cargo = "building" /\ UNCHANGED <<job, build, outside, ended>> /\ ccode = NoCode
        /\ \/ Failing /\ cargo' = "exited" /\ ccode' = 101
           \/ (\A t \in Targets : build[t] = "built") /\ cargo' = "exited" /\ ccode' = SUCCESS /\ job = "no-run"
           \/ cargo' = "testing" /\ ccode' = ccode
    BY <1>0, <1>1 DEF EndBuilds, builds, reports, CodeInv, CargoOver
  <2>2. Failing => Unbuilt
    BY <1>0, FailingIsUnbuilt
  <2>3. Failing' = Failing /\ Unbuilt' = Unbuilt
    BY <2>1 DEF Failing, Unbuilt
  <2>4. (\A t \in Targets : build[t] = "built") => ~Unbuilt
    BY DEF Unbuilt
  <2> QED BY <2>1, <2>2, <2>3, <2>4 DEF CodeInv, CargoOver, SUCCESS, NoCode
<1>2. CASE CargoExits
  <2>1. /\ cargo = "testing" /\ cargo' = "exited" /\ UNCHANGED <<job, build, outside, ended>> /\ Remaining = {}
        /\ ccode' = IF \A t \in Targets : ended[t] = SUCCESS THEN SUCCESS ELSE 101
    BY <1>2 DEF CargoExits, builds, reports
  <2>2. ~Unbuilt /\ ~Failing
    BY <1>0, <2>1, FailingIsUnbuilt DEF BuildInv
  <2>3. DOMAIN ended = Targets
    BY <1>0, <2>1 DEF CertifiedInv, Remaining
  <2>4. Failing' = Failing /\ Unbuilt' = Unbuilt
    BY <2>1 DEF Failing, Unbuilt
  <2> QED BY <2>1, <2>2, <2>3, <2>4 DEF CodeInv, CargoOver, SUCCESS, NoCode
<1>3. CASE Report \/ Inspect
  <2>1. /\ CargoOver /\ CargoOver' /\ UNCHANGED <<job, build, outside, ended, ccode, marker, log>>
        /\ cargo' = "reported" => code' = RunExitCode(marker.names, read(log))
    BY <1>3 DEF Report, Inspect, CargoOver, builds, reports
  <2>2. Failing' = Failing /\ Unbuilt' = Unbuilt /\ RunExitCode(marker.names, read(log))' = RunExitCode(marker.names, read(log))
    BY <2>1 DEF Failing, Unbuilt, RunExitCode
  <2> QED BY <1>0, <2>1, <2>2 DEF CodeInv
<1>4. CASE CargoKilled
  <2>1. cargo' = "exited" /\ ccode' = NoCode
    BY <1>4 DEF CargoKilled
  <2> QED BY <2>1 DEF CodeInv, SUCCESS, NoCode
<1>5. CASE PassTo \/ OutsideFails \/ \E t \in Targets : BuildStep(t) \/ BuildSucceeds(t) \/ BuildFails(t)
  <2>1. ccode' = ccode
    BY <1>5 DEF PassTo, OutsideFails, BuildStep, StartBuild, BuildGoesOn, NoticeFailure, AbortBuild, BuildSucceeds, BuildFails, BuildFrame
  <2>2. ~CargoOver /\ ~CargoOver'
    <3>1. CASE PassTo \/ OutsideFails
      BY <3>1 DEF PassTo, OutsideFails, CargoOver
    <3>2. CASE \E t \in Targets : BuildStep(t) \/ BuildSucceeds(t) \/ BuildFails(t)
      <4>1. PICK t \in Targets : BuildStep(t) \/ BuildSucceeds(t) \/ BuildFails(t)
        BY <3>2
      <4>2. cargo' = cargo /\ (cargo = "building" \/ build[t] = "building")
        BY <4>1 DEF BuildStep, StartBuild, BuildGoesOn, NoticeFailure, AbortBuild, BuildSucceeds, BuildFails
      <4> QED BY <1>0, <4>2 DEF BuildInv, CargoOver
    <3> QED BY <1>5, <3>1, <3>2
  <2> QED BY <1>0, <2>1, <2>2 DEF CodeInv, CargoOver
<1>6. CASE StartHarness \/ StartWorker \/ WorkerRuns \/ WorkerOver \/ HarnessExits \/ HarnessKilled
  <2>1. UNCHANGED <<cargo, ccode>>
    BY <1>6 DEF StartHarness, StartWorker, WorkerRuns, WorkerOver, HarnessExits, HarnessKilled, HarnessFrame, cargoVars
  <2>2. cargo = "testing"
    BY <1>0, <1>6 DEF BuildInv, StartHarness, StartWorker, WorkerRuns, WorkerOver, HarnessExits, HarnessKilled
  <2> QED BY <1>0, <2>1, <2>2 DEF CodeInv, CargoOver
<1> QED BY <1>1, <1>2, <1>3, <1>4, <1>5, <1>6 DEF Next, RunStep

-----------------------------------------------------------------------------
(* The invariant *)

LEMMA IInvInit == Init => IInv
BY WorkerInvInit, BuildInvInit, HarnessInvInit, CertifiedInvInit, LogInvInit, CodeInvInit DEF IInv

LEMMA IInvNext == IInv /\ [Next]_vars => IInv'
<1> SUFFICES ASSUME IInv, [Next]_vars PROVE IInv'
  OBVIOUS
<1>1. CASE Next
  BY <1>1, WorkerInvNext, BuildInvNext, HarnessInvNext, CertifiedInvNext, LogInvNext, CodeInvNext DEF IInv
<1>2. CASE UNCHANGED vars
  <2>0. WorkerInv /\ BuildInv /\ HarnessInv /\ CertifiedInv /\ LogInv /\ CodeInv
    BY DEF IInv
  <2>1. /\ UNCHANGED workerVars
        /\ UNCHANGED <<job, build, driver, asked, outside, marker, culprits, harness, target, pid, workers, status,
                       log, summaries, ended, unlogged, certified, cargo, ccode, code>>
    BY <1>2 DEF vars, cargoVars, builds, process, reports
  <2>2. WorkerInv' /\ UNCHANGED opts
    BY <2>0, <2>1, OthersKeepWorker DEF workerVars
  <2>3. /\ Unbuilt' = Unbuilt /\ CargoOver' = CargoOver /\ Failing' = Failing /\ Done' = Done /\ NothingLost' = NothingLost
        /\ RunExitCode(marker.names, read(log))' = RunExitCode(marker.names, read(log))
    BY <2>1 DEF Unbuilt, CargoOver, Failing, Done, NothingLost, RunExitCode
  <2>4. BuildInv'
    BY <2>0, <2>1, BuildsKept
  <2>5. HarnessInv'
    BY <2>0, <2>1, NoHarnessKept
  <2>6. CertifiedInv'
    BY <2>0, <2>1, <2>2, <2>3, CertifiedKept
  <2>7. LogInv'
    BY <2>0, <2>1, <2>3, LogKept
  <2>8. CodeInv'
    BY <2>0, <2>1, <2>3 DEF CodeInv
  <2> QED BY <2>2, <2>4, <2>5, <2>6, <2>7, <2>8 DEF IInv
<1> QED BY <1>1, <1>2

\* In every state of a run the parts of the invariant hold: the progress writer and its reader agree, each test and each result of
\* the evaluation stream is where the run has it, and the log, the marker and the codes tell of the builds and harnesses that ended.
THEOREM Invariance == Spec => []IInv
<1>1. Init => IInv
  BY IInvInit
<1>2. IInv /\ [Next]_vars => IInv'
  BY IInvNext
<1> QED BY <1>1, <1>2, PTL DEF Spec

-----------------------------------------------------------------------------
(* What it implies *)

\* What a reader of the progress records is told is true (docs/runtime-progress.md, "What the records promise").
THEOREM ProgressIsTrue == Spec => []ProgressTrue
<1>1. IInv => ProgressTrue
  <2> SUFFICES ASSUME IInv PROVE ProgressTrue
    OBVIOUS
  <2>1. ProgressInv /\ CompletionInv
    BY WorkerParts DEF IInv
  <2> QED BY <2>1 DEF ProgressInv, CompletionInv, Followed, ProgressTrue
<1> QED BY <1>1, Invariance, PTL

\* A worker that completes has one result in the stream of each test that it started, or two of one that timed out.
LEMMA StreamIsWhole ==
  ASSUME WorkerInv, wpc = "recorded"
  PROVE  StreamWhole
<1> USE WorkerParts
<1> SUFFICES ASSUME ~opts.isolated, marked = {}, NEW i \in DOMAIN stream PROVE Complete(stream[i])
  BY DEF StreamWhole, Complete
<1>1. Streamed(stream, Ids(running), given, Lingering)
  BY DEF StreamInv
<1>2. monitor = "joined" /\ running = {} /\ given = {}
  BY DEF CompletionInv, MonitorInv
<1>3. inbox = <<>> /\ watched = {}
  BY <1>2 DEF MonitorInv
<1>4. Ids(running) = {} /\ Lingering = {}
  BY <1>2, <1>3 DEF Ids, Lingering, InBox
<1> QED BY <1>1, <1>2, <1>4 DEF Streamed

\* A mutation is in the matrix with the tests that detected it.
LEMMA CellDetects ==
  ASSUME WorkerInv, NEW m \in Muts, DOMAIN results = Muts
  PROVE  {x \in SuiteTests : Cell(results[m], x) # "Undetected"} = Detecting(m)
<1>1. DOMAIN results[m].tests \subseteq suite[m]
  BY WorkerParts DEF ResultsInv, ResultsOK, ResultOK
<1>2. suite[m] \subseteq SuiteTests
  BY DEF SuiteTests
<1> QED BY <1>1, <1>2 DEF Cell, Detecting

\* The entry of two mutations, by the sets of tests that detect them.
LEMMA SubsumptionBySets ==
  ASSUME NEW r, NEW o, NEW tests, NEW A, NEW B,
         A = {x \in tests : Cell(r, x) # "Undetected"}, B = {x \in tests : Cell(o, x) # "Undetected"}
  PROVE  Subsumption(r, o, tests) = IF A = {} \/ B = {} THEN "No"
                                    ELSE IF A = B THEN "Indistinguishable"
                                    ELSE IF B \subseteq A THEN "Subsumes"
                                    ELSE IF A \subseteq B THEN "Subsumed" ELSE "No"
<1> DEFINE detecting == \E x \in tests : Cell(r, x) # "Undetected"
           otherDetecting == \E x \in tests : Cell(o, x) # "Undetected"
           subsuming == \E x \in tests : Cell(r, x) # "Undetected" /\ Cell(o, x) = "Undetected"
           subsumed == \E x \in tests : Cell(r, x) = "Undetected" /\ Cell(o, x) # "Undetected"
<1>1. (detecting <=> A # {}) /\ (otherDetecting <=> B # {}) /\ (subsuming <=> ~(A \subseteq B)) /\ (subsumed <=> ~(B \subseteq A))
  OBVIOUS
<1>2. Subsumption(r, o, tests) =
        CASE ~detecting \/ ~otherDetecting -> "No"
          [] detecting /\ otherDetecting /\ ~subsuming /\ ~subsumed -> "Indistinguishable"
          [] detecting /\ otherDetecting /\ subsuming /\ subsumed -> "No"
          [] detecting /\ otherDetecting /\ subsuming /\ ~subsumed -> "Subsumes"
          [] detecting /\ otherDetecting /\ ~subsuming /\ subsumed -> "Subsumed"
  BY DEF Subsumption
<1>3. A = B <=> (A \subseteq B /\ B \subseteq A)
  OBVIOUS
<1> HIDE DEF detecting, otherDetecting, subsuming, subsumed
<1> QED BY <1>1, <1>2, <1>3

LEMMA SubsumptionIsTrue ==
  ASSUME WorkerInv, DOMAIN results = Muts
  PROVE  SubsumptionIsInclusion
<1>0. Muts \subseteq Nat
  BY WorkerParts DEF RunInv
<1> SUFFICES ASSUME NEW a \in Muts, NEW b \in Muts, a # b
             PROVE  LET entry == SubsumptionMatrix(results, SuiteTests)[<<a, b>>]
                        both == Detecting(a) # {} /\ Detecting(b) # {}
                    IN /\ entry = "Indistinguishable" <=> both /\ Detecting(a) = Detecting(b)
                       /\ entry = "Subsumes" <=> both /\ Detecting(b) \subseteq Detecting(a) /\ Detecting(a) # Detecting(b)
                       /\ entry = "Subsumed" <=> both /\ Detecting(a) \subseteq Detecting(b) /\ Detecting(a) # Detecting(b)
  BY DEF SubsumptionIsInclusion
<1> DEFINE A == Detecting(a)
           B == Detecting(b)
           entry == SubsumptionMatrix(results, SuiteTests)[<<a, b>>]
<1>1. A = {x \in SuiteTests : Cell(results[a], x) # "Undetected"} /\ B = {x \in SuiteTests : Cell(results[b], x) # "Undetected"}
  BY CellDetects
<1>2. entry = CASE a = b -> "No"
                [] a < b -> Subsumption(results[a], results[b], SuiteTests)
                [] a > b -> Reverse1(Subsumption(results[b], results[a], SuiteTests))
  BY DEF SubsumptionMatrix
<1>3. /\ Subsumption(results[a], results[b], SuiteTests) = IF A = {} \/ B = {} THEN "No"
                                                           ELSE IF A = B THEN "Indistinguishable"
                                                           ELSE IF B \subseteq A THEN "Subsumes"
                                                           ELSE IF A \subseteq B THEN "Subsumed" ELSE "No"
      /\ Subsumption(results[b], results[a], SuiteTests) = IF B = {} \/ A = {} THEN "No"
                                                           ELSE IF B = A THEN "Indistinguishable"
                                                           ELSE IF A \subseteq B THEN "Subsumes"
                                                           ELSE IF B \subseteq A THEN "Subsumed" ELSE "No"
  BY <1>1, SubsumptionBySets
<1> HIDE DEF A, B, entry
<1>4. A = B <=> (A \subseteq B /\ B \subseteq A)
  OBVIOUS
<1>5. /\ Reverse1("No") = "No" /\ Reverse1("Indistinguishable") = "Indistinguishable"
      /\ Reverse1("Subsumes") = "Subsumed" /\ Reverse1("Subsumed") = "Subsumes"
  BY DEF Reverse1
<1>6. entry = IF A = {} \/ B = {} THEN "No"
              ELSE IF A = B THEN "Indistinguishable"
              ELSE IF B \subseteq A THEN "Subsumes"
              ELSE IF A \subseteq B THEN "Subsumed" ELSE "No"
  <2>1. CASE a < b
    <3>1. ~(a > b) /\ ~(a = b)
      BY <1>0, <2>1
    <3>2. entry = Subsumption(results[a], results[b], SuiteTests)
      BY <1>2, <2>1, <3>1
    <3> QED BY <3>2, <1>3
  <2>2. CASE a > b
    <3>1. ~(a < b) /\ ~(a = b)
      BY <1>0, <2>2
    <3>2. entry = Reverse1(Subsumption(results[b], results[a], SuiteTests))
      BY <1>2, <2>2, <3>1
    <3> QED BY <3>2, <1>3, <1>4, <1>5
  <2>3. a < b \/ a > b
    BY <1>0
  <2> QED BY <2>1, <2>2, <2>3
<1>7. /\ entry = "Indistinguishable" <=> A # {} /\ B # {} /\ A = B
      /\ entry = "Subsumes" <=> A # {} /\ B # {} /\ B \subseteq A /\ A # B
      /\ entry = "Subsumed" <=> A # {} /\ B # {} /\ A \subseteq B /\ A # B
  BY <1>4, <1>6
<1> QED BY <1>7 DEF A, B, entry

\* More than one outcome, of which one is that the test did not detect.
LEMMA MoreThanOne ==
  ASSUME NEW S \in SUBSET TestOutcomes, "Undetected" \in S
  PROVE  Cardinality(S) > 1 <=> \E y \in S : y \in {"Detected", "TimedOut", "Crashed"}
<1>1. IsFiniteSet({"Undetected"}) /\ IsFiniteSet({"Undetected", "Detected"}) /\ IsFiniteSet({"Undetected", "Detected", "Crashed"})
  <2>1. IsFiniteSet({"Undetected"})
    BY FS_Singleton
  <2>2. IsFiniteSet({"Undetected"} \cup {"Detected"})
    BY <2>1, FS_AddElement
  <2>3. {"Undetected"} \cup {"Detected"} = {"Undetected", "Detected"} /\ {"Undetected", "Detected"} \cup {"Crashed"} = {"Undetected", "Detected", "Crashed"}
    OBVIOUS
  <2>4. IsFiniteSet({"Undetected", "Detected"} \cup {"Crashed"})
    BY <2>2, <2>3, FS_AddElement
  <2> QED BY <2>1, <2>2, <2>3, <2>4
<1>2. IsFiniteSet(TestOutcomes)
  <2>1. TestOutcomes = {"Undetected", "Detected", "Crashed"} \cup {"TimedOut"}
    BY DEF TestOutcomes
  <2> QED BY <1>1, <2>1, FS_AddElement
<1>3. IsFiniteSet(S) /\ Cardinality(S) \in Nat
  BY <1>2, FS_Subset, FS_CardinalityType
<1>4. Cardinality(S) # 0
  BY <1>3, FS_EmptySet
<1>5. Cardinality(S) = 1 <=> S = {"Undetected"}
  <2>1. Cardinality(S) = 1 <=> \E x : S = {x}
    BY <1>3, FS_Singleton
  <2> QED BY <2>1
<1>6. S = {"Undetected"} <=> ~\E y \in S : y \in {"Detected", "TimedOut", "Crashed"}
  BY DEF TestOutcomes
<1> QED BY <1>3, <1>4, <1>5, <1>6

\* The runs of a worker hold a right result of every mutation.
LEMMA RunsAreRight ==
  ASSUME WorkerInv, DOMAIN results = Muts
  PROVE  \A i \in DOMAIN Append(past, results) : \A m \in Muts : ResultOK(Append(past, results)[i][m], suite[m])
<1> DEFINE runs == Append(past, results)
<1>1. Listed(past) /\ ResultsOK(results, suite) /\ \A i \in DOMAIN past : ResultsOK(past[i], suite) /\ DOMAIN past[i] = Muts
  BY WorkerParts DEF ResultsInv
<1>2. /\ DOMAIN runs = DOMAIN past \cup {Len(past) + 1} /\ runs[Len(past) + 1] = results
      /\ \A i \in DOMAIN past : runs[i] = past[i]
  BY <1>1, ListedGrows
<1> HIDE DEF runs
<1>3. \A i \in DOMAIN runs : ResultsOK(runs[i], suite) /\ DOMAIN runs[i] = Muts
  BY <1>1, <1>2
<1> QED BY <1>3 DEF ResultsOK, runs

LEMMA FlakyIsTrue ==
  ASSUME WorkerInv, DOMAIN results = Muts
  PROVE  FlakyIsBoth
<1> DEFINE runs == Append(past, results)
<1> SUFFICES ASSUME NEW m \in Muts
             PROVE  LET Saw(i, x, set) == x \in DOMAIN runs[i][m].tests /\ runs[i][m].tests[x] \in set
                    IN  FlakyTests(runs, m) = {x \in SuiteTests :
                            \E i, j \in DOMAIN runs : Saw(i, x, {"Undetected"}) /\ Saw(j, x, {"Detected", "TimedOut", "Crashed"})}
  BY DEF FlakyIsBoth
<1>1. \A i \in DOMAIN runs : ResultOK(runs[i][m], suite[m])
  BY RunsAreRight
<1>2. suite[m] \subseteq SuiteTests
  BY DEF SuiteTests
<1> HIDE DEF runs
<1> DEFINE Ran(x) == {i \in DOMAIN runs : x \in DOMAIN runs[i][m].tests}
           Seen(x) == {runs[i][m].tests[x] : i \in Ran(x)}
           All == UNION {DOMAIN runs[i][m].tests : i \in DOMAIN runs}
<1>3. FlakyTests(runs, m) = {x \in All : Flaky(Seen(x))}
  BY DEF FlakyTests
<1>4. \A x \in All : x \in SuiteTests
  BY <1>1, <1>2 DEF ResultOK
<1>5. \A x : Seen(x) \subseteq TestOutcomes
  BY <1>1 DEF ResultOK
<1>6. \A x : Flaky(Seen(x)) <=> "Undetected" \in Seen(x) /\ \E y \in Seen(x) : y \in {"Detected", "TimedOut", "Crashed"}
  <2> SUFFICES ASSUME NEW x PROVE Flaky(Seen(x)) <=> "Undetected" \in Seen(x) /\ \E y \in Seen(x) : y \in {"Detected", "TimedOut", "Crashed"}
    OBVIOUS
  <2>1. Seen(x) \in SUBSET TestOutcomes
    BY <1>5
  <2> HIDE DEF Seen
  <2> QED BY <2>1, MoreThanOne DEF Flaky
<1>7. \A x : "Undetected" \in Seen(x) <=> \E i \in DOMAIN runs : x \in DOMAIN runs[i][m].tests /\ runs[i][m].tests[x] \in {"Undetected"}
  OBVIOUS
<1>8. \A x : (\E y \in Seen(x) : y \in {"Detected", "TimedOut", "Crashed"})
               <=> \E j \in DOMAIN runs : x \in DOMAIN runs[j][m].tests /\ runs[j][m].tests[x] \in {"Detected", "TimedOut", "Crashed"}
  OBVIOUS
<1>9. \A x : (\E i \in DOMAIN runs : x \in DOMAIN runs[i][m].tests) <=> x \in All
  OBVIOUS
<1> HIDE DEF Seen, All
<1> DEFINE Both(x) == \E i, j \in DOMAIN runs : /\ x \in DOMAIN runs[i][m].tests /\ runs[i][m].tests[x] \in {"Undetected"}
                                                /\ x \in DOMAIN runs[j][m].tests /\ runs[j][m].tests[x] \in {"Detected", "TimedOut", "Crashed"}
<1>10. \A x : Flaky(Seen(x)) <=> Both(x)
  BY <1>6, <1>7, <1>8
<1>11. \A x : Both(x) => x \in All
  BY <1>9
<1>12. FlakyTests(runs, m) = {x \in SuiteTests : Both(x)}
  BY <1>3, <1>4, <1>10, <1>11
<1> QED BY <1>12

\* What a worker that completes has reported agrees with what its tests did: the stream has a result of each test that started,
\* the subsumption matrix is inclusion between sets of detecting tests, and a flaky test detected once and not another time.
THEOREM ReportIsTrue == Spec => []ReportTrue
<1>1. IInv => ReportTrue
  <2> SUFFICES ASSUME IInv, wpc = "recorded" PROVE StreamWhole /\ SubsumptionIsInclusion /\ FlakyIsBoth
    BY DEF ReportTrue
  <2>1. WorkerInv
    BY DEF IInv
  <2>2. DOMAIN results = Muts
    BY <2>1, WorkerParts DEF ResultsInv
  <2> QED BY <2>1, <2>2, StreamIsWhole, SubsumptionIsTrue, FlakyIsTrue
<1> QED BY <1>1, Invariance, PTL

-----------------------------------------------------------------------------
(* The exit code of the run *)

\* What the log of a run that lost nothing says of the harnesses that ended.
LEMMA CodesOfEnded ==
  ASSUME IInv, CargoOver, ccode # NoCode, ~unlogged
  PROVE  read(log) = {IF ended[t] = SIGNALLED THEN PANIC ELSE ended[t] : t \in DOMAIN ended}
<1>1. BuildInv /\ LogInv /\ CertifiedInv
  BY DEF IInv
<1>2. harness = "none"
  BY <1>1 DEF BuildInv, CargoOver
<1>3. Codes(Recorded) = EndedCodes
  BY <1>1, <1>2 DEF LogInv, LogTells, NothingLost
<1>4. read(log) = {IF c = NoCode THEN PANIC ELSE c : c \in EndedCodes}
  BY <1>3, ReadCodes
<1>5. \A t \in DOMAIN ended : ended[t] # NoCode
  <2>1. \A t \in DOMAIN ended : ended[t] \in Exits1 \cup {SIGNALLED}
    BY <1>1 DEF CertifiedInv
  <2>2. NoCode \notin Exits1 \cup {SIGNALLED}
    BY DEF Exits1, NoCode, SIGNALLED, SUCCESS, MISSED, TIMED_OUT, BASELINE_FAILED, PANIC
  <2> QED BY <2>1, <2>2
<1>6. {IF c = NoCode THEN PANIC ELSE c : c \in EndedCodes} = {IF ended[t] = SIGNALLED THEN PANIC ELSE ended[t] : t \in DOMAIN ended}
  BY <1>5 DEF EndedCodes
<1> QED BY <1>4, <1>6

\* Where nothing was built, nothing ran.
LEMMA UnbuiltHasNoCodes ==
  ASSUME IInv, CargoOver, Unbuilt
  PROVE  read(log) = {}
<1>1. log = <<>>
  BY DEF IInv, BuildInv, CargoOver
<1>2. Recorded = <<>>
  BY <1>1, ReadNothing DEF Recorded
<1> QED BY <1>2, ReadCodes DEF Codes

\* Codes that a harness ended with count as they are, but for a signal.
Counted(t) == IF ended[t] = SIGNALLED THEN PANIC ELSE ended[t]

LEMMA CountedIs ==
  ASSUME CertifiedInv, NEW t \in DOMAIN ended
  PROVE  /\ Counted(t) \in HarnessCodes
         /\ AnalysisCompleted(Counted(t)) => Counted(t) = ended[t] /\ AnalysisCompleted(ended[t])
         /\ ended[t] # SIGNALLED => Counted(t) = ended[t]
<1>1. ended[t] \in Exits1 \cup {SIGNALLED}
  BY DEF CertifiedInv
<1>2. Exits1 = HarnessCodes /\ PANIC \in HarnessCodes /\ ~AnalysisCompleted(PANIC)
  BY DEF HarnessCodes, AnalysisCompleted, Exits1, SUCCESS, MISSED, TIMED_OUT, BASELINE_FAILED, PANIC
<1> QED BY <1>1, <1>2 DEF Counted

LEMMA CodeCases ==
  ASSUME IInv, cargo = "reported"
  PROVE  code = RunExitCode(marker.names, read(log)) /\ ccode \in {NoCode, SUCCESS, 101} /\ CargoOver
BY DEF IInv, CodeInv, CargoOver

\* The code of a run, by what Cargo exited with.
LEMMA CodeIs ==
  ASSUME IInv, cargo = "reported"
  PROVE  \/ marker.names # {} /\ code = BASELINE_FAILED
         \/ marker.names = {} /\ ccode = NoCode /\ code = PANIC
         \/ marker.names = {} /\ ccode = SUCCESS /\ code = SUCCESS
         \/ marker.names = {} /\ ccode = 101 /\ read(log) # {} /\ code = IF worst(read(log)) = SUCCESS THEN PANIC ELSE worst(read(log))
         \/ marker.names = {} /\ ccode = 101 /\ read(log) = {} /\ code = BASELINE_FAILED
<1>1. \A names, codes : ccode \in {NoCode, SUCCESS, 101} =>
         \/ names # {} /\ RunExitCode(names, codes) = BASELINE_FAILED
         \/ names = {} /\ ccode = NoCode /\ RunExitCode(names, codes) = PANIC
         \/ names = {} /\ ccode = SUCCESS /\ RunExitCode(names, codes) = SUCCESS
         \/ names = {} /\ ccode = 101 /\ codes # {} /\ RunExitCode(names, codes) = IF worst(codes) = SUCCESS THEN PANIC ELSE worst(codes)
         \/ names = {} /\ ccode = 101 /\ codes = {} /\ RunExitCode(names, codes) = BASELINE_FAILED
  BY DEF RunExitCode, NoCode, SUCCESS
<1> QED BY <1>1, CodeCases

\* Every harness completed, and the worst of their codes is that of the run.
LEMMA AllCertified ==
  ASSUME IInv, DOMAIN ended = Targets, \A t \in Targets : AnalysisCompleted(ended[t]), ~Unbuilt,
         NEW c, c = worst({ended[t] : t \in Targets})
  PROVE  /\ DOMAIN certified = Targets /\ ~Failing
         /\ \A t \in Targets : certified[t].judged = DOMAIN opts.suites[t] /\ <<t, "evaluated">> \in summaries
         /\ c = IF opts.flakes > 0 THEN SUCCESS ELSE worst({certified[t].code : t \in Targets})
<1>1. CertifiedInv /\ BuildInv
  BY DEF IInv
<1>2. ~Failing
  BY <1>1, FailingIsUnbuilt
<1>3. /\ DOMAIN certified = Targets
      /\ \A t \in Targets : /\ certified[t].judged = DOMAIN opts.suites[t] /\ <<t, "evaluated">> \in summaries
                            /\ ended[t] = IF opts.flakes > 0 THEN SUCCESS ELSE certified[t].code
  BY <1>1 DEF CertifiedInv
<1>4. CASE opts.flakes > 0
  <2>1. {ended[t] : t \in Targets} \subseteq {SUCCESS}
    BY <1>3, <1>4
  <2>2. CASE {ended[t] : t \in Targets} = {}
    BY <2>2, <1>2, <1>3, <1>4 DEF worst
  <2>3. CASE {ended[t] : t \in Targets} = {SUCCESS}
    <3>1. {SUCCESS} \in SUBSET HarnessCodes /\ {SUCCESS} # {}
      BY DEF HarnessCodes, SUCCESS
    <3>2. worst({SUCCESS}) = SUCCESS
      BY <3>1, WorstOf
    <3> QED BY <2>3, <3>2, <1>2, <1>3, <1>4
  <2> QED BY <2>1, <2>2, <2>3
<1>5. CASE ~(opts.flakes > 0)
  <2>1. \A t \in Targets : ended[t] = certified[t].code
    BY <1>3, <1>5
  <2>2. {ended[t] : t \in Targets} = {certified[t].code : t \in Targets}
    BY <2>1
  <2> QED BY <2>2, <1>2, <1>3, <1>5
<1> QED BY <1>4, <1>5

\* A run that exits 0, or with a code that says its analysis completed and lost nothing, has evaluated all.
LEMMA CodeOfAll ==
  ASSUME IInv, cargo = "reported", job = "run", code = SUCCESS \/ (AnalysisCompleted(code) /\ ~unlogged)
  PROVE  /\ DOMAIN ended = Targets /\ ~Unbuilt /\ code = worst({ended[t] : t \in Targets})
         /\ \A t \in Targets : AnalysisCompleted(ended[t])
<1>1. CodeInv /\ BuildInv /\ CertifiedInv /\ CargoOver
  BY CodeCases DEF IInv
<1>2. AnalysisCompleted(code) /\ ~AnalysisCompleted(PANIC) /\ ~AnalysisCompleted(BASELINE_FAILED) /\ PANIC # SUCCESS /\ BASELINE_FAILED # SUCCESS
  BY DEF AnalysisCompleted, SUCCESS, MISSED, TIMED_OUT, PANIC, BASELINE_FAILED
<1>3. \/ ccode = SUCCESS /\ code = SUCCESS
      \/ ccode = 101 /\ read(log) # {} /\ code = worst(read(log)) /\ code # SUCCESS
  BY <1>2, CodeIs
<1>4. CASE ccode = SUCCESS /\ code = SUCCESS
  <2>1. ~Unbuilt /\ DOMAIN ended = Targets /\ \A t \in Targets : ended[t] = SUCCESS
    BY <1>1, <1>4 DEF CodeInv
  <2>2. {ended[t] : t \in Targets} \subseteq {SUCCESS}
    BY <2>1
  <2>3. {SUCCESS} \in SUBSET HarnessCodes /\ {SUCCESS} # {}
    BY DEF HarnessCodes, SUCCESS
  <2>4. worst({SUCCESS}) = SUCCESS /\ worst({}) = SUCCESS
    BY <2>3, WorstOf DEF worst
  <2>5. {ended[t] : t \in Targets} = {} \/ {ended[t] : t \in Targets} = {SUCCESS}
    BY <2>2
  <2>6. code = worst({ended[t] : t \in Targets})
    BY <2>4, <2>5, <1>4
  <2>7. AnalysisCompleted(SUCCESS)
    BY DEF AnalysisCompleted
  <2> QED BY <2>1, <2>6, <2>7
<1>5. CASE ccode = 101 /\ read(log) # {} /\ code = worst(read(log)) /\ code # SUCCESS
  <2>1. ~unlogged /\ ccode # NoCode
    BY <1>5 DEF NoCode
  <2>2. ~Unbuilt
    BY <1>1, <1>5, UnbuiltHasNoCodes
  <2>3. DOMAIN ended = Targets
    BY <1>1, <1>5, <2>2 DEF CodeInv
  <2>4. read(log) = {Counted(t) : t \in Targets}
    BY <1>1, <2>1, <2>3, CodesOfEnded DEF Counted
  <2>5. \A t \in Targets : Counted(t) \in HarnessCodes
    BY <1>1, <2>3, CountedIs
  <2>6. \A c \in read(log) : AnalysisCompleted(c)
    <3>1. read(log) \in SUBSET HarnessCodes
      BY <2>4, <2>5
    <3> QED BY <3>1, <1>2, <1>5, WorstCompleted
  <2>7. \A t \in Targets : AnalysisCompleted(Counted(t))
    BY <2>4, <2>6
  <2>8. \A t \in Targets : Counted(t) = ended[t] /\ AnalysisCompleted(ended[t])
    BY <1>1, <2>3, <2>7, CountedIs
  <2>9. read(log) = {ended[t] : t \in Targets}
    BY <2>4, <2>8
  <2> QED BY <2>2, <2>3, <2>8, <2>9, <1>5
<1> QED BY <1>3, <1>4, <1>5

\* A run whose harnesses all completed, of which nothing was lost, says so.
LEMMA AllIsTold ==
  ASSUME IInv, cargo = "reported", job = "run", ccode # NoCode, ~unlogged, DOMAIN certified = Targets, \A t \in Targets : ended[t] # SIGNALLED
  PROVE  AnalysisCompleted(code)
<1>1. CodeInv /\ BuildInv /\ CertifiedInv /\ CargoOver
  BY CodeCases DEF IInv
<1>2. ~Unbuilt
  <2>1. Unbuilt => Targets # {}
    BY DEF Unbuilt
  <2> QED BY <1>1, <2>1 DEF CertifiedInv
<1>3. marker.names = {}
  <2>1. \A t \in Targets : build[t] = "built"
    BY <1>2 DEF Unbuilt
  <2>2. cargo # "removing"
    OBVIOUS
  <2> QED BY <1>1, <2>1, <2>2 DEF BuildInv
<1>4. CASE ccode = SUCCESS
  <2>1. code = SUCCESS
    BY <1>3, <1>4, CodeIs DEF SUCCESS, NoCode
  <2> QED BY <2>1 DEF AnalysisCompleted
<1>5. CASE ccode = 101
  <2>1. DOMAIN ended = Targets
    BY <1>1, <1>2, <1>5 DEF CodeInv
  <2>2. PICK s \in Targets : ended[s] # SUCCESS
    BY <1>1, <1>2, <1>5 DEF CodeInv
  <2>3. \A t \in Targets : AnalysisCompleted(ended[t]) /\ Counted(t) = ended[t] /\ Counted(t) \in HarnessCodes
    BY <1>1, <2>1, CountedIs DEF CertifiedInv
  <2>4. read(log) = {Counted(t) : t \in Targets}
    BY <1>1, <1>5, <2>1, CodesOfEnded DEF Counted
  <2>5. read(log) = {ended[t] : t \in Targets}
    BY <2>3, <2>4
  <2>6. read(log) \in SUBSET HarnessCodes /\ ended[s] \in read(log)
    BY <2>3, <2>5
  <2>7. read(log) # {}
    BY <2>6
  <2>8. worst(read(log)) # SUCCESS /\ AnalysisCompleted(worst(read(log)))
    <3>1. \A c \in read(log) : AnalysisCompleted(c)
      BY <2>3, <2>5
    <3> QED BY <3>1, <2>2, <2>6, <2>7, WorstCompleted
  <2>9. code = worst(read(log))
    BY <1>3, <1>5, <2>7, <2>8, CodeIs DEF SUCCESS, NoCode
  <2> QED BY <2>8, <2>9
<1> QED BY <1>1, <1>4, <1>5 DEF CodeInv

LEMMA FailureIsTold ==
  ASSUME IInv, cargo = "reported", Failing, ccode # NoCode
  PROVE  code = BASELINE_FAILED
<1>1. CodeInv /\ BuildInv /\ CargoOver
  BY CodeCases DEF IInv
<1>2. ccode = 101 /\ Unbuilt
  BY <1>1, FailingIsUnbuilt DEF CodeInv
<1>3. read(log) = {}
  BY <1>1, <1>2, UnbuiltHasNoCodes
<1> QED BY <1>2, <1>3, CodeIs DEF SUCCESS, NoCode

\* The exit code of the run says what happened (README, "Exit codes"), wherever a build, a harness or Cargo failed, and whatever
\* rows of the logs were lost.
THEOREM RunCodeTrue == Spec => []RunCodeIsTrue
<1>1. IInv => RunCodeIsTrue
  <2> SUFFICES ASSUME IInv, cargo = "reported"
               PROVE  /\ (job = "run" /\ (code = SUCCESS \/ (AnalysisCompleted(code) /\ ~unlogged))) =>
                            /\ DOMAIN certified = Targets /\ ~Failing
                            /\ \A t \in Targets : certified[t].judged = DOMAIN opts.suites[t] /\ <<t, "evaluated">> \in summaries
                            /\ code = IF opts.flakes > 0 THEN SUCCESS ELSE worst({certified[t].code : t \in Targets})
                      /\ (job = "run" /\ ccode # NoCode /\ ~unlogged /\ DOMAIN certified = Targets /\ \A t \in Targets : ended[t] # SIGNALLED)
                            => AnalysisCompleted(code)
                      /\ (Failing /\ ccode # NoCode) => code = BASELINE_FAILED
                      /\ ~unlogged => marker.names = culprits
    BY DEF RunCodeIsTrue
  <2>1. (job = "run" /\ (code = SUCCESS \/ (AnalysisCompleted(code) /\ ~unlogged))) =>
            /\ DOMAIN certified = Targets /\ ~Failing
            /\ \A t \in Targets : certified[t].judged = DOMAIN opts.suites[t] /\ <<t, "evaluated">> \in summaries
            /\ code = IF opts.flakes > 0 THEN SUCCESS ELSE worst({certified[t].code : t \in Targets})
    BY CodeOfAll, AllCertified
  <2>2. (job = "run" /\ ccode # NoCode /\ ~unlogged /\ DOMAIN certified = Targets /\ \A t \in Targets : ended[t] # SIGNALLED)
            => AnalysisCompleted(code)
    BY AllIsTold
  <2>3. (Failing /\ ccode # NoCode) => code = BASELINE_FAILED
    BY FailureIsTold
  <2>4. ~unlogged => marker.names = culprits
    BY DEF IInv, BuildInv
  <2> QED BY <2>1, <2>2, <2>3, <2>4
<1> QED BY <1>1, Invariance, PTL
=============================================================================
