----------------------------- MODULE QuizAttempt -----------------------------
(***************************************************************************)
(* One attempt of a standalone test: src/internal/handlers/tests.go (the   *)
(* attempt's endpoints), exam.go (exam mode and finishing) and the save of *)
(* handlers.go.  Every endpoint loads the whole quiz row, changes its copy *)
(* and writes the whole row back, with no version check; the tutor keeps   *)
(* its copy for as long as the provider takes to answer.  Finishing is     *)
(* several writes: the row, the leaderboard, the telemetry counters and    *)
(* the notes of the test.                                                  *)
(*                                                                         *)
(* Confidence, flags, self-assessments and the tutor's threads travel in   *)
(* the same row and are left out: no handler decides by them.              *)
(***************************************************************************)
EXTENDS Naturals, FiniteSets

CONSTANTS
    N,               \* questions of the attempt
    Given,           \* how an answer may turn out: right, wrong
    Kinds,           \* attempts considered, see kind
    Tabs,            \* the learner's requests that may be served at the same time
    Faulty,          \* writes that may fail: an error, or the browser went away
    MaxCompletions,  \* bound: completions are counted up to this many
    None             \* no leaderboard entry, no notes

Writes == {"save", "record", "telemetry", "observe"}

ASSUME QuizAttemptAssumption ==
    /\ N \in Nat \ {0}
    /\ Given \subseteq {"right", "wrong"} /\ Given # {}
    /\ Kinds \subseteq [exam : BOOLEAN, ranked : BOOLEAN, test : BOOLEAN, solo : BOOLEAN]
    /\ Faulty \subseteq Writes
    /\ MaxCompletions \in Nat \ {0}

Questions == 1..N
Marks     == {"blank"} \cup Given
Sheets    == [Questions -> Marks]
Row       == [phase : {"quiz", "results"}, current : Questions, answers : Sheets,
              finished : BOOLEAN, score : 0..N]

VARIABLES
    kind,         \* [exam, ranked, test, solo]: exam mode, ranked mode, owned by a test;
                  \* its learner sends one request at a time
    row,          \* the row of table quizzes
    expired,      \* the exam's deadline has passed
    op,           \* [Tabs -> [pc, ask, s]]: the request a tab waits for, and its copy
    board,        \* the sheet its ranked_results row was made from, or None
    completions,  \* quiz_completed events counted for the attempt
    notes         \* the sheet the test's observations were made from, or None

vars == <<kind, row, expired, op, board, completions, notes>>

\* The endpoints, as testMutationForAttempt and its siblings name them.
Mutations == {"answer", "reanswer", "next", "goto", "flag"}
Asks      == Mutations \cup {"result", "page", "diagnostic", "tutor"}
PCs       == {"idle", "loaded", "asking", "save", "finish", "record", "telemetry", "observe"}

TypeOK ==
    /\ kind \in Kinds
    /\ row \in Row
    /\ expired \in BOOLEAN
    /\ op \in [Tabs -> [pc : PCs, ask : Asks, s : Row]]
    /\ board \in Sheets \cup {None}
    /\ completions \in Nat
    /\ notes \in Sheets \cup {None}

Blanks(a)  == {i \in Questions : a[i] = "blank"}
ScoreOf(a) == Cardinality({i \in Questions : a[i] = "right"})

Sheet(ph, cur, a, fin) ==
    [phase |-> ph, current |-> cur, answers |-> a, finished |-> fin,
     score |-> IF ph = "results" THEN ScoreOf(a) ELSE 0]

\* The row as the generation job inserts it.
Fresh == Sheet("quiz", 1, [i \in Questions |-> "blank"], FALSE)

NoRequest == [pc |-> "idle", ask |-> "page", s |-> Fresh]

Init ==
    /\ kind \in Kinds
    /\ row = Fresh
    /\ expired = FALSE
    /\ op = [t \in Tabs |-> NoRequest]
    /\ board = None
    /\ completions = 0
    /\ notes = None

-----------------------------------------------------------------------------
(* A request: it loads, decides on its copy, and saves *)

Goto(t, l, s) == op' = [op EXCEPT ![t] = [pc |-> l, ask |-> op[t].ask, s |-> s]]
Leave(t)      == op' = [op EXCEPT ![t] = NoRequest]
Only(t, l)    == op[t].pc = l

\* QuizRepo.Get: the row as it is now.
QuizGet == [phase |-> row.phase, current |-> row.current, answers |-> row.answers,
            finished |-> row.finished, score |-> row.score]

\* loadTestAttempt or loadStandaloneQuiz.
Load(t, a) ==
    /\ Only(t, "idle")
    /\ kind.solo => \A v \in Tabs : Only(v, "idle")
    /\ op' = [op EXCEPT ![t] = [pc |-> "loaded", ask |-> a, s |-> QuizGet]]
    /\ UNCHANGED <<kind, row, expired, board, completions, notes>>

examExpired == kind.exam /\ expired

\* nextExamIndex: the next blank after from, wrapping round; from if there is none.
Least(S) == CHOOSE i \in S : \A j \in S : i <= j
nextExamIndex(a, from) ==
    LET later == {i \in Blanks(a) : i > from} IN
    IF later # {} THEN Least(later) ELSE IF Blanks(a) # {} THEN Least(Blanks(a)) ELSE from

Marked(s, i, m) == [s.answers EXCEPT ![i] = m]

\* examMutation: what it may save.  Navigation is free, and reanswer and next do
\* not exist.
ExamEdits(s, ask) ==
    CASE ask \in {"goto", "flag"} ->
           {Sheet(s.phase, i, s.answers, s.finished) : i \in Questions}
      [] ask = "answer" ->
           {Sheet(s.phase, nextExamIndex(Marked(s, i, m), i), Marked(s, i, m), s.finished) :
              i \in Questions, m \in Given}
      [] ask \in {"reanswer", "next"} -> {}

\* The practice path is linear: only the current question is answered, and an
\* action that is neither answer nor reanswer, goto and flag included, moves on.
PracticeEdits(s, ask) ==
    LET i == s.current IN
    CASE ask = "answer" -> {Sheet(s.phase, i, Marked(s, i, m), s.finished) : m \in Given}
      [] ask = "reanswer" -> {Sheet(s.phase, i, Marked(s, i, "blank"), s.finished)}
      [] ask \in {"next", "goto", "flag"} ->
           IF i < N /\ s.answers[i] # "blank"
           THEN {Sheet(s.phase, i + 1, s.answers, s.finished)} ELSE {}

Edits(s, ask) == IF kind.exam THEN ExamEdits(s, ask) ELSE PracticeEdits(s, ask)

Requested == UNCHANGED <<kind, row, expired, board, completions, notes>>

\* Mutant: the phase of the attempt is not looked at.
MutateAnyPhase(t) ==
    LET s == op[t].s IN
    /\ Only(t, "loaded") /\ op[t].ask \in Mutations
    /\ \/ Leave(t)
       \/ examExpired /\ Goto(t, "finish", s)
       \/ ~examExpired /\ \E e \in Edits(s, op[t].ask) : Goto(t, "save", e)
    /\ Requested

\* testMutationForAttempt.  A malformed request is refused at any point.
Mutate(t) ==
    LET s == op[t].s IN
    /\ Only(t, "loaded") /\ op[t].ask \in Mutations
    /\ \/ Leave(t)
       \/ s.phase = "quiz" /\ examExpired /\ Goto(t, "finish", s)
       \/ /\ s.phase = "quiz" /\ ~examExpired
          /\ \E e \in Edits(s, op[t].ask) : Goto(t, "save", e)
    /\ Requested

\* Mutant: the result of a practice attempt is handed out with blanks.
ResultWithBlanks(t) ==
    LET s == op[t].s IN
    /\ Only(t, "loaded") /\ op[t].ask = "result"
    /\ IF s.phase = "quiz" THEN Goto(t, "finish", s) ELSE Leave(t)
    /\ Requested

\* testResultForAttempt: exam attempts may be handed in with blanks.
Result(t) ==
    LET s == op[t].s IN
    /\ Only(t, "loaded") /\ op[t].ask = "result"
    /\ \/ /\ s.phase = "quiz" /\ (kind.exam \/ Blanks(s.answers) = {})
          /\ Goto(t, "finish", s)
       \/ /\ s.phase # "quiz" \/ (~kind.exam /\ Blanks(s.answers) # {})
          /\ Leave(t)
    /\ Requested

\* renderTestAttempt: an expired attempt is finished before it is shown.
Page(t) ==
    LET s == op[t].s IN
    /\ Only(t, "loaded") /\ op[t].ask = "page"
    /\ IF s.phase = "quiz" /\ examExpired THEN Goto(t, "finish", s) ELSE Leave(t)
    /\ Requested

\* testDiagnosticForAttempt: in any phase, and without looking at the deadline.
Diagnostic(t) ==
    /\ Only(t, "loaded") /\ op[t].ask = "diagnostic"
    /\ Goto(t, "save", op[t].s) \/ Leave(t)
    /\ Requested

\* testTutorForAttempt takes the user's AI slot, so one tutor call runs at a time;
\* a busy user or an exhausted quota refuses.
Ask(t) ==
    /\ Only(t, "loaded") /\ op[t].ask = "tutor"
    /\ \/ /\ \A v \in Tabs : ~(op[v].ask = "tutor" /\ op[v].pc \in {"asking", "save"})
          /\ Goto(t, "asking", op[t].s)
       \/ Leave(t)
    /\ Requested

\* The provider answers within 90 seconds, or not.
Reply(t) ==
    /\ Only(t, "asking")
    /\ Goto(t, "save", op[t].s) \/ Leave(t)
    /\ Requested

-----------------------------------------------------------------------------
(* The writes *)

\* persistQuizState with phase ph: the whole row is written from the copy; results
\* grade it and date it unless it is dated.
Persisted(s, ph) == Sheet(ph, s.current, s.answers, s.finished \/ ph = "results")

\* Mutant: a request writes only the column it changed.
SaveChangedColumn(t) ==
    LET s == op[t].s IN
    /\ Only(t, "save")
    /\ row' = IF op[t].ask \in {"next", "goto", "flag"}
              THEN Sheet(row.phase, s.current, row.answers, row.finished)
              ELSE Sheet(row.phase, row.current, s.answers, row.finished)
    /\ IF op[t].ask = "diagnostic" /\ kind.test THEN Goto(t, "observe", s) ELSE Leave(t)
    /\ UNCHANGED <<kind, expired, board, completions, notes>>

\* persistQuiz, whose error is dropped: the learner is answered all the same.
Save(t) ==
    LET s == op[t].s IN
    /\ Only(t, "save")
    /\ row' = Persisted(s, s.phase) \/ ("save" \in Faulty /\ UNCHANGED row)
    /\ IF op[t].ask = "diagnostic" /\ kind.test THEN Goto(t, "observe", s) ELSE Leave(t)
    /\ UNCHANGED <<kind, expired, board, completions, notes>>

AfterFinish == IF kind.ranked THEN "record" ELSE "telemetry"

\* Mutant: the error of the save is dropped, as persistQuiz does.
FinishQuizUnsaved(t) ==
    LET s == op[t].s IN
    /\ Only(t, "finish")
    /\ row' = Persisted(s, "results") \/ ("save" \in Faulty /\ UNCHANGED row)
    /\ IF s.finished THEN Leave(t) ELSE Goto(t, AfterFinish, Persisted(s, "results"))
    /\ UNCHANGED <<kind, expired, board, completions, notes>>

\* finishQuiz up to its side effects, which a copy that was finished when it was
\* loaded skips.  An error leaves the rest undone.
FinishQuiz(t) ==
    LET s == op[t].s IN
    /\ Only(t, "finish")
    /\ \/ /\ row' = Persisted(s, "results")
          /\ IF s.finished THEN Leave(t) ELSE Goto(t, AfterFinish, Persisted(s, "results"))
       \/ "save" \in Faulty /\ Leave(t) /\ UNCHANGED row
    /\ UNCHANGED <<kind, expired, board, completions, notes>>

\* LeaderboardRepo.Record: INSERT OR IGNORE, one row per quiz.
Record(t) ==
    /\ Only(t, "record")
    /\ \/ /\ board' = IF board = None THEN op[t].s.answers ELSE board
          /\ Goto(t, "telemetry", op[t].s)
       \/ "record" \in Faulty /\ Leave(t) /\ UNCHANGED board
    /\ UNCHANGED <<kind, row, expired, completions, notes>>

\* recordTelemetry, whose error is only logged.
Telemetry(t) ==
    /\ Only(t, "telemetry")
    /\ \/ completions' = IF completions < MaxCompletions THEN completions + 1 ELSE completions
       \/ "telemetry" \in Faulty /\ UNCHANGED completions
    /\ IF kind.test THEN Goto(t, "observe", op[t].s) ELSE Leave(t)
    /\ UNCHANGED <<kind, row, expired, board, notes>>

\* UpdateObservations, whose error is dropped.
Observe(t) ==
    /\ Only(t, "observe")
    /\ notes' = op[t].s.answers \/ ("observe" \in Faulty /\ UNCHANGED notes)
    /\ Leave(t)
    /\ UNCHANGED <<kind, row, expired, board, completions>>

-----------------------------------------------------------------------------
\* The deadline passes whatever the requests are doing.
Expire ==
    /\ kind.exam /\ ~expired
    /\ expired' = TRUE
    /\ UNCHANGED <<kind, row, op, board, completions, notes>>

\* The process dies and comes back; the requests in flight are gone.
Crash ==
    /\ \E t \in Tabs : op[t].pc # "idle"
    /\ op' = [t \in Tabs |-> NoRequest]
    /\ UNCHANGED <<kind, row, expired, board, completions, notes>>

Handle(t) ==
    \/ Mutate(t) \/ Result(t) \/ Page(t) \/ Diagnostic(t) \/ Ask(t) \/ Reply(t)
    \/ Save(t) \/ FinishQuiz(t) \/ Record(t) \/ Telemetry(t) \/ Observe(t)

Next ==
    \/ \E t \in Tabs : Handle(t) \/ \E a \in Asks : Load(t, a)
    \/ Expire
    \/ Crash

Spec == Init /\ [][Next]_vars

-----------------------------------------------------------------------------
(* Properties *)

\* What an attempt of kind k may be finished with: an exam with anything, the
\* others without a blank.
Complete(k, a) == k.exam \/ Blanks(a) = {}

\* A row some handler could have left for an attempt of kind k: results exactly when
\* dated; on the practice path nothing before the current question is blank, and
\* nothing at all once it is finished.
Consistent(k, s) ==
    /\ s.phase = "results" <=> s.finished
    /\ ~k.exam => \A i \in Questions : i < s.current => s.answers[i] # "blank"
    /\ s.finished => Complete(k, s.answers)

\* However requests overlap, the row is never a mixture of two of them: a save
\* that lost a race undoes the other one as a whole (persistQuizState writes
\* every column).
OneSheet == Consistent(kind, row)

\* Whatever overlaps, fails or crashes, a public ranked result comes from a ranked
\* attempt and from a sheet that was complete, or handed in as an exam.
RankedSheetComplete == board # None => kind.ranked /\ Complete(kind, board)

\* "RankedResult is an immutable snapshot" (db/analytics.go:256): once recorded it
\* stays, even where overlapping requests finish the attempt twice with different
\* answers.
RankedResultKept == [][board # None => board' = board]_vars

\* Where requests do not overlap, a finished attempt stays finished with the answers
\* it was graded by.  A copy loaded before the end would undo it.
FinishedForGood ==
    [][kind.solo /\ row.finished => row'.finished /\ row'.answers = row.answers]_vars

\* The "one-time finish side effects" (exam.go:38) happen once.
CompletedOnce == completions <= 1

\* They do where requests do not overlap, failed saves and crashes included.
CompletedOnceAlone == kind.solo => CompletedOnce

\* Where requests do not overlap, the public result is the result the learner sees.
RankedResultAgrees ==
    kind.solo /\ board # None => row.finished /\ board = row.answers

=============================================================================
