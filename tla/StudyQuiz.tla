------------------------------ MODULE StudyQuiz ------------------------------
(***************************************************************************)
(* The quiz of one study: the quiz endpoints and the generation job of     *)
(* src/internal/handlers/handlers.go, the page of studies.go and the       *)
(* finishing of exam.go.                                                   *)
(*                                                                         *)
(* Where the learner stands is kept twice, in the phase of the study row   *)
(* and in the phase and the date of its latest quiz row.  They are read by *)
(* two statements and written by two, by requests and by the job that      *)
(* replaces the quiz, so this module is about the two rows; what a sheet   *)
(* of answers goes through is the subject of QuizAttempt, and here a sheet *)
(* is only full or not.                                                    *)
(***************************************************************************)
EXTENDS Naturals, FiniteSetsExt

CONSTANTS
    Tabs,           \* the learner's requests that may be served at the same time
    MaxQuizzes,     \* bound: quizzes generated for the study
    MaxCounted,     \* bound: completions of a quiz are counted up to this many
    Settings        \* settings considered, see setting

ASSUME StudyQuizAssumption ==
    /\ MaxQuizzes \in Nat \ {0} /\ MaxCounted \in Nat \ {0}
    /\ Settings \subseteq [faulty : SUBSET {"read", "quiz", "study", "delete", "record",
                                            "telemetry", "crash"}, patient : BOOLEAN]

VARIABLES
    setting,  \* [faulty, patient]: the statements that may fail, and "crash"; whether the
              \* learner sends nothing while a quiz is generated, as the waiting page does
    study,    \* studies.phase; "gone" once the study is deleted
    quiz,     \* [Ids -> Row]: the study's rows of table quizzes
    minted,   \* the last id AUTOINCREMENT handed out
    expired,  \* ids of exams whose deadline has passed
    job,      \* [pc, exam]: the work of QuizStart's job
    op,       \* [Tabs -> [pc, ask, s]]: a request and its session
    counted   \* [Ids -> Nat]: quiz_completed events of a quiz

vars == <<setting, study, quiz, minted, expired, job, op, counted>>

Ids     == 1..MaxQuizzes
Phases  == {"study", "quiz", "results"}
Row     == [phase : {"none", "quiz", "results"}, full : BOOLEAN, finished : BOOLEAN,
            exam : BOOLEAN]
Session == [phase : Phases \cup {"gone"}, id : 0..MaxQuizzes, full : BOOLEAN,
            finished : BOOLEAN, exam : BOOLEAN]
NoRow   == [phase |-> "none", full |-> FALSE, finished |-> FALSE, exam |-> FALSE]

Mutations == {"answer", "reanswer", "next", "goto"}
Asks      == Mutations \cup {"result", "diagnostic", "page", "reset"}
OpPCs     == {"idle", "latest", "loaded", "save", "finish", "count", "turn", "clear"}
JobPCs    == {"idle", "generate", "clear", "turn", "insert"}

TypeOK ==
    /\ setting \in Settings
    /\ study \in Phases \cup {"gone"}
    /\ quiz \in [Ids -> Row]
    /\ minted \in 0..MaxQuizzes
    /\ expired \subseteq Ids
    /\ job \in [pc : JobPCs, exam : BOOLEAN]
    /\ op \in [Tabs -> [pc : OpPCs, ask : Asks, s : Session]]
    /\ counted \in [Ids -> Nat]

Rows == {i \in Ids : quiz[i].phase # "none"}

NoQuiz(ph) == [phase |-> ph, id |-> 0, full |-> FALSE, finished |-> FALSE, exam |-> FALSE]
NoRequest  == [pc |-> "idle", ask |-> "page", s |-> NoQuiz("study")]
NoJob      == [pc |-> "idle", exam |-> FALSE]

Init ==
    /\ setting \in Settings
    /\ study = "study"
    /\ quiz = [i \in Ids |-> NoRow]
    /\ minted = 0
    /\ expired = {}
    /\ job = NoJob
    /\ op = [t \in Tabs |-> NoRequest]
    /\ counted = [i \in Ids |-> 0]

-----------------------------------------------------------------------------
(* A request reads the two rows *)

Goto(t, l, s) == op' = [op EXCEPT ![t] = [pc |-> l, ask |-> op[t].ask, s |-> s]]
Leave(t)      == op' = [op EXCEPT ![t] = NoRequest]
Asked(t, l, a) == op[t].pc = l /\ op[t].ask \in a

\* StudyRepo.Get: the row as it is now, unless it is gone.
StudyGet == {study} \ {"gone"}

\* loadStudy: the study row, and where its phase asks for it the latest quiz next.
Load(t, a) ==
    /\ op[t].pc = "idle" /\ StudyGet # {}
    /\ setting.patient => job.pc = "idle"
    /\ op' = [op EXCEPT ![t] = [pc |-> IF study = "study" THEN "loaded" ELSE "latest",
                                ask |-> a, s |-> NoQuiz(study)]]
    /\ UNCHANGED <<setting, study, quiz, minted, expired, job, counted>>

\* GetLatestByStudy, whose error is dropped: the session is then one without a quiz.
Latest(t) ==
    /\ op[t].pc = "latest"
    /\ \/ (Rows = {} \/ "read" \in setting.faulty) /\ Goto(t, "loaded", op[t].s)
       \/ /\ Rows # {}
          /\ LET i == Max(Rows) IN
             Goto(t, "loaded", [phase |-> op[t].s.phase, id |-> i, full |-> quiz[i].full,
                                finished |-> quiz[i].finished, exam |-> quiz[i].exam])
    /\ UNCHANGED <<setting, study, quiz, minted, expired, job, counted>>

-----------------------------------------------------------------------------
(* and decides on its session *)

TimedOut(s) == s.exam /\ s.id \in expired
InPhase(s, ph) == [s EXCEPT !.phase = ph]
WithFull(s, f) == [s EXCEPT !.full = f]

\* QuizAnswer may fill the sheet, and QuizReanswer empties a place of it, never in an exam.
AnswerEdits(s)   == {s, WithFull(s, TRUE)}
ReanswerEdits(s) == IF s.exam THEN {} ELSE {WithFull(s, FALSE)}

\* QuizNext moves on, not in an exam; QuizGoto and QuizFlag only in one.
NextEdits(s) == IF s.exam THEN {} ELSE {s}
ExamEdits(s) == IF s.exam THEN {s} ELSE {}

\* What a mutation makes of the session.
Edits(s, ask) ==
    CASE ask = "answer"   -> AnswerEdits(s)
      [] ask = "reanswer" -> ReanswerEdits(s)
      [] ask = "next"     -> NextEdits(s)
      [] ask = "goto"     -> ExamEdits(s)

Decided == UNCHANGED <<setting, study, quiz, minted, expired, job, counted>>

\* QuizAnswer, QuizReanswer, QuizNext, QuizGoto, QuizFlag: only in phase quiz, and
\* an expired exam is finished instead.  A malformed request is refused.
Mutate(t) ==
    LET s == op[t].s
        late == s.phase = "quiz" /\ TimedOut(s) /\ op[t].ask \in {"answer", "goto"}
    IN
    /\ Asked(t, "loaded", Mutations)
    /\ \/ late /\ Goto(t, "finish", InPhase(s, "results"))
       \/ ~late /\ Leave(t)
       \/ /\ ~late /\ s.phase = "quiz" /\ s.id # 0
          /\ \E e \in Edits(s, op[t].ask) : Goto(t, "save", e)
    /\ Decided

\* QuizDiagnostic: in any phase that has a quiz.
Diagnostic(t) ==
    /\ Asked(t, "loaded", {"diagnostic"})
    /\ Leave(t) \/ (op[t].s.id # 0 /\ Goto(t, "save", op[t].s))
    /\ Decided

\* Mutant: the study is not moved before the quiz is finished.
ResultKeepsStudy(t) ==
    LET s == op[t].s IN
    /\ Asked(t, "loaded", {"result"})
    /\ IF s.phase # "quiz" \/ s.id = 0 THEN Leave(t)
       ELSE IF ~s.exam /\ ~s.full THEN Goto(t, "save", s)
       ELSE Goto(t, "finish", InPhase(s, "results"))
    /\ Decided

\* QuizResult: a practice quiz with blanks stays where it is; the others move the
\* study to results first.
Result(t) ==
    LET s == op[t].s IN
    /\ Asked(t, "loaded", {"result"})
    /\ IF s.phase # "quiz" \/ s.id = 0 THEN Leave(t)
       ELSE IF ~s.exam /\ ~s.full THEN Goto(t, "save", s)
       ELSE Goto(t, "turn", InPhase(s, "results"))
    /\ Decided

\* StudyPage: an expired exam is finished, and a phase without a quiz is left.
Page(t) ==
    LET s == op[t].s IN
    /\ Asked(t, "loaded", {"page"})
    /\ IF s.phase = "quiz" /\ TimedOut(s) THEN Goto(t, "finish", InPhase(s, "results"))
       ELSE IF s.phase \in {"quiz", "results"} /\ s.id = 0
       THEN Goto(t, "turn", InPhase(s, "study"))
       ELSE Leave(t)
    /\ Decided

\* StudyReset: back to phase study.
Reset(t) ==
    /\ Asked(t, "loaded", {"reset"})
    /\ Goto(t, "turn", NoQuiz("study"))
    /\ Decided

-----------------------------------------------------------------------------
(* and writes *)

\* Mutant: the save is an INSERT OR REPLACE.
PersistedAnyway(s) ==
    quiz' = [quiz EXCEPT ![s.id] = [phase |-> s.phase, full |-> s.full,
                                    finished |-> s.finished \/ s.phase = "results",
                                    exam |-> s.exam]]

\* persistQuizState of a session that has a quiz: UPDATE ... WHERE id, of every
\* column, dated when its phase is results.  A row that was deleted stays so.
Persisted(s) ==
    quiz' = IF s.id \notin Rows THEN quiz
            ELSE [quiz EXCEPT ![s.id] = [phase |-> s.phase, full |-> s.full,
                                         finished |-> s.finished \/ s.phase = "results",
                                         exam |-> s.exam]]

\* persistQuiz, whose error is dropped.
Save(t) ==
    /\ op[t].pc = "save"
    /\ Persisted(op[t].s) \/ ("quiz" \in setting.faulty /\ UNCHANGED quiz)
    /\ Leave(t)
    /\ UNCHANGED <<setting, study, minted, expired, job, counted>>

\* After finishQuiz the page moves the study, which Result did before.
AfterFinish(t, s) == IF op[t].ask = "page" THEN Goto(t, "turn", s) ELSE Leave(t)

\* Mutant: it does not look whether the session's quiz was finished before.
FinishAgain(t) ==
    LET s == op[t].s IN
    /\ op[t].pc = "finish"
    /\ Persisted(s) /\ Goto(t, "count", s)
    /\ UNCHANGED <<setting, study, minted, expired, job, counted>>

\* finishQuiz: the row, and unless it was finished before, its side effects.
Finish(t) ==
    LET s == op[t].s IN
    /\ op[t].pc = "finish"
    /\ \/ Persisted(s) /\ (IF s.finished THEN AfterFinish(t, s) ELSE Goto(t, "count", s))
       \/ "quiz" \in setting.faulty /\ Leave(t) /\ UNCHANGED quiz
    /\ UNCHANGED <<setting, study, minted, expired, job, counted>>

\* The ranked result, whose error ends the request, and the completion event, whose
\* error is only logged.
Count(t) ==
    LET s == op[t].s IN
    /\ op[t].pc = "count"
    /\ \/ /\ counted' = [counted EXCEPT ![s.id] = IF @ < MaxCounted THEN @ + 1 ELSE @]
          /\ AfterFinish(t, s)
       \/ "telemetry" \in setting.faulty /\ AfterFinish(t, s) /\ UNCHANGED counted
       \/ "record" \in setting.faulty /\ Leave(t) /\ UNCHANGED counted
    /\ UNCHANGED <<setting, study, quiz, minted, expired, job>>

\* What follows the write of the study's phase.
AfterTurn(t) ==
    CASE op[t].ask = "result" -> Goto(t, "finish", op[t].s)
      [] op[t].ask = "reset"  -> Goto(t, "clear", op[t].s)
      [] OTHER                -> Leave(t)

\* persistStudyState: an error stops Result and is dropped by the others.
Turn(t) ==
    /\ op[t].pc = "turn"
    /\ \/ study' = (IF study = "gone" THEN "gone" ELSE op[t].s.phase) /\ AfterTurn(t)
       \/ /\ "study" \in setting.faulty /\ UNCHANGED study
          /\ IF op[t].ask = "result" THEN Leave(t) ELSE AfterTurn(t)
    /\ UNCHANGED <<setting, quiz, minted, expired, job, counted>>

\* DeleteByStudyInProgress: finished_at IS NULL, whatever the phase.
Cleared == quiz' = [i \in Ids |-> IF quiz[i].finished THEN quiz[i] ELSE NoRow]

\* StudyReset goes on; its errors are dropped.
Clear(t) ==
    /\ op[t].pc = "clear"
    /\ Cleared \/ ("delete" \in setting.faulty /\ UNCHANGED quiz)
    /\ Leave(t)
    /\ UNCHANGED <<setting, study, minted, expired, job, counted>>

-----------------------------------------------------------------------------
(* The job *)

Proceed(l) == job' = [pc |-> l, exam |-> job.exam]
Stop       == job' = NoJob

\* QuizStart: in any phase of the study; the AI slot lets one job run.
Start(e) ==
    /\ job.pc = "idle" /\ study # "gone" /\ minted < MaxQuizzes
    /\ setting.patient => \A t \in Tabs : op[t].pc = "idle"
    /\ job' = [pc |-> "generate", exam |-> e]
    /\ UNCHANGED <<setting, study, quiz, minted, expired, op, counted>>

\* The questions arrive, or the generation fails and nothing is touched.
Generate ==
    /\ job.pc = "generate"
    /\ Proceed("clear") \/ Stop
    /\ UNCHANGED <<setting, study, quiz, minted, expired, op, counted>>

\* Mutant: the quiz in progress is not removed.
JobClearSkipped ==
    /\ job.pc = "clear"
    /\ Proceed("turn")
    /\ UNCHANGED <<setting, study, quiz, minted, expired, op, counted>>

JobClear ==
    /\ job.pc = "clear"
    /\ \/ Cleared /\ Proceed("turn")
       \/ "delete" \in setting.faulty /\ Stop /\ UNCHANGED quiz
    /\ UNCHANGED <<setting, study, minted, expired, op, counted>>

\* Mutant: the study is not moved before the quiz is saved.
JobTurnForgotten ==
    /\ job.pc = "turn"
    /\ Proceed("insert")
    /\ UNCHANGED <<setting, study, quiz, minted, expired, op, counted>>

JobTurn ==
    /\ job.pc = "turn"
    /\ \/ study' = (IF study = "gone" THEN "gone" ELSE "quiz") /\ Proceed("insert")
       \/ "study" \in setting.faulty /\ Stop /\ UNCHANGED study
    /\ UNCHANGED <<setting, quiz, minted, expired, op, counted>>

\* INSERT, which the foreign key refuses when the study is gone.
JobInsert ==
    /\ job.pc = "insert"
    /\ \/ /\ study # "gone"
          /\ minted' = minted + 1
          /\ quiz' = [quiz EXCEPT ![minted + 1] =
                        [phase |-> "quiz", full |-> FALSE, finished |-> FALSE, exam |-> job.exam]]
       \/ /\ study = "gone" \/ "quiz" \in setting.faulty
          /\ UNCHANGED <<quiz, minted>>
    /\ Stop
    /\ UNCHANGED <<setting, study, expired, op, counted>>

-----------------------------------------------------------------------------
\* The deadline of an exam passes.
Expire(i) ==
    /\ i <= minted /\ i \notin expired /\ quiz[i].exam
    /\ expired' = expired \cup {i}
    /\ UNCHANGED <<setting, study, quiz, minted, job, op, counted>>

\* DeleteStudy, with ON DELETE CASCADE.
DeleteStudy ==
    /\ study # "gone"
    /\ study' = "gone"
    /\ quiz' = [i \in Ids |-> NoRow]
    /\ UNCHANGED <<setting, minted, expired, job, op, counted>>

\* The process dies and comes back: jobs and requests are in memory.
Crash ==
    /\ "crash" \in setting.faulty
    /\ job.pc # "idle" \/ \E t \in Tabs : op[t].pc # "idle"
    /\ job' = NoJob
    /\ op' = [t \in Tabs |-> NoRequest]
    /\ UNCHANGED <<setting, study, quiz, minted, expired, counted>>

Handle(t) ==
    \/ Latest(t) \/ Mutate(t) \/ Diagnostic(t) \/ Result(t) \/ Page(t) \/ Reset(t)
    \/ Save(t) \/ Finish(t) \/ Count(t) \/ Turn(t) \/ Clear(t)

RunJob == Generate \/ JobClear \/ JobTurn \/ JobInsert

Next ==
    \/ \E t \in Tabs : Handle(t) \/ \E a \in Asks : Load(t, a)
    \/ \E e \in BOOLEAN : Start(e)
    \/ RunJob
    \/ \E i \in Ids : Expire(i)
    \/ DeleteStudy
    \/ Crash

Spec == Init /\ [][Next]_vars

-----------------------------------------------------------------------------
(* Properties *)

\* A learner who waits for the job, and statements that do not fail.
Calm == setting.patient /\ setting.faulty = {}

AtRest == job.pc = "idle" /\ \A t \in Tabs : op[t].pc = "idle"

\* Whenever nothing is being served, the study and its latest quiz agree on where
\* the learner stands; an exam that ran out may be finished before the study knows,
\* which the next page puts right.  It takes a learner who waits for the job, one
\* request at a time and no failing write.
PhasesAgree ==
    Calm /\ AtRest =>
        CASE study = "quiz" ->
               /\ Rows # {}
               /\ LET q == quiz[Max(Rows)] IN
                  (q.phase = "quiz" /\ ~q.finished) \/ (q.exam /\ Max(Rows) \in expired)
          [] study = "results" -> Rows # {} /\ quiz[Max(Rows)].finished
          [] study = "study" -> \A i \in Rows : quiz[i].finished
          [] study = "gone" -> Rows = {}

\* At most one quiz of the study is unfinished: the job and the reset remove the one
\* in progress, and a request that holds a copy of it does not bring it back.
OneInProgress ==
    \A i, j \in Rows : ~quiz[i].finished /\ ~quiz[j].finished => i = j

\* A finished quiz is history: neither a new quiz nor a reset removes it, nothing
\* takes its date away, and only the study's deletion ends it.
HistoryKept ==
    [][\A i \in Rows : quiz[i].finished => quiz'[i].finished \/ study' = "gone"]_vars

\* A quiz that was removed never comes back, even where a request saves the copy it
\* loaded before (persistQuizState updates, and ids are never reused).
RemovedForGood ==
    [][\A i \in Ids : quiz[i] = NoRow /\ i <= minted => quiz'[i] = NoRow]_vars

\* The completion of a quiz is counted once, whatever fails and while a job works
\* on the same rows, where the learner's requests do not overlap.
CountedOnce == \A i \in Ids : counted[i] <= 1

\* "Quiz salvo. Abrindo suas questoes..." (handlers.go:546): the study stands at the
\* quiz when the job has saved it.
SavedQuizOpens == [][minted' > minted => study' = "quiz"]_vars

\* It does for a learner who waits.
SavedQuizOpensCalmly == [][Calm /\ minted' > minted => study' = "quiz"]_vars

=============================================================================
