-------------------------- MODULE QuizAttemptProofs --------------------------
(* Theorems about QuizAttempt, for any number of questions and of requests   *)
(* served at the same time, and whatever writes fail.                        *)
EXTENDS QuizAttempt, FiniteSetTheorems, WellFoundedInduction, TLAPS

-----------------------------------------------------------------------------
(* The operators the handlers compute with *)

\* Least returns the smallest element of a set of numbers.
LEMMA LeastIsLeast ==
    ASSUME NEW S \in SUBSET Nat, S # {}
    PROVE  Least(S) \in S /\ \A j \in S : Least(S) <= j
<1> DEFINE R == OpToRel(<, Nat)
<1>1. \A x, y \in Nat : x < y => <<x, y>> \in R
  BY Zenon DEF OpToRel
<1> HIDE DEF R
<1>2. IsWellFoundedOn(R, Nat)
  BY NatLessThanWellFounded DEF R
<1>3. PICK i \in S : \A j \in S : ~(<<j, i>> \in R)
  BY <1>2, WFMin
<1>4. \A j \in S : ~(j < i)
  BY <1>1, <1>3
<1>5. \A j \in S : i <= j
  BY <1>4
<1>6. QED
  BY <1>5 DEF Least

\* The next question of an exam is a question.
LEMMA NextExamIndexType ==
    ASSUME NEW a \in Sheets, NEW i \in Questions
    PROVE  nextExamIndex(a, i) \in Questions
<1> DEFINE later == {j \in Blanks(a) : j > i}
<1>1. Blanks(a) \subseteq Questions /\ Questions \subseteq Nat
  BY QuizAttemptAssumption DEF Blanks, Questions
<1>2. later # {} => Least(later) \in Questions
  BY <1>1, LeastIsLeast
<1>3. Blanks(a) # {} => Least(Blanks(a)) \in Questions
  BY <1>1, LeastIsLeast
<1>4. QED
  BY <1>2, <1>3 DEF nextExamIndex

\* A sheet has between 0 and N right answers.
LEMMA ScoreType ==
    ASSUME NEW a \in Sheets
    PROVE  ScoreOf(a) \in 0..N
<1> DEFINE R == {i \in Questions : a[i] = "right"}
<1>1. IsFiniteSet(Questions) /\ Cardinality(Questions) = N
  BY QuizAttemptAssumption, FS_Interval DEF Questions
<1>2. IsFiniteSet(R) /\ Cardinality(R) <= N
  BY <1>1, FS_Subset
<1>3. Cardinality(R) \in Nat
  BY <1>2, FS_CardinalityType
<1>4. QED
  BY <1>2, <1>3, QuizAttemptAssumption DEF ScoreOf

\* What Sheet builds is a row.
LEMMA SheetType ==
    ASSUME NEW ph \in {"quiz", "results"}, NEW cur \in Questions, NEW a \in Sheets,
           NEW fin \in BOOLEAN
    PROVE  /\ Sheet(ph, cur, a, fin) \in Row
           /\ Sheet(ph, cur, a, fin).phase = ph
           /\ Sheet(ph, cur, a, fin).current = cur
           /\ Sheet(ph, cur, a, fin).answers = a
           /\ Sheet(ph, cur, a, fin).finished = fin
<1>1. 0 \in 0..N
  BY QuizAttemptAssumption
<1>2. QED
  BY <1>1, ScoreType DEF Sheet, Row

-----------------------------------------------------------------------------
(* The inductive invariant *)

\* What holds of every request in flight: it carries a copy some handler could have
\* saved, and from the moment it finishes the attempt its sheet may be graded.
Sound(k, r) ==
    /\ r \in [pc : PCs, ask : Asks, s : Row]
    /\ Consistent(k, r.s)
    /\ r.pc = "finish" => Complete(k, r.s.answers)
    /\ r.pc = "record" => k.ranked /\ Complete(k, r.s.answers)

AllSound == \A t \in Tabs : Sound(kind, op[t])

IInv == TypeOK /\ AllSound /\ OneSheet /\ RankedSheetComplete

\* The row the generation job inserts is a row.
LEMMA FreshType ==
    Fresh \in Row /\ Fresh.phase = "quiz" /\ Fresh.current = 1 /\ Fresh.finished = FALSE
<1> DEFINE blanks == [i \in Questions |-> "blank"]
<1>1. 1 \in Questions
  BY QuizAttemptAssumption DEF Questions
<1>2. blanks \in Sheets
  BY DEF Sheets, Marks
<1>3. Fresh = Sheet("quiz", 1, blanks, FALSE)
  BY DEF Fresh
<1> HIDE DEF blanks
<1>4. ASSUME NEW fin \in BOOLEAN
      PROVE  LET q == Sheet("quiz", 1, blanks, fin)
             IN  q \in Row /\ q.phase = "quiz" /\ q.current = 1 /\ q.finished = fin
  BY <1>1, <1>2, SheetType
<1>5. FALSE \in BOOLEAN
  OBVIOUS
<1>6. QED
  BY <1>3, <1>4, <1>5, Zenon

\* An idle tab is sound.
LEMMA IdleSound == ASSUME NEW k \in Kinds PROVE Sound(k, NoRequest)
<1>2. Fresh \in Row /\ Fresh.phase = "quiz" /\ Fresh.current = 1 /\ Fresh.finished = FALSE
  BY FreshType
<1>3. \A i \in Questions : ~(i < 1)
  BY QuizAttemptAssumption DEF Questions
<1>4. Consistent(k, Fresh)
  BY <1>2, <1>3 DEF Consistent
<1>5. NoRequest.s = Fresh /\ NoRequest.pc = "idle"
      /\ NoRequest \in [pc : PCs, ask : Asks, s : Row]
  BY <1>2 DEF NoRequest, PCs, Asks
<1>6. QED
  BY <1>4, <1>5 DEF Sound

\* The initial state.
LEMMA InitIInv == Init => IInv
<1> SUFFICES ASSUME Init PROVE IInv
  OBVIOUS
<1>1. kind \in Kinds /\ row = Fresh /\ expired = FALSE /\ op = [t \in Tabs |-> NoRequest]
      /\ board = None /\ completions = 0 /\ notes = None
  BY DEF Init
<1>2. Sound(kind, NoRequest)
  BY <1>1, IdleSound
<1>3. AllSound
  BY <1>1, <1>2 DEF AllSound
<1>4. NoRequest \in [pc : PCs, ask : Asks, s : Row] /\ Consistent(kind, Fresh)
  BY <1>2 DEF Sound, NoRequest
<1>5. TypeOK
  BY <1>1, <1>4, FreshType DEF TypeOK
<1>6. QED
  BY <1>1, <1>3, <1>4, <1>5 DEF IInv, OneSheet, RankedSheetComplete

-----------------------------------------------------------------------------
(* A step replaces the request of one tab *)

\* Moving one tab to a sound request keeps every tab sound.
LEMMA GotoSound ==
    ASSUME IInv, NEW t \in Tabs, NEW r, Sound(kind, r), op' = [op EXCEPT ![t] = r],
           UNCHANGED kind
    PROVE  AllSound' /\ op' \in [Tabs -> [pc : PCs, ask : Asks, s : Row]]
<1>1. op \in [Tabs -> [pc : PCs, ask : Asks, s : Row]] /\ AllSound
  BY DEF IInv, TypeOK
<1>2. r \in [pc : PCs, ask : Asks, s : Row]
  BY DEF Sound
<1>3. op' \in [Tabs -> [pc : PCs, ask : Asks, s : Row]]
  BY <1>1, <1>2
<1>4. ASSUME NEW u \in Tabs PROVE Sound(kind, op'[u])
  <2>1. CASE u = t
    BY <2>1, <1>1
  <2>2. CASE u # t
    BY <2>2, <1>1 DEF AllSound
  <2>3. QED
    BY <2>1, <2>2
<1>5. AllSound'
  BY <1>4 DEF AllSound
<1>6. QED
  BY <1>3, <1>5

\* The facts about the request of tab t that the actions use.
LEMMA AtTab ==
    ASSUME IInv, NEW t \in Tabs
    PROVE  /\ kind \in Kinds /\ row \in Row
           /\ op[t].pc \in PCs /\ op[t].ask \in Asks /\ op[t].s \in Row
           /\ op[t].s.phase \in {"quiz", "results"} /\ op[t].s.current \in Questions
           /\ op[t].s.answers \in Sheets /\ op[t].s.finished \in BOOLEAN
           /\ Consistent(kind, op[t].s)
           /\ op[t].pc = "finish" => Complete(kind, op[t].s.answers)
           /\ op[t].pc = "record" => kind.ranked /\ Complete(kind, op[t].s.answers)
<1>1. TypeOK /\ AllSound
  BY DEF IInv
<1>2. Sound(kind, op[t])
  BY <1>1 DEF AllSound
<1>3. op[t] \in [pc : PCs, ask : Asks, s : Row]
  BY <1>2 DEF Sound
<1>4. op[t].s \in Row /\ op[t].pc \in PCs /\ op[t].ask \in Asks
  BY <1>3
<1>5. op[t].s.phase \in {"quiz", "results"} /\ op[t].s.current \in Questions
      /\ op[t].s.answers \in Sheets /\ op[t].s.finished \in BOOLEAN
  BY <1>4 DEF Row
<1>6. QED
  BY <1>1, <1>2, <1>4, <1>5 DEF Sound, TypeOK

\* Going on with a consistent copy, graded only when it may be.
LEMMA StepSound ==
    ASSUME IInv, NEW t \in Tabs, NEW l \in PCs, NEW s \in Row, Consistent(kind, s),
           l = "finish" => Complete(kind, s.answers),
           l = "record" => kind.ranked /\ Complete(kind, s.answers),
           Goto(t, l, s), UNCHANGED kind
    PROVE  AllSound' /\ op' \in [Tabs -> [pc : PCs, ask : Asks, s : Row]]
<1> DEFINE r == [pc |-> l, ask |-> op[t].ask, s |-> s]
<1>1. op[t].ask \in Asks
  BY AtTab
<1>2. Sound(kind, r)
  BY <1>1 DEF Sound
<1>3. op' = [op EXCEPT ![t] = r]
  BY DEF Goto
<1>4. QED
  BY <1>2, <1>3, GotoSound

\* Being done with a request.
LEMMA LeaveSound ==
    ASSUME IInv, NEW t \in Tabs, Leave(t), UNCHANGED kind
    PROVE  AllSound' /\ op' \in [Tabs -> [pc : PCs, ask : Asks, s : Row]]
<1>1. kind \in Kinds
  BY AtTab
<1>2. QED
  BY <1>1, IdleSound, GotoSound DEF Leave


-----------------------------------------------------------------------------
(* The edits of a mutation keep a copy consistent *)

\* Filling in one place of a sheet gives a sheet.
LEMMA MarkedType ==
    ASSUME NEW s \in Row, NEW i \in Questions, NEW m \in Marks
    PROVE  /\ Marked(s, i, m) \in Sheets
           /\ Marked(s, i, m)[i] = m
           /\ \A j \in Questions \ {i} : Marked(s, i, m)[j] = s.answers[j]
<1>1. s.answers \in [Questions -> Marks]
  BY DEF Row, Sheets
<1>2. QED
  BY <1>1 DEF Marked, Sheets

\* A mutation of a quiz that is running yields such a quiz.
LEMMA EditsSound ==
    ASSUME IInv, NEW s \in Row, Consistent(kind, s), s.phase = "quiz",
           NEW ask \in Mutations, NEW e \in Edits(s, ask)
    PROVE  e \in Row /\ Consistent(kind, e)
<1>1. /\ s.current \in Questions /\ s.answers \in Sheets
      /\ s.finished = FALSE /\ s.finished \in BOOLEAN /\ s.phase \in {"quiz", "results"}
  BY DEF Row, Consistent
<1>2. Given \subseteq Marks /\ "blank" \in Marks /\ Questions \subseteq Nat
  BY DEF Marks, Questions
<1>3. kind.exam \in BOOLEAN
  BY QuizAttemptAssumption DEF IInv, TypeOK
<1>4. CASE kind.exam
  <2>1. \A cur \in Questions, a \in Sheets : LET q == Sheet(s.phase, cur, a, s.finished)
                                           IN  q \in Row /\ Consistent(kind, q)
    BY <1>1, <1>4, SheetType DEF Consistent
  <2>2. \A i \in Questions, m \in Given :
          Marked(s, i, m) \in Sheets /\ nextExamIndex(Marked(s, i, m), i) \in Questions
    BY <1>2, MarkedType, NextExamIndexType
  <2>3. e \in ExamEdits(s, ask)
    BY <1>4 DEF Edits
  <2>4. \E cur \in Questions, a \in Sheets : e = Sheet(s.phase, cur, a, s.finished)
    BY <1>1, <2>2, <2>3 DEF ExamEdits, Mutations
  <2>5. QED
    BY <2>1, <2>4
<1>5. CASE ~kind.exam
  <2>1. \A j \in Questions : j < s.current => s.answers[j] # "blank"
    BY <1>5 DEF Consistent
  <2>2. \A cur \in Questions, a \in Sheets :
          (\A j \in Questions : j < cur => a[j] # "blank") =>
             LET q == Sheet(s.phase, cur, a, s.finished) IN q \in Row /\ Consistent(kind, q)
    <3> SUFFICES ASSUME NEW cur \in Questions, NEW a \in Sheets,
                        \A j \in Questions : j < cur => a[j] # "blank"
                 PROVE  LET q == Sheet(s.phase, cur, a, s.finished)
                        IN  q \in Row /\ Consistent(kind, q)
      OBVIOUS
    <3> DEFINE q == Sheet(s.phase, cur, a, s.finished)
    <3>1. /\ q \in Row /\ q.phase = "quiz" /\ q.current = cur /\ q.answers = a
          /\ q.finished = s.finished
      BY <1>1, SheetType
    <3> HIDE DEF q
    <3>2. Consistent(kind, q)
      BY <1>1, <3>1 DEF Consistent
    <3>3. QED
      BY <3>1, <3>2 DEF q
  <2>3. \A m \in Marks : /\ Marked(s, s.current, m) \in Sheets
                       /\ \A j \in Questions : j < s.current =>
                            Marked(s, s.current, m)[j] # "blank"
    <3>1. \A j \in Questions : j < s.current => j \in Questions \ {s.current}
      BY <1>1 DEF Questions
    <3>2. QED
      BY <1>1, <2>1, <3>1, MarkedType
  <2>4. e \in PracticeEdits(s, ask)
    BY <1>5 DEF Edits
  <2>5. CASE ask \in {"answer", "reanswer"}
    <3>1. PICK m \in Marks : e = Sheet(s.phase, s.current, Marked(s, s.current, m), s.finished)
      BY <1>2, <2>4, <2>5 DEF PracticeEdits
    <3>2. QED
      BY <1>1, <2>2, <2>3, <3>1
  <2>6. CASE ask \in {"next", "goto", "flag"}
    <3>1. /\ s.current < N /\ s.answers[s.current] # "blank"
          /\ e = Sheet(s.phase, s.current + 1, s.answers, s.finished)
      BY <2>4, <2>6 DEF PracticeEdits
    <3>2. s.current + 1 \in Questions
      BY <1>1, <3>1, QuizAttemptAssumption DEF Questions
    <3>3. \A j, c \in Questions : j < c + 1 => j < c \/ j = c
      BY DEF Questions
    <3>4. \A j \in Questions : j < s.current + 1 => s.answers[j] # "blank"
      BY <1>1, <2>1, <3>1, <3>3
    <3>5. QED
      BY <1>1, <2>2, <3>1, <3>2, <3>4
  <2>7. QED
    BY <2>5, <2>6 DEF Mutations
<1>6. QED
  BY <1>3, <1>4, <1>5

\* Writing a copy back, or finishing with it, gives a row some handler could have left.
LEMMA PersistedSound ==
    ASSUME IInv, NEW s \in Row, Consistent(kind, s), NEW ph \in {s.phase, "results"},
           ph = "results" => Complete(kind, s.answers)
    PROVE  /\ Persisted(s, ph) \in Row /\ Consistent(kind, Persisted(s, ph))
           /\ Persisted(s, ph).answers = s.answers
<1>1. /\ s.phase \in {"quiz", "results"} /\ s.current \in Questions /\ s.answers \in Sheets
      /\ s.finished \in BOOLEAN
  BY DEF Row
<1> DEFINE fin == s.finished \/ ph = "results"
<1>2. fin \in BOOLEAN /\ ph \in {"quiz", "results"} /\ (ph = "results" <=> fin)
  BY <1>1 DEF Consistent
<1>3. Persisted(s, ph) = Sheet(ph, s.current, s.answers, fin)
  BY DEF Persisted
<1> HIDE DEF fin
<1>4. QED
  BY <1>1, <1>2, <1>3, SheetType DEF Consistent


-----------------------------------------------------------------------------
(* Every step keeps the invariant *)

\* A step that only decides what a request does next.
LEMMA DecisionSound ==
    ASSUME IInv, AllSound', op' \in [Tabs -> [pc : PCs, ask : Asks, s : Row]],
           UNCHANGED <<kind, row, board, completions, notes>>, expired' \in BOOLEAN
    PROVE  IInv'
BY DEF IInv, TypeOK, OneSheet, RankedSheetComplete, Consistent, Complete

LEMMA LoadSound ==
    ASSUME IInv, NEW t \in Tabs, NEW a \in Asks, Load(t, a) PROVE IInv'
<1> DEFINE r == [pc |-> "loaded", ask |-> a, s |-> row]
<1>1. row \in Row /\ Consistent(kind, row) /\ expired \in BOOLEAN
  BY DEF IInv, TypeOK, OneSheet
<1>0. QuizGet = row
  BY <1>1 DEF QuizGet, Row
<1>2. Sound(kind, r)
  BY <1>1 DEF Sound, PCs
<1>3. op' = [op EXCEPT ![t] = r] /\ UNCHANGED <<kind, row, expired, board, completions, notes>>
  BY <1>0 DEF Load
<1>4. QED
  BY <1>1, <1>2, <1>3, GotoSound, DecisionSound

\* Mutate, Result, Page, Diagnostic, Ask and Reply.
LEMMA DecideSound ==
    ASSUME IInv, NEW t \in Tabs,
           Mutate(t) \/ Result(t) \/ Page(t) \/ Diagnostic(t) \/ Ask(t) \/ Reply(t)
    PROVE  IInv'
<1> DEFINE s == op[t].s
<1>1. UNCHANGED <<kind, row, board, completions, notes>> /\ expired' \in BOOLEAN
      /\ UNCHANGED kind
  BY DEF Mutate, Result, Page, Diagnostic, Ask, Reply, Requested, IInv, TypeOK
<1>2. s \in Row /\ Consistent(kind, s) /\ kind.exam \in BOOLEAN
      /\ {"finish", "save", "asking"} \subseteq PCs
  BY AtTab, QuizAttemptAssumption DEF PCs
<1> DEFINE Safe == AllSound' /\ op' \in [Tabs -> [pc : PCs, ask : Asks, s : Row]]
<1>3. Leave(t) => Safe
  BY <1>1, LeaveSound
<1>4. Complete(kind, s.answers) /\ Goto(t, "finish", s) => Safe
  BY <1>1, <1>2, StepSound
<1>5. \A e \in Row : Consistent(kind, e) /\ Goto(t, "save", e) => Safe
  BY <1>1, <1>2, StepSound
<1>6. Goto(t, "asking", s) => Safe
  BY <1>1, <1>2, StepSound
<1> SUFFICES Safe
  BY <1>1, DecisionSound
<1> HIDE DEF Safe
<1>7. kind.exam => Complete(kind, s.answers)
  BY DEF Complete
<1>8. CASE Mutate(t)
  <2>1. \A e \in Edits(s, op[t].ask) : s.phase = "quiz" /\ op[t].ask \in Mutations
                                         => e \in Row /\ Consistent(kind, e)
    BY <1>2, EditsSound
  <2>2. op[t].ask \in Mutations
    BY <1>8 DEF Mutate
  <2>3. CASE Leave(t)
    BY <1>3, <2>3
  <2>4. CASE examExpired /\ Goto(t, "finish", s)
    BY <1>4, <1>7, <2>4 DEF examExpired
  <2>5. CASE s.phase = "quiz" /\ \E e \in Edits(s, op[t].ask) : Goto(t, "save", e)
    BY <1>5, <2>1, <2>2, <2>5
  <2>6. QED
    BY <1>8, <2>3, <2>4, <2>5 DEF Mutate
<1>9. CASE Result(t)
  BY <1>3, <1>4, <1>9 DEF Result, Complete
<1>10. CASE Page(t)
  BY <1>3, <1>4, <1>7, <1>10 DEF Page, examExpired
<1>11. CASE Diagnostic(t) \/ Ask(t) \/ Reply(t)
  BY <1>2, <1>3, <1>5, <1>6, <1>11 DEF Diagnostic, Ask, Reply
<1>12. QED
  BY <1>8, <1>9, <1>10, <1>11


\* persistQuiz after a mutation, a self-assessment or the tutor's answer.
LEMMA SaveSound ==
    ASSUME IInv, NEW t \in Tabs, Save(t) PROVE IInv'
<1> DEFINE s == op[t].s
<1>1. UNCHANGED <<kind, expired, board, completions, notes>>
  BY DEF Save
<1>2. s \in Row /\ Consistent(kind, s) /\ s.phase \in {"quiz", "results"}
  BY AtTab
<1>3. s.phase = "results" => Complete(kind, s.answers)
  BY <1>2 DEF Consistent
<1>4. Persisted(s, s.phase) \in Row /\ Consistent(kind, Persisted(s, s.phase))
  BY <1>2, <1>3, PersistedSound
<1>5. row' = Persisted(s, s.phase) \/ row' = row
  BY DEF Save
<1>6. row' \in Row /\ Consistent(kind, row')
  BY <1>4, <1>5 DEF IInv, TypeOK, OneSheet
<1>7. Goto(t, "observe", s) \/ Leave(t)
  BY DEF Save
<1>8. AllSound' /\ op' \in [Tabs -> [pc : PCs, ask : Asks, s : Row]]
  BY <1>1, <1>2, <1>7, StepSound, LeaveSound DEF PCs
<1>9. QED
  BY <1>1, <1>6, <1>8 DEF IInv, TypeOK, OneSheet, RankedSheetComplete

\* finishQuiz grades the copy, and goes on with the graded copy.
LEMMA FinishSound ==
    ASSUME IInv, NEW t \in Tabs, FinishQuiz(t) PROVE IInv'
<1> DEFINE s == op[t].s
           g == Persisted(s, "results")
<1>1. UNCHANGED <<kind, expired, board, completions, notes>>
  BY DEF FinishQuiz
<1>2. s \in Row /\ Consistent(kind, s) /\ Complete(kind, s.answers)
  BY AtTab DEF FinishQuiz, Only
<1>3. g \in Row /\ Consistent(kind, g) /\ g.answers = s.answers
  BY <1>2, PersistedSound
<1> HIDE DEF g
<1>4. row' = g \/ row' = row
  BY DEF FinishQuiz, g
<1>5. row' \in Row /\ Consistent(kind, row')
  BY <1>3, <1>4 DEF IInv, TypeOK, OneSheet
<1>6. Goto(t, AfterFinish, g) \/ Leave(t)
  BY DEF FinishQuiz, g
<1>7. AfterFinish \in PCs /\ (AfterFinish = "record" => kind.ranked) /\ AfterFinish # "finish"
  BY DEF AfterFinish, PCs
<1>8. AllSound' /\ op' \in [Tabs -> [pc : PCs, ask : Asks, s : Row]]
  BY <1>1, <1>2, <1>3, <1>6, <1>7, StepSound, LeaveSound
<1>9. QED
  BY <1>1, <1>5, <1>8 DEF IInv, TypeOK, OneSheet, RankedSheetComplete

\* What finishing does after the row is saved.
LEMMA AfterwardsSound ==
    ASSUME IInv, NEW t \in Tabs, Record(t) \/ Telemetry(t) \/ Observe(t) PROVE IInv'
<1> DEFINE s == op[t].s
<1>1. UNCHANGED <<kind, row, expired>>
  BY DEF Record, Telemetry, Observe
<1>2. s \in Row /\ Consistent(kind, s) /\ s.answers \in Sheets
  BY AtTab
<1>3. Goto(t, "telemetry", s) \/ Goto(t, "observe", s) \/ Leave(t)
  BY DEF Record, Telemetry, Observe
<1>4. AllSound' /\ op' \in [Tabs -> [pc : PCs, ask : Asks, s : Row]]
  BY <1>1, <1>2, <1>3, StepSound, LeaveSound DEF PCs
<1>5. /\ board \in Sheets \cup {None} /\ completions \in Nat /\ notes \in Sheets \cup {None}
      /\ RankedSheetComplete
  BY DEF IInv, TypeOK
<1>6. board' \in Sheets \cup {None} /\ RankedSheetComplete'
  <2>1. CASE Record(t)
    <3>1. kind.ranked /\ Complete(kind, s.answers)
      BY <2>1, AtTab DEF Record, Only
    <3>2. board' = board \/ board' = s.answers
      BY <2>1 DEF Record
    <3>3. QED
      BY <1>1, <1>2, <1>5, <3>1, <3>2 DEF RankedSheetComplete
  <2>2. CASE UNCHANGED board
    BY <1>1, <1>5, <2>2 DEF RankedSheetComplete
  <2>3. QED
    BY <2>1, <2>2 DEF Telemetry, Observe
<1>7. completions' \in Nat
  BY <1>5 DEF Record, Telemetry, Observe
<1>8. notes' \in Sheets \cup {None}
  BY <1>2, <1>5 DEF Record, Telemetry, Observe
<1>9. QED
  BY <1>1, <1>4, <1>6, <1>7, <1>8 DEF IInv, TypeOK, OneSheet

\* A crash, the deadline, and a step that changes nothing.
LEMMA EnvironmentSound ==
    ASSUME IInv, Expire \/ Crash \/ UNCHANGED vars PROVE IInv'
<1>1. CASE Expire \/ UNCHANGED vars
  BY <1>1 DEF IInv, TypeOK, AllSound, OneSheet, RankedSheetComplete, Expire, vars
<1>2. CASE Crash
  <2>1. op' = [t \in Tabs |-> NoRequest] /\ expired' \in BOOLEAN
        /\ UNCHANGED <<kind, row, board, completions, notes>> /\ kind \in Kinds
    BY <1>2 DEF Crash, IInv, TypeOK
  <2>2. Sound(kind, NoRequest)
    BY <2>1, IdleSound
  <2>3. AllSound'
    BY <2>1, <2>2 DEF AllSound
  <2>4. op' \in [Tabs -> [pc : PCs, ask : Asks, s : Row]]
    BY <2>1, <2>2 DEF Sound
  <2>5. QED
    BY <2>1, <2>3, <2>4, DecisionSound
<1>3. QED
  BY <1>1, <1>2

\* No step breaks the invariant.
THEOREM Inductive == IInv /\ [Next]_vars => IInv'
<1> SUFFICES ASSUME IInv, [Next]_vars PROVE IInv'
  OBVIOUS
<1>1. ASSUME NEW t \in Tabs, NEW a \in Asks, Load(t, a) PROVE IInv'
  BY <1>1, LoadSound
<1>2. ASSUME NEW t \in Tabs, Handle(t) PROVE IInv'
  <2>1. CASE Save(t)
    BY <2>1, SaveSound
  <2>2. CASE FinishQuiz(t)
    BY <2>2, FinishSound
  <2>3. CASE Record(t) \/ Telemetry(t) \/ Observe(t)
    BY <2>3, AfterwardsSound
  <2>4. CASE Mutate(t) \/ Result(t) \/ Page(t) \/ Diagnostic(t) \/ Ask(t) \/ Reply(t)
    BY <2>4, DecideSound
  <2>5. QED
    BY <1>2, <2>1, <2>2, <2>3, <2>4 DEF Handle
<1>3. CASE Expire \/ Crash \/ UNCHANGED vars
  BY <1>3, EnvironmentSound
<1>4. QED
  BY <1>1, <1>2, <1>3 DEF Next

-----------------------------------------------------------------------------
(* The theorems *)

\* The invariant holds in every reachable state.
THEOREM Invariance == Spec => []IInv
BY InitIInv, Inductive, PTL DEF Spec

\* The row, the copies and the recorded results keep their types.
THEOREM TypeCorrect == Spec => []TypeOK
<1>1. IInv => TypeOK
  BY DEF IInv
<1>2. QED
  BY <1>1, Invariance, PTL

\* However many requests overlap, the row is always one that a single request left:
\* the whole-row writes of persistQuizState lose updates and never mix them.
THEOREM NeverMixed == Spec => []OneSheet
<1>1. IInv => OneSheet
  BY DEF IInv
<1>2. QED
  BY <1>1, Invariance, PTL

\* Only complete sheets, or exams that were handed in, reach the leaderboard.
THEOREM OnlyCompleteRanked == Spec => []RankedSheetComplete
<1>1. IInv => RankedSheetComplete
  BY DEF IInv
<1>2. QED
  BY <1>1, Invariance, PTL

\* INSERT OR IGNORE keeps the first ranked result of an attempt.
THEOREM ResultImmutable == Spec => RankedResultKept
<1>1. [Next]_vars => (board # None => board' = board)
  BY DEF Next, Handle, Load, Mutate, Result, Page, Diagnostic, Ask, Reply, Save, FinishQuiz,
         Record, Telemetry, Observe, Expire, Crash, Requested, vars
<1>2. [Next]_vars => [board # None => board' = board]_vars
  BY <1>1
<1>3. QED
  BY <1>2, PTL DEF Spec, RankedResultKept

-----------------------------------------------------------------------------
(* A learner who sends one request at a time *)

\* What a request's copy and position say about the row.
Faithful(r) ==
    /\ r.pc \in {"loaded", "asking", "finish"} => r.s = row
    /\ r.pc = "save" => /\ r.s.finished = row.finished
                        /\ row.finished => r.s.answers = row.answers
    /\ r.pc \in {"record", "telemetry"} =>
          row.finished /\ r.s.answers = row.answers /\ completions = 0

\* What has been recorded says about the row.
Recorded ==
    /\ completions <= 1
    /\ completions # 0 => row.finished
    /\ board # None => row.finished /\ board = row.answers

Alone ==
    /\ \A t, u \in Tabs : op[t].pc # "idle" /\ op[u].pc # "idle" => t = u
    /\ \A t \in Tabs : Faithful(op[t])
    /\ Recorded

AloneInv == IInv /\ (kind.solo => Alone)

\* Only the request of tab t counts.
LEMMA AloneTab ==
    ASSUME IInv, Alone, NEW t \in Tabs, op[t].pc # "idle", NEW r, op' = [op EXCEPT ![t] = r],
           Faithful(r)', Recorded'
    PROVE  Alone'
<1>1. op \in [Tabs -> [pc : PCs, ask : Asks, s : Row]]
  BY DEF IInv, TypeOK
<1>2. \A u \in Tabs \ {t} : op'[u] = op[u] /\ op[u].pc = "idle"
  BY <1>1 DEF Alone
<1>3. op'[t] = r
  BY <1>1
<1>4. \A u \in Tabs : Faithful(op[u])'
  BY <1>2, <1>3 DEF Faithful
<1>5. QED
  BY <1>2, <1>4 DEF Alone

\* Leaving needs nothing of the copy.
LEMMA AloneLeave ==
    ASSUME IInv, Alone, NEW t \in Tabs, op[t].pc # "idle", Leave(t), Recorded'
    PROVE  Alone'
<1>1. Faithful(NoRequest)'
  BY DEF Faithful, NoRequest
<1>2. QED
  BY <1>1, AloneTab DEF Leave

\* Going on needs the copy to fit where the request goes.
LEMMA AloneGoto ==
    ASSUME IInv, Alone, NEW t \in Tabs, op[t].pc # "idle", NEW l, NEW s, Goto(t, l, s),
           l \in {"loaded", "asking", "finish"} => s = row',
           l = "save" => s.finished = row'.finished /\ (row'.finished => s.answers = row'.answers),
           l \in {"record", "telemetry"} =>
              row'.finished /\ s.answers = row'.answers /\ completions' = 0,
           Recorded'
    PROVE  Alone'
<1>1. PICK r : r = [pc |-> l, ask |-> op[t].ask, s |-> s]
  OBVIOUS
<1>2. op' = [op EXCEPT ![t] = r]
  BY <1>1 DEF Goto
<1>3. Faithful(r)'
  BY <1>1 DEF Faithful
<1>4. QED
  BY <1>2, <1>3, AloneTab

\* An edit of a quiz that is running does not finish it.
LEMMA EditsUnfinished ==
    ASSUME NEW s, NEW ask \in Mutations, NEW e \in Edits(s, ask)
    PROVE  e.finished = s.finished
<1>1. PICK ph, cur, a : e = Sheet(ph, cur, a, s.finished)
  BY DEF Edits, ExamEdits, PracticeEdits, Mutations
<1>2. QED
  BY <1>1 DEF Sheet

LEMMA AloneDecide ==
    ASSUME IInv, Alone, NEW t \in Tabs,
           Mutate(t) \/ Result(t) \/ Page(t) \/ Diagnostic(t) \/ Ask(t) \/ Reply(t)
    PROVE  Alone'
<1> DEFINE s == op[t].s
<1>1. /\ UNCHANGED <<kind, row, board, completions>> /\ op[t].pc \in {"loaded", "asking"}
  BY DEF Mutate, Result, Page, Diagnostic, Ask, Reply, Requested, Only
<1>2. Recorded' /\ s = row
  BY <1>1 DEF Alone, Recorded, Faithful
<1>3. CASE Leave(t)
  BY <1>1, <1>2, <1>3, AloneLeave
<1>4. ASSUME NEW l \in {"finish", "save", "asking"}, Goto(t, l, s) PROVE Alone'
  <2>1. l # "record" /\ l # "telemetry" /\ s = row'
    BY <1>1, <1>2
  <2>2. QED
    BY <1>1, <1>2, <1>4, <2>1, AloneGoto
<1>5. ASSUME s.phase = "quiz", op[t].ask \in Mutations,
             NEW e \in Edits(s, op[t].ask), Goto(t, "save", e)
      PROVE  Alone'
  <2>1. e.finished = row'.finished
    BY <1>1, <1>2, <1>5, EditsUnfinished
  <2>2. row'.finished = FALSE
    <3>1. Consistent(kind, row) /\ row.finished \in BOOLEAN
      BY DEF IInv, TypeOK, OneSheet, Row
    <3>2. QED
      BY <1>1, <1>2, <1>5, <3>1 DEF Consistent
  <2>3. QED
    BY <1>1, <1>2, <1>5, <2>1, <2>2, AloneGoto
<1>6. QED
  BY <1>3, <1>4, <1>5 DEF Mutate, Result, Page, Diagnostic, Ask, Reply

LEMMA AloneSave ==
    ASSUME IInv, Alone, NEW t \in Tabs, Save(t)
    PROVE  Alone' /\ (row.finished => row'.finished /\ row'.answers = row.answers)
<1> DEFINE s == op[t].s
           p == Persisted(s, s.phase)
<1>1. /\ op[t].pc = "save" /\ UNCHANGED <<kind, board, completions>> /\ (row' = p \/ row' = row)
  BY DEF Save, Only
<1>2. s.finished = row.finished /\ (row.finished => s.answers = row.answers)
  BY <1>1 DEF Alone, Faithful
<1>3. p.answers = s.answers /\ p.finished = (s.finished \/ s.phase = "results")
  BY DEF Persisted, Sheet
<1> HIDE DEF p
<1>4. row.finished => row'.finished /\ row'.answers = row.answers
  BY <1>1, <1>2, <1>3
<1>5. Recorded'
  BY <1>1, <1>4 DEF Alone, Recorded
<1>6. Goto(t, "observe", s) \/ Leave(t)
  BY DEF Save
<1>7. QED
  BY <1>1, <1>4, <1>5, <1>6, AloneLeave, AloneGoto

LEMMA AloneFinish ==
    ASSUME IInv, Alone, NEW t \in Tabs, FinishQuiz(t)
    PROVE  Alone' /\ (row.finished => row'.finished /\ row'.answers = row.answers)
<1> DEFINE s == op[t].s
           g == Persisted(s, "results")
<1>1. op[t].pc = "finish" /\ UNCHANGED <<kind, board, completions>>
  BY DEF FinishQuiz, Only
<1>2. s = row
  BY <1>1 DEF Alone, Faithful
<1>3. g.answers = s.answers /\ g.finished
  BY DEF Persisted, Sheet
<1>4. /\ \/ row' = g /\ (IF s.finished THEN Leave(t) ELSE Goto(t, AfterFinish, g))
         \/ row' = row /\ Leave(t)
  BY DEF FinishQuiz
<1> HIDE DEF g
<1>5. row.finished => row'.finished /\ row'.answers = row.answers
  BY <1>2, <1>3, <1>4
<1>6. Recorded'
  BY <1>1, <1>5 DEF Alone, Recorded
<1>7. CASE Leave(t)
  BY <1>1, <1>5, <1>6, <1>7, AloneLeave
<1>8. CASE row' = g /\ ~s.finished /\ Goto(t, AfterFinish, g)
  <2>1. completions' = 0
    BY <1>1, <1>2, <1>8 DEF Alone, Recorded
  <2>2. AfterFinish \in {"record", "telemetry"} /\ row'.finished /\ g.answers = row'.answers
    BY <1>3, <1>8 DEF AfterFinish
  <2>3. AfterFinish \notin {"loaded", "asking", "finish", "save"}
    BY DEF AfterFinish
  <2>4. QED
    BY <1>1, <1>5, <1>6, <1>8, <2>1, <2>2, <2>3, AloneGoto
<1>9. QED
  BY <1>4, <1>7, <1>8

LEMMA AloneAfterwards ==
    ASSUME IInv, Alone, NEW t \in Tabs, Record(t) \/ Telemetry(t) \/ Observe(t)
    PROVE  Alone'
<1> DEFINE s == op[t].s
<1>1. UNCHANGED <<kind, row>> /\ op[t].pc \in {"record", "telemetry", "observe"}
  BY DEF Record, Telemetry, Observe, Only
<1>2. completions \in Nat /\ Recorded
  BY DEF IInv, TypeOK, Alone
<1>3. op[t].pc \in {"record", "telemetry"} =>
         row.finished /\ s.answers = row.answers /\ completions = 0
  BY DEF Alone, Faithful
<1>4. CASE Record(t)
  <2>1. /\ UNCHANGED completions /\ op[t].pc = "record" /\ board' \in {board, s.answers}
        /\ Goto(t, "telemetry", s) \/ Leave(t)
    BY <1>4 DEF Record, Only
  <2>2. Recorded'
    BY <1>1, <1>2, <1>3, <2>1 DEF Recorded
  <2>3. CASE Leave(t)
    BY <1>1, <2>2, <2>3, AloneLeave
  <2>4. CASE Goto(t, "telemetry", s)
    BY <1>1, <1>3, <2>1, <2>2, <2>4, AloneGoto
  <2>5. QED
    BY <2>1, <2>3, <2>4
<1>5. CASE Telemetry(t) \/ Observe(t)
  <2>1. UNCHANGED board /\ (Goto(t, "observe", s) \/ Leave(t))
    BY <1>5 DEF Telemetry, Observe
  <2>2. completions' = completions \/ (op[t].pc = "telemetry" /\ completions' = completions + 1)
    BY <1>5 DEF Telemetry, Observe, Only
  <2>3. Recorded'
    BY <1>1, <1>2, <1>3, <2>1, <2>2 DEF Recorded
  <2>4. QED
    BY <1>1, <2>1, <2>3, AloneLeave, AloneGoto
<1>6. QED
  BY <1>4, <1>5

\* A step of an attempt whose learner waits for each answer.
LEMMA AloneStep ==
    ASSUME IInv, Alone, kind.solo, [Next]_vars
    PROVE  Alone' /\ (row.finished => row'.finished /\ row'.answers = row.answers)
<1> DEFINE Stays == row.finished => row'.finished /\ row'.answers = row.answers
<1>1. ASSUME NEW t \in Tabs, NEW a \in Asks, Load(t, a) PROVE Alone' /\ Stays
  <2> DEFINE r == [pc |-> "loaded", ask |-> a, s |-> row]
  <2>1. /\ UNCHANGED <<row, board, completions>> /\ op' = [op EXCEPT ![t] = r]
        /\ \A u \in Tabs : op[u].pc = "idle"
    <3>1. QuizGet = row
      BY DEF QuizGet, IInv, TypeOK, Row
    <3>2. QED
      BY <1>1, <3>1 DEF Load, Only
  <2>2. op'[t] = r /\ \A u \in Tabs \ {t} : op'[u] = op[u]
    BY <2>1 DEF IInv, TypeOK
  <2>3. Recorded' /\ Faithful(r)'
    BY <2>1 DEF Alone, Recorded, Faithful
  <2>4. \A u \in Tabs : Faithful(op[u])'
    BY <2>1, <2>2, <2>3 DEF Faithful
  <2>5. QED
    BY <2>1, <2>2, <2>3, <2>4 DEF Alone
<1>2. ASSUME NEW t \in Tabs, Handle(t) PROVE Alone' /\ Stays
  <2>1. CASE Save(t)
    BY <2>1, AloneSave
  <2>2. CASE FinishQuiz(t)
    BY <2>2, AloneFinish
  <2>3. CASE Record(t) \/ Telemetry(t) \/ Observe(t)
    BY <2>3, AloneAfterwards DEF Record, Telemetry, Observe
  <2>4. CASE Mutate(t) \/ Result(t) \/ Page(t) \/ Diagnostic(t) \/ Ask(t) \/ Reply(t)
    BY <2>4, AloneDecide DEF Mutate, Result, Page, Diagnostic, Ask, Reply, Requested
  <2>5. QED
    BY <1>2, <2>1, <2>2, <2>3, <2>4 DEF Handle
<1>3. CASE Crash
  <2>1. UNCHANGED <<row, board, completions>> /\ \A u \in Tabs : op'[u] = NoRequest
    BY <1>3 DEF Crash
  <2>2. QED
    BY <2>1 DEF Alone, Recorded, Faithful, NoRequest
<1>4. CASE Expire \/ UNCHANGED vars
  BY <1>4 DEF Alone, Recorded, Faithful, Expire, vars
<1>5. QED
  BY <1>1, <1>2, <1>3, <1>4 DEF Next

LEMMA KindStays == [Next]_vars => kind' = kind
BY DEF Next, Handle, Load, Mutate, Result, Page, Diagnostic, Ask, Reply, Save, FinishQuiz,
       Record, Telemetry, Observe, Expire, Crash, Requested, vars

THEOREM AloneInvariance == Spec => []AloneInv
<1>1. Init => AloneInv
  <2> SUFFICES ASSUME Init PROVE Alone
    BY InitIInv DEF AloneInv
  <2>1. completions = 0 /\ board = None /\ \A t \in Tabs : op[t] = NoRequest
    BY DEF Init
  <2>2. QED
    BY <2>1 DEF Alone, Recorded, Faithful, NoRequest
<1>2. AloneInv /\ [Next]_vars => AloneInv'
  BY Inductive, AloneStep, KindStays DEF AloneInv
<1>3. QED
  BY <1>1, <1>2, PTL DEF Spec

\* Finishing counts a completion once, through failed saves and crashes, where the
\* learner's requests do not overlap.
THEOREM OnceAlone == Spec => []CompletedOnceAlone
<1>1. AloneInv => CompletedOnceAlone
  BY DEF AloneInv, Alone, Recorded, CompletedOnceAlone, CompletedOnce
<1>2. QED
  BY <1>1, AloneInvariance, PTL

\* The leaderboard then shows the grade the learner sees.
THEOREM RankedAgreesAlone == Spec => []RankedResultAgrees
<1>1. AloneInv => RankedResultAgrees
  BY DEF AloneInv, Alone, Recorded, RankedResultAgrees
<1>2. QED
  BY <1>1, AloneInvariance, PTL

\* And no later request reopens or changes a finished attempt.
THEOREM FinishedAlone == Spec => FinishedForGood
<1>1. AloneInv /\ [Next]_vars
      => [kind.solo /\ row.finished => row'.finished /\ row'.answers = row.answers]_vars
  BY AloneStep DEF AloneInv
<1>2. QED
  BY <1>1, AloneInvariance, PTL DEF Spec, FinishedForGood

=============================================================================
