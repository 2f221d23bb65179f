--------------------------- MODULE StudyQuizProofs ---------------------------
(* Theorems about StudyQuiz, for any number of quizzes, of overlapping        *)
(* requests and of failing writes.                                            *)
EXTENDS StudyQuiz, WellFoundedInduction, TLAPS

-----------------------------------------------------------------------------
(* The latest row *)

\* A set of numbers up to n that is not empty has a largest one, so the latest quiz
\* of a study is one of its quizzes.
LEMMA MaxIn ==
    ASSUME NEW n \in Nat, NEW S \in SUBSET (1..n), S # {}
    PROVE  Max(S) \in S /\ \A i \in S : Max(S) >= i
<1> DEFINE T == {n - i : i \in S}
           R == {p \in Nat \X Nat : p[1] < p[2]}
<1>1. IsWellFoundedOn(R, Nat)
  <2>1. R = OpToRel(<, Nat)
    BY DEF OpToRel
  <2>2. QED
    BY <2>1, NatLessThanWellFounded
<1>2. T \subseteq Nat /\ T # {}
  <2>1. \A i \in S : i \in Nat /\ i <= n
    OBVIOUS
  <2>2. \A i \in S : n - i \in Nat
    BY <2>1
  <2>3. QED
    BY <2>2
<1> HIDE DEF R
<1>3. PICK x \in T : \A y \in T : ~ (<<y, x>> \in R)
  BY <1>1, <1>2, WFMin
<1>4. PICK m \in S : x = n - m
  OBVIOUS
<1>5. ASSUME NEW i \in S PROVE m >= i
  <2>1. n - i \in T /\ n - i \in Nat /\ x \in Nat
    BY <1>2
  <2>2. ~ (n - i < x)
    BY <1>3, <2>1 DEF R
  <2>3. QED
    BY <1>4, <2>2
<1>6. QED
  BY <1>5 DEF Max

-----------------------------------------------------------------------------
(* Types *)

Request == [pc : OpPCs, ask : Asks, s : Session]

\* What a request holds: a session with a quiz stands in quiz or in results, and
\* whoever is about to write the quiz has one.
Sound(o) ==
    /\ o.s.id # 0 => o.s.phase \in {"quiz", "results"}
    /\ o.pc = "latest" => o.s.phase \in {"quiz", "results"} /\ o.s.id = 0
    /\ o.pc \in {"save", "finish", "count"} => o.s.id # 0
    /\ o.pc = "turn" /\ o.ask = "result" => o.s.id # 0
    /\ o.pc = "finish" \/ (o.pc = "turn" /\ o.ask = "result") => o.s.phase = "results"

Typed ==
    /\ TypeOK
    /\ \A t \in Tabs : Sound(op[t])
    /\ job.pc # "idle" => minted < MaxQuizzes

LEMMA NoQuizType == ASSUME NEW ph \in Phases PROVE NoQuiz(ph) \in Session
BY StudyQuizAssumption DEF NoQuiz, Session

LEMMA InPhaseType ==
    ASSUME NEW s \in Session, NEW ph \in Phases
    PROVE  /\ InPhase(s, ph) \in Session
           /\ InPhase(s, ph).phase = ph /\ InPhase(s, ph).id = s.id
           /\ InPhase(s, ph).finished = s.finished /\ InPhase(s, ph).exam = s.exam
BY DEF InPhase, Session

LEMMA EditsType ==
    ASSUME NEW s \in Session, NEW a \in Mutations, NEW e \in Edits(s, a)
    PROVE  /\ e \in Session /\ e.phase = s.phase /\ e.id = s.id /\ e.finished = s.finished
           /\ e.exam = s.exam
<1>1. \A f \in BOOLEAN : /\ WithFull(s, f) \in Session /\ WithFull(s, f).phase = s.phase
                         /\ WithFull(s, f).id = s.id /\ WithFull(s, f).finished = s.finished
                         /\ WithFull(s, f).exam = s.exam
  BY DEF WithFull, Session
<1>2. e \in {s, WithFull(s, TRUE), WithFull(s, FALSE)}
  BY DEF Mutations, Edits, AnswerEdits, ReanswerEdits, NextEdits, ExamEdits
<1>3. QED
  BY <1>1, <1>2

\* Going on with a sound session keeps the requests typed and sound.
LEMMA GotoType ==
    ASSUME Typed, NEW t \in Tabs, NEW l \in OpPCs, NEW s \in Session, Goto(t, l, s),
           Sound([pc |-> l, ask |-> op[t].ask, s |-> s])
    PROVE  /\ op' \in [Tabs -> Request] /\ \A u \in Tabs : Sound(op'[u])
           /\ op'[t] = [pc |-> l, ask |-> op[t].ask, s |-> s]
           /\ \A u \in Tabs \ {t} : op'[u] = op[u]
<1>1. op \in [Tabs -> Request] /\ op[t].ask \in Asks
  BY DEF Typed, TypeOK, Request
<1> DEFINE r == [pc |-> l, ask |-> op[t].ask, s |-> s]
<1>2. r \in Request /\ Sound(r) /\ op' = [op EXCEPT ![t] = r]
  BY <1>1 DEF Request, Goto
<1> HIDE DEF r
<1>3. \A u \in Tabs : Sound(op[u])
  BY DEF Typed
<1>4. op' \in [Tabs -> Request] /\ op'[t] = r /\ \A u \in Tabs \ {t} : op'[u] = op[u]
  BY <1>1, <1>2
<1>5. \A u \in Tabs : Sound(op'[u])
  BY <1>2, <1>3, <1>4
<1>6. QED
  BY <1>4, <1>5 DEF r

\* So does the end of a request.
LEMMA LeaveType ==
    ASSUME Typed, NEW t \in Tabs, Leave(t)
    PROVE  /\ op' \in [Tabs -> Request] /\ \A u \in Tabs : Sound(op'[u])
           /\ op'[t] = NoRequest /\ \A u \in Tabs \ {t} : op'[u] = op[u]
<1>1. NoRequest \in Request /\ Sound(NoRequest)
  BY NoQuizType DEF NoRequest, Request, Sound, OpPCs, Asks, NoQuiz, Phases
<1>2. op \in [Tabs -> Request] /\ \A u \in Tabs : Sound(op[u])
  BY DEF Typed, TypeOK, Request
<1>3. op' \in [Tabs -> Request] /\ op'[t] = NoRequest /\ \A u \in Tabs \ {t} : op'[u] = op[u]
  BY <1>1, <1>2 DEF Leave
<1>4. QED
  BY <1>1, <1>2, <1>3

\* So does the beginning of one, whose session takes the phase of the study.
LEMMA LoadType ==
    ASSUME Typed, NEW t \in Tabs, NEW a \in Asks, Load(t, a)
    PROVE  /\ op' \in [Tabs -> Request] /\ \A u \in Tabs : Sound(op'[u])
           /\ op'[t].s.id = 0 /\ op'[t].pc \in {"loaded", "latest"}
           /\ \A u \in Tabs \ {t} : op'[u] = op[u]
<1>1. study \in Phases /\ op \in [Tabs -> Request] /\ \A u \in Tabs : Sound(op[u])
  BY DEF Load, StudyGet, Typed, TypeOK, Request
<1> DEFINE s == NoQuiz(study)
           r == [pc |-> IF study = "study" THEN "loaded" ELSE "latest", ask |-> a, s |-> s]
<1>2. s \in Session /\ s.phase = study /\ s.id = 0
  BY <1>1, NoQuizType DEF NoQuiz
<1>3. r \in Request /\ Sound(r) /\ r.s.id = 0 /\ r.pc \in {"loaded", "latest"}
  BY <1>1, <1>2 DEF Request, OpPCs, Sound, Phases
<1>4. op' = [op EXCEPT ![t] = r]
  BY DEF Load
<1> HIDE DEF r
<1>5. QED
  BY <1>1, <1>3, <1>4

\* What the latest quiz adds to the session.
LEMMA LatestType ==
    ASSUME Typed, NEW t \in Tabs, Latest(t)
    PROVE  /\ op' \in [Tabs -> Request] /\ \A u \in Tabs : Sound(op'[u])
           /\ op'[t].pc = "loaded" /\ \A u \in Tabs \ {t} : op'[u] = op[u]
           /\ \/ op'[t].s.id = 0
              \/ op'[t].s.id \in Rows /\ op'[t].s.finished = quiz[op'[t].s.id].finished
<1> DEFINE s == op[t].s
           i == Max(Rows)
           n == [phase |-> s.phase, id |-> i, full |-> quiz[i].full,
                 finished |-> quiz[i].finished, exam |-> quiz[i].exam]
<1>1. /\ s \in Session /\ Sound(op[t]) /\ op[t].pc = "latest" /\ s.phase \in {"quiz", "results"}
      /\ quiz \in [Ids -> Row] /\ "loaded" \in OpPCs
  BY DEF Latest, Typed, TypeOK, Sound, OpPCs
<1>2. CASE Goto(t, "loaded", s)
  <2>1. Goto(t, "loaded", s)
    BY <1>2
  <2>2. Sound([pc |-> "loaded", ask |-> op[t].ask, s |-> s])
    BY <1>1 DEF Sound
  <2>3. /\ op' \in [Tabs -> Request] /\ \A u \in Tabs : Sound(op'[u])
        /\ op'[t] = [pc |-> "loaded", ask |-> op[t].ask, s |-> s]
        /\ \A u \in Tabs \ {t} : op'[u] = op[u]
    BY <1>1, <2>1, <2>2, GotoType
  <2>4. s.id = 0
    BY <1>1 DEF Sound
  <2>5. QED
    BY <2>3, <2>4
<1>3. CASE Rows # {} /\ Goto(t, "loaded", n)
  <2>1. Goto(t, "loaded", n)
    BY <1>3
  <2>2. i \in Rows /\ i \in Ids /\ i \in 0..MaxQuizzes
    <3>1. Rows \in SUBSET (1..MaxQuizzes) /\ MaxQuizzes \in Nat
      BY StudyQuizAssumption DEF Rows, Ids
    <3>2. i \in Rows
      BY <1>3, <3>1, MaxIn, Zenon
    <3> HIDE DEF i
    <3>3. i \in 1..MaxQuizzes
      BY <3>1, <3>2
    <3>4. QED
      BY <3>1, <3>2, <3>3 DEF Ids
  <2>3. n \in Session /\ n.id = i /\ n.finished = quiz[i].finished /\ n.phase = s.phase
    BY <1>1, <2>2 DEF Session, Row, Phases
  <2> HIDE DEF n, i
  <2>4. Sound([pc |-> "loaded", ask |-> op[t].ask, s |-> n])
    BY <1>1, <2>3 DEF Sound
  <2>5. /\ op' \in [Tabs -> Request] /\ \A u \in Tabs : Sound(op'[u])
        /\ op'[t] = [pc |-> "loaded", ask |-> op[t].ask, s |-> n]
        /\ \A u \in Tabs \ {t} : op'[u] = op[u]
    BY <1>1, <2>1, <2>3, <2>4, GotoType
  <2>6. QED
    BY <2>2, <2>3, <2>5
<1>4. Goto(t, "loaded", s) \/ (Rows # {} /\ Goto(t, "loaded", n))
  BY Zenon DEF Latest
<1>5. QED
  BY <1>2, <1>3, <1>4, Zenon

\* A decision leaves the session, or keeps its quiz and what it knows of it.
LEMMA DecidedType ==
    ASSUME Typed, NEW t \in Tabs,
           Mutate(t) \/ Diagnostic(t) \/ Result(t) \/ Page(t) \/ Reset(t)
    PROVE  /\ op' \in [Tabs -> Request] /\ \A u \in Tabs : Sound(op'[u])
           /\ op[t].pc = "loaded" /\ op'[t].pc \notin {"loaded", "latest", "count"}
           /\ \A u \in Tabs \ {t} : op'[u] = op[u]
           /\ \/ op'[t].s.id = 0
              \/ op'[t].s.id = op[t].s.id /\ op'[t].s.finished = op[t].s.finished
           /\ UNCHANGED <<study, quiz, minted, expired, job, counted>>
<1> DEFINE s == op[t].s
<1>1. /\ s \in Session /\ Sound(op[t]) /\ op[t].ask \in Asks
      /\ expired \subseteq Ids /\ 0 \notin Ids
  BY StudyQuizAssumption DEF Typed, TypeOK, Ids
<1>2. op[t].pc = "loaded" /\ UNCHANGED <<study, quiz, minted, expired, job, counted>>
  BY DEF Mutate, Diagnostic, Result, Page, Reset, Asked, Decided
\* It is enough to say with which session the request goes on, and where.
<1>3. ASSUME NEW l \in OpPCs \ {"loaded", "latest", "count"}, NEW n \in Session, Goto(t, l, n),
             Sound([pc |-> l, ask |-> op[t].ask, s |-> n]),
             n.id = 0 \/ (n.id = s.id /\ n.finished = s.finished)
      PROVE  /\ op' \in [Tabs -> Request] /\ \A u \in Tabs : Sound(op'[u])
             /\ op'[t].pc \notin {"loaded", "latest", "count"}
             /\ \A u \in Tabs \ {t} : op'[u] = op[u]
             /\ op'[t].s.id = 0 \/ (op'[t].s.id = s.id /\ op'[t].s.finished = s.finished)
  <2>1. /\ op' \in [Tabs -> Request] /\ \A u \in Tabs : Sound(op'[u])
        /\ op'[t] = [pc |-> l, ask |-> op[t].ask, s |-> n]
        /\ \A u \in Tabs \ {t} : op'[u] = op[u]
    BY <1>3, GotoType
  <2>2. QED
    BY <1>3, <2>1
<1>4. CASE Leave(t)
  <2>1. /\ op' \in [Tabs -> Request] /\ \A u \in Tabs : Sound(op'[u])
        /\ op'[t] = NoRequest /\ \A u \in Tabs \ {t} : op'[u] = op[u]
    BY <1>4, LeaveType
  <2>2. NoRequest.pc \notin {"loaded", "latest", "count"} /\ NoRequest.s.id = 0
    BY DEF NoRequest, NoQuiz
  <2>3. QED
    BY <1>2, <2>1, <2>2
<1> DEFINE r == InPhase(s, "results")
<1>5. /\ r \in Session /\ r.phase = "results" /\ r.id = s.id /\ r.finished = s.finished
  BY <1>1, InPhaseType DEF Phases
<1>6. TimedOut(s) => s.id # 0
  BY <1>1 DEF TimedOut
<1>7. ASSUME NEW l \in {"turn", "finish"}, Goto(t, l, r), s.id # 0 
      PROVE  Sound([pc |-> l, ask |-> op[t].ask, s |-> r]) /\ l \in OpPCs \ {"loaded", "latest", "count"}
  BY <1>5, <1>7 DEF Sound, OpPCs
<1> HIDE DEF r
<1>8. CASE \E l \in {"turn", "finish"} : Goto(t, l, r) /\ s.id # 0
  BY <1>2, <1>3, <1>5, <1>7, <1>8
<1>9. ASSUME NEW e \in Session, Goto(t, "save", e), s.id # 0,
             e.id = s.id /\ e.phase = s.phase /\ e.finished = s.finished
      PROVE  /\ op' \in [Tabs -> Request] /\ \A u \in Tabs : Sound(op'[u])
             /\ op'[t].pc \notin {"loaded", "latest", "count"}
             /\ \A u \in Tabs \ {t} : op'[u] = op[u]
             /\ op'[t].s.id = 0 \/ (op'[t].s.id = s.id /\ op'[t].s.finished = s.finished)
  <2>1. Sound([pc |-> "save", ask |-> op[t].ask, s |-> e]) /\ "save" \in OpPCs \ {"loaded", "latest", "count"}
    BY <1>1, <1>9 DEF Sound, OpPCs
  <2>2. QED
    BY <1>3, <1>9, <2>1
<1>10. CASE Mutate(t)
  <2>1. CASE \E e \in Edits(s, op[t].ask) : s.id # 0 /\ Goto(t, "save", e)
    <3>1. op[t].ask \in Mutations
      BY <1>10 DEF Mutate, Asked
    <3>2. QED
      BY <1>1, <1>2, <1>9, <2>1, <3>1, EditsType
  <2>2. QED
    BY <1>4, <1>6, <1>8, <1>10, <2>1 DEF Mutate, r
<1>11. CASE Diagnostic(t)
  BY <1>1, <1>2, <1>4, <1>9, <1>11 DEF Diagnostic
<1>12. CASE Result(t)
  BY <1>1, <1>2, <1>4, <1>8, <1>9, <1>12 DEF Result, r
\* Without a quiz only the study is written.
<1>13. ASSUME NEW n \in Session, Goto(t, "turn", n), n.id = 0, op[t].ask # "result"
      PROVE  /\ op' \in [Tabs -> Request] /\ \A u \in Tabs : Sound(op'[u])
             /\ op'[t].pc \notin {"loaded", "latest", "count"}
             /\ \A u \in Tabs \ {t} : op'[u] = op[u]
             /\ op'[t].s.id = 0 \/ (op'[t].s.id = s.id /\ op'[t].s.finished = s.finished)
  <2>1. Sound([pc |-> "turn", ask |-> op[t].ask, s |-> n]) /\ "turn" \in OpPCs \ {"loaded", "latest", "count"}
    BY <1>13 DEF Sound, OpPCs
  <2>2. QED
    BY <1>3, <1>13, <2>1
<1>14. CASE Page(t)
  <2>1. InPhase(s, "study") \in Session /\ InPhase(s, "study").id = s.id
    BY <1>1, InPhaseType DEF Phases
  <2>2. op[t].ask # "result"
    BY <1>14 DEF Page, Asked
  <2>3. \/ Goto(t, "finish", r) /\ s.id # 0
        \/ Goto(t, "turn", InPhase(s, "study")) /\ s.id = 0
        \/ Leave(t)
    BY <1>6, <1>14 DEF Page, r
  <2>4. QED
    BY <1>2, <1>4, <1>8, <1>13, <2>1, <2>2, <2>3
<1>15. CASE Reset(t)
  <2>1. NoQuiz("study") \in Session /\ NoQuiz("study").id = 0 /\ op[t].ask # "result"
    BY <1>15, NoQuizType DEF NoQuiz, Phases, Reset, Asked
  <2>2. QED
    BY <1>2, <1>13, <1>15, <2>1 DEF Reset
<1>16. QED
  BY <1>10, <1>11, <1>12, <1>14, <1>15

-----------------------------------------------------------------------------
(* What the writes do to the rows *)

\* A save changes one row and only if it is there.
LEMMA PersistedRow ==
    ASSUME Typed, NEW s \in Session, s.phase \in {"quiz", "results"}, Persisted(s)
    PROVE  /\ quiz' \in [Ids -> Row]
           /\ \A i \in Ids : i \notin Rows \/ i # s.id => quiz'[i] = quiz[i]
           /\ \A i \in Rows : i = s.id => /\ quiz'[i].phase # "none"
                                          /\ quiz'[i].finished = (s.finished \/ s.phase = "results")
<1>1. quiz \in [Ids -> Row]
  BY DEF Typed, TypeOK
<1>2. CASE s.id \notin Rows
  BY <1>1, <1>2 DEF Persisted
<1>3. CASE s.id \in Rows
  <2> DEFINE r == [phase |-> s.phase, full |-> s.full,
                   finished |-> s.finished \/ s.phase = "results", exam |-> s.exam]
  <2>1. r \in Row /\ r.phase # "none" /\ r.finished = (s.finished \/ s.phase = "results")
    BY DEF Row, Session
  <2>2. quiz' = [quiz EXCEPT ![s.id] = r]
    BY <1>3 DEF Persisted
  <2> HIDE DEF r
  <2>3. QED
    BY <1>1, <1>3, <2>1, <2>2 DEF Rows
<1>4. QED
  BY <1>2, <1>3

\* A clearing keeps the finished rows and removes the others.
LEMMA ClearedRow ==
    ASSUME Typed, Cleared
    PROVE  /\ quiz' \in [Ids -> Row]
           /\ \A i \in Ids : quiz'[i] = IF quiz[i].finished THEN quiz[i] ELSE NoRow
BY DEF Typed, TypeOK, Cleared, NoRow, Row

\* The writes of a request.
LEMMA WriteType ==
    ASSUME Typed, NEW t \in Tabs, Save(t) \/ Finish(t) \/ Count(t) \/ Turn(t) \/ Clear(t)
    PROVE  /\ op' \in [Tabs -> Request] /\ \A u \in Tabs : Sound(op'[u])
           /\ \A u \in Tabs \ {t} : op'[u] = op[u]
           /\ \/ op'[t] = NoRequest
              \/ op'[t].s = op[t].s /\ op'[t].ask = op[t].ask
           /\ op'[t].pc \in {"idle", "finish", "count", "turn", "clear"}
           /\ op'[t].pc = "finish" => op[t].pc = "turn" /\ op[t].ask = "result"
           /\ op'[t].pc = "count" => op[t].pc = "finish" /\ ~op[t].s.finished /\ Persisted(op[t].s)
           /\ op'[t].pc = "turn" => op[t].ask = "page"
           /\ study' \in Phases \cup {"gone"}
           /\ quiz' \in [Ids -> Row] /\ counted' \in [Ids -> Nat]
           /\ UNCHANGED <<minted, expired, job>>
<1> DEFINE s == op[t].s
<1>1. /\ s \in Session /\ Sound(op[t]) /\ op[t].ask \in Asks
      /\ quiz \in [Ids -> Row] /\ counted \in [Ids -> Nat] /\ study \in Phases \cup {"gone"}
  BY DEF Typed, TypeOK
<1> DEFINE Moved ==
             /\ op' \in [Tabs -> Request] /\ \A u \in Tabs : Sound(op'[u])
             /\ \A u \in Tabs \ {t} : op'[u] = op[u]
<1>2. ASSUME Leave(t)
      PROVE  Moved /\ op'[t] = NoRequest /\ op'[t].pc = "idle"
  BY <1>2, LeaveType DEF NoRequest
<1>3. ASSUME NEW l \in OpPCs, Goto(t, l, s), Sound([pc |-> l, ask |-> op[t].ask, s |-> s])
      PROVE  Moved /\ op'[t].s = s /\ op'[t].ask = op[t].ask /\ op'[t].pc = l
  BY <1>1, <1>3, GotoType
\* The page moves the study after it finished the quiz.
<1>4. ASSUME AfterFinish(t, s), op[t].pc \in {"finish", "count"}
      PROVE  /\ Moved /\ op'[t].pc \in {"idle", "turn"}
             /\ op'[t] = NoRequest \/ (op'[t].s = s /\ op'[t].ask = op[t].ask)
             /\ op'[t].pc = "turn" => op[t].ask = "page"
  <2>1. CASE op[t].ask = "page"
    <3>1. Goto(t, "turn", s) /\ "turn" \in OpPCs
      BY <1>4, <2>1 DEF AfterFinish, OpPCs
    <3>2. Sound([pc |-> "turn", ask |-> op[t].ask, s |-> s])
      BY <1>1, <2>1 DEF Sound
    <3>3. QED
      BY <1>3, <2>1, <3>1, <3>2
  <2>2. CASE op[t].ask # "page"
    BY <1>2, <1>4, <2>2 DEF AfterFinish
  <2>3. QED
    BY <2>1, <2>2
<1>5. CASE Save(t)
  <2>1. s.phase \in {"quiz", "results"}
    BY <1>1, <1>5 DEF Save, Sound
  <2>2. quiz' \in [Ids -> Row]
    BY <1>1, <1>5, <2>1, PersistedRow DEF Save
  <2>3. Leave(t) /\ UNCHANGED <<study, minted, expired, job, counted>>
    BY <1>5 DEF Save
  <2>4. QED
    BY <1>1, <1>2, <2>2, <2>3
<1>6. CASE Finish(t)
  <2>1. op[t].pc = "finish" /\ s.id # 0 /\ s.phase \in {"quiz", "results"}
    BY <1>1, <1>6 DEF Finish, Sound
  <2>2. quiz' \in [Ids -> Row] /\ UNCHANGED <<study, minted, expired, job, counted>>
    BY <1>1, <1>6, <2>1, PersistedRow DEF Finish
  <2>3. Sound([pc |-> "count", ask |-> op[t].ask, s |-> s]) /\ "count" \in OpPCs
    BY <1>1, <2>1 DEF Sound, OpPCs
  <2>4. \/ Persisted(s) /\ AfterFinish(t, s)
        \/ Persisted(s) /\ ~s.finished /\ Goto(t, "count", s)
        \/ Leave(t)
    BY <1>6 DEF Finish
  <2>5. QED
    BY <1>1, <1>2, <1>3, <1>4, <2>1, <2>2, <2>3, <2>4
<1>7. CASE Count(t)
  <2>1. op[t].pc = "count" /\ UNCHANGED <<study, quiz, minted, expired, job>>
    BY <1>7 DEF Count
  <2>2. counted' \in [Ids -> Nat]
    <3>1. CASE UNCHANGED counted
      BY <1>1, <3>1
    <3>2. CASE counted' = [counted EXCEPT ![s.id] = IF @ < MaxCounted THEN @ + 1 ELSE @]
      <4>1. s.id \in Ids
        BY <1>1, <2>1, StudyQuizAssumption DEF Session, Ids, Sound
      <4>2. counted[s.id] \in Nat /\ counted[s.id] + 1 \in Nat
        BY <1>1, <4>1
      <4>3. (IF counted[s.id] < MaxCounted THEN counted[s.id] + 1 ELSE counted[s.id]) \in Nat
        BY <4>2
      <4>4. QED
        BY <1>1, <3>2, <4>1, <4>3
    <3>3. QED
      BY <1>7, <3>1, <3>2 DEF Count
  <2>3. AfterFinish(t, s) \/ Leave(t)
    BY <1>7 DEF Count
  <2>4. QED
    BY <1>1, <1>2, <1>4, <2>1, <2>2, <2>3
<1>8. CASE Turn(t)
  <2>1. /\ op[t].pc = "turn" /\ study' \in Phases \cup {"gone"}
        /\ UNCHANGED <<quiz, minted, expired, job, counted>>
    BY <1>1, <1>8 DEF Turn, Session
  <2>2. AfterTurn(t) \/ Leave(t)
    BY <1>8 DEF Turn
  <2>3. CASE op[t].ask = "result" /\ AfterTurn(t)
    <3>1. Goto(t, "finish", s) /\ "finish" \in OpPCs
      BY <2>3 DEF AfterTurn, OpPCs
    <3>2. Sound([pc |-> "finish", ask |-> op[t].ask, s |-> s])
      BY <1>1, <2>1, <2>3 DEF Sound
    <3>3. QED
      BY <1>1, <1>3, <2>1, <2>3, <3>1, <3>2
  <2>4. CASE op[t].ask = "reset" /\ AfterTurn(t)
    <3>1. Goto(t, "clear", s) /\ "clear" \in OpPCs
      BY <2>4 DEF AfterTurn, OpPCs
    <3>2. Sound([pc |-> "clear", ask |-> op[t].ask, s |-> s])
      BY <1>1, <2>1 DEF Sound
    <3>3. QED
      BY <1>1, <1>3, <2>1, <3>1, <3>2
  <2>5. CASE Leave(t)
    BY <1>1, <1>2, <2>1, <2>5
  <2>6. QED
    BY <2>2, <2>3, <2>4, <2>5 DEF AfterTurn
<1>9. CASE Clear(t)
  <2>1. quiz' \in [Ids -> Row]
    BY <1>1, <1>9, ClearedRow DEF Clear
  <2>2. Leave(t) /\ UNCHANGED <<study, minted, expired, job, counted>>
    BY <1>9 DEF Clear
  <2>3. QED
    BY <1>1, <1>2, <2>1, <2>2
<1>10. QED
  BY <1>5, <1>6, <1>7, <1>8, <1>9

-----------------------------------------------------------------------------
(* Every step keeps the types *)

\* No step changes the setting.
LEMMA SettingStays == [Next]_vars => setting' = setting
<1> SUFFICES ASSUME [Next]_vars PROVE setting' = setting
  OBVIOUS
<1>1. ASSUME NEW t \in Tabs, Handle(t) \/ \E a \in Asks : Load(t, a) PROVE setting' = setting
  BY <1>1 DEF Handle, Load, Latest, Mutate, Diagnostic, Result, Page, Reset, Decided, Save,
              Finish, Count, Turn, Clear
<1>2. (\E e \in BOOLEAN : Start(e)) \/ RunJob => setting' = setting
  BY DEF Start, RunJob, Generate, JobClear, JobTurn, JobInsert
<1>3. (\E i \in Ids : Expire(i)) \/ DeleteStudy \/ Crash \/ UNCHANGED vars => setting' = setting
  BY DEF Expire, DeleteStudy, Crash, vars
<1>4. QED
  BY <1>1, <1>2, <1>3 DEF Next

LEMMA InitTyped == Init => Typed
<1> SUFFICES ASSUME Init PROVE Typed
  OBVIOUS
<1>1. NoRequest \in Request /\ Sound(NoRequest)
  BY NoQuizType DEF NoRequest, Request, Sound, OpPCs, Asks, NoQuiz, Phases
<1>2. NoRow \in Row /\ NoJob \in [pc : JobPCs, exam : BOOLEAN] /\ NoJob.pc = "idle"
  BY DEF NoRow, Row, NoJob, JobPCs
<1>3. /\ 0 \in 0..MaxQuizzes /\ study \in Phases /\ minted = 0 /\ expired = {} /\ job = NoJob
      /\ setting \in Settings
  BY StudyQuizAssumption DEF Init, Phases
<1>4. /\ quiz \in [Ids -> Row] /\ counted \in [Ids -> Nat]
      /\ op \in [Tabs -> Request] /\ \A t \in Tabs : op[t] = NoRequest
  BY <1>1, <1>2 DEF Init
<1>5. QED
  BY <1>1, <1>2, <1>3, <1>4 DEF Typed, TypeOK, Request

\* The steps of the job.
LEMMA JobType ==
    ASSUME Typed, RunJob \/ \E e \in BOOLEAN : Start(e)
    PROVE  Typed'
<1>1. /\ setting \in Settings
      /\ study \in Phases \cup {"gone"} /\ quiz \in [Ids -> Row] /\ minted \in 0..MaxQuizzes
      /\ expired \subseteq Ids /\ job \in [pc : JobPCs, exam : BOOLEAN] /\ counted \in [Ids -> Nat]
      /\ op \in [Tabs -> Request] /\ \A t \in Tabs : Sound(op[t])
      /\ job.pc # "idle" => minted < MaxQuizzes
  BY DEF Typed, TypeOK, Request
<1>2. op' = op /\ expired' = expired /\ counted' = counted /\ setting' = setting
  BY DEF RunJob, Start, Generate, JobClear, JobTurn, JobInsert
<1>3. /\ \A l \in JobPCs : Proceed(l) => job' \in [pc : JobPCs, exam : BOOLEAN]
      /\ Stop => job' \in [pc : JobPCs, exam : BOOLEAN] /\ job'.pc = "idle"
  <2>1. job.exam \in BOOLEAN /\ NoJob \in [pc : JobPCs, exam : BOOLEAN] /\ NoJob.pc = "idle"
    BY <1>1 DEF NoJob, JobPCs
  <2>2. QED
    BY <2>1 DEF Proceed, Stop
<1>4. ASSUME NEW e \in BOOLEAN, Start(e) PROVE Typed'
  <2>1. /\ job' \in [pc : JobPCs, exam : BOOLEAN] /\ minted' = minted /\ minted < MaxQuizzes
        /\ study' = study /\ quiz' = quiz
    BY <1>4 DEF Start, JobPCs
  <2>2. QED
    BY <1>1, <1>2, <2>1 DEF Typed, TypeOK, Request
<1>5. CASE Generate \/ JobTurn
  <2>1. /\ job' \in [pc : JobPCs, exam : BOOLEAN] /\ minted' = minted /\ minted < MaxQuizzes
        /\ study' \in Phases \cup {"gone"} /\ quiz' = quiz
    BY <1>1, <1>3, <1>5 DEF Generate, JobTurn, JobPCs, Phases
  <2>2. QED
    BY <1>1, <1>2, <2>1 DEF Typed, TypeOK, Request
<1>6. CASE JobClear
  <2>0. Proceed("turn") \/ Stop
    BY <1>6 DEF JobClear
  <2>1. /\ job' \in [pc : JobPCs, exam : BOOLEAN] /\ minted' = minted /\ minted < MaxQuizzes
        /\ study' = study
    BY <1>1, <1>3, <1>6, <2>0 DEF JobClear, JobPCs
  <2>2. quiz' \in [Ids -> Row]
    BY <1>1, <1>6, ClearedRow DEF JobClear
  <2>3. QED
    BY <1>1, <1>2, <2>1, <2>2 DEF Typed, TypeOK, Request
<1>7. CASE JobInsert
  <2>1. job' \in [pc : JobPCs, exam : BOOLEAN] /\ job'.pc = "idle" /\ study' = study
    BY <1>3, <1>7 DEF JobInsert
  <2>2. minted < MaxQuizzes /\ minted + 1 \in Ids
    BY <1>1, <1>7, StudyQuizAssumption DEF JobInsert, Ids
  <2>3. minted' \in 0..MaxQuizzes
    BY <1>1, <1>7, <2>2 DEF JobInsert, Ids
  <2>4. [phase |-> "quiz", full |-> FALSE, finished |-> FALSE, exam |-> job.exam] \in Row
    BY <1>1 DEF Row
  <2>5. quiz' \in [Ids -> Row]
    BY <1>1, <1>7, <2>2, <2>4 DEF JobInsert
  <2>6. QED
    BY <1>1, <1>2, <2>1, <2>3, <2>5 DEF Typed, TypeOK, Request
<1>8. QED
  BY <1>4, <1>5, <1>6, <1>7 DEF RunJob

LEMMA StepTyped == Typed /\ [Next]_vars => Typed'
<1> SUFFICES ASSUME Typed, [Next]_vars PROVE Typed'
  OBVIOUS
<1>1. /\ setting \in Settings
      /\ study \in Phases \cup {"gone"} /\ quiz \in [Ids -> Row] /\ minted \in 0..MaxQuizzes
      /\ expired \subseteq Ids /\ job \in [pc : JobPCs, exam : BOOLEAN] /\ counted \in [Ids -> Nat]
      /\ op \in [Tabs -> Request] /\ \A t \in Tabs : Sound(op[t])
      /\ job.pc # "idle" => minted < MaxQuizzes
  BY DEF Typed, TypeOK, Request
<1>0. setting' = setting
  BY SettingStays
<1>2. ASSUME NEW t \in Tabs, NEW a \in Asks, Load(t, a) PROVE Typed'
  <2>1. UNCHANGED <<study, quiz, minted, expired, job, counted>>
    BY <1>2 DEF Load
  <2>2. QED
    BY <1>0, <1>1, <1>2, <2>1, LoadType DEF Typed, TypeOK, Request
<1>3. ASSUME NEW t \in Tabs, Latest(t) PROVE Typed'
  <2>1. UNCHANGED <<study, quiz, minted, expired, job, counted>>
    BY <1>3 DEF Latest
  <2>2. QED
    BY <1>0, <1>1, <1>3, <2>1, LatestType DEF Typed, TypeOK, Request
<1>4. ASSUME NEW t \in Tabs, Mutate(t) \/ Diagnostic(t) \/ Result(t) \/ Page(t) \/ Reset(t)
      PROVE  Typed'
  BY <1>0, <1>1, <1>4, DecidedType DEF Typed, TypeOK, Request
<1>5. ASSUME NEW t \in Tabs, Save(t) \/ Finish(t) \/ Count(t) \/ Turn(t) \/ Clear(t)
      PROVE  Typed'
  BY <1>0, <1>1, <1>5, WriteType DEF Typed, TypeOK, Request
<1>6. CASE RunJob \/ \E e \in BOOLEAN : Start(e)
  BY <1>6, JobType
<1>7. CASE \E i \in Ids : Expire(i)
  BY <1>0, <1>1, <1>7 DEF Expire, Typed, TypeOK, Request
<1>8. CASE DeleteStudy
  <2>1. NoRow \in Row
    BY DEF NoRow, Row
  <2>2. QED
    BY <1>0, <1>1, <1>8, <2>1 DEF DeleteStudy, Typed, TypeOK, Request
<1>9. CASE Crash
  <2>1. NoRequest \in Request /\ Sound(NoRequest) /\ NoJob \in [pc : JobPCs, exam : BOOLEAN]
        /\ NoJob.pc = "idle"
    BY NoQuizType
       DEF NoRequest, Request, Sound, OpPCs, Asks, NoQuiz, Phases, NoJob, JobPCs
  <2>2. QED
    BY <1>0, <1>1, <1>9, <2>1 DEF Crash, Typed, TypeOK, Request
<1>10. CASE UNCHANGED vars
  BY <1>0, <1>1, <1>10 DEF vars, Typed, TypeOK, Request
<1>11. QED
  BY <1>2, <1>3, <1>4, <1>5, <1>6, <1>7, <1>8, <1>9, <1>10 DEF Next, Handle

\* The study, its quizzes, the job and the requests keep their types.
THEOREM TypeCorrect == Spec => []TypeOK
<1>1. Typed => TypeOK
  BY DEF Typed
<1>2. QED
  BY <1>1, InitTyped, StepTyped, PTL DEF Spec

-----------------------------------------------------------------------------
(* A removed quiz stays removed *)

\* What a step may do to the rows.
LEMMA RowStep ==
    ASSUME Typed, [Next]_vars
    PROVE  \/ UNCHANGED <<quiz, minted>>
           \/ /\ \E t \in Tabs : op[t].pc \in {"save", "finish"} /\ Persisted(op[t].s)
              /\ minted' = minted
           \/ Cleared /\ minted' = minted
           \/ study' = "gone" /\ quiz' = [i \in Ids |-> NoRow] /\ minted' = minted
           \/ /\ job.pc = "insert" /\ minted' = minted + 1 /\ minted < MaxQuizzes
              /\ quiz' = [quiz EXCEPT ![minted + 1] =
                            [phase |-> "quiz", full |-> FALSE, finished |-> FALSE,
                             exam |-> job.exam]]
              /\ UNCHANGED <<op, counted>> /\ job' = NoJob
<1>1. ASSUME NEW t \in Tabs,
             \/ \E a \in Asks : Load(t, a)
             \/ Latest(t) \/ Mutate(t) \/ Diagnostic(t) \/ Result(t) \/ Page(t) \/ Reset(t)
             \/ Count(t) \/ Turn(t)
      PROVE  UNCHANGED <<quiz, minted>>
  BY <1>1 DEF Load, Latest, Mutate, Diagnostic, Result, Page, Reset, Decided, Count, Turn
<1>2. ASSUME NEW t \in Tabs, Save(t) \/ Finish(t)
      PROVE  /\ minted' = minted /\ op[t].pc \in {"save", "finish"}
             /\ Persisted(op[t].s) \/ UNCHANGED quiz
  BY <1>2 DEF Save, Finish
<1>3. ASSUME NEW t \in Tabs, Clear(t) PROVE minted' = minted /\ (Cleared \/ UNCHANGED quiz)
  BY <1>3 DEF Clear
<1>4. (\E e \in BOOLEAN : Start(e)) \/ Generate \/ JobTurn => UNCHANGED <<quiz, minted>>
  BY DEF Start, Generate, JobTurn
<1>5. JobClear => minted' = minted /\ (Cleared \/ UNCHANGED quiz)
  BY DEF JobClear
<1>6. JobInsert => \/ UNCHANGED <<quiz, minted>>
                   \/ /\ job.pc = "insert" /\ minted' = minted + 1 /\ minted < MaxQuizzes
                      /\ quiz' = [quiz EXCEPT ![minted + 1] =
                                    [phase |-> "quiz", full |-> FALSE, finished |-> FALSE,
                                     exam |-> job.exam]]
                      /\ UNCHANGED <<op, counted>> /\ job' = NoJob
  BY DEF JobInsert, Stop, Typed
<1>7. (\E i \in Ids : Expire(i)) \/ Crash \/ UNCHANGED vars => UNCHANGED <<quiz, minted>>
  BY DEF Expire, Crash, vars
<1>8. DeleteStudy => study' = "gone" /\ quiz' = [i \in Ids |-> NoRow] /\ minted' = minted
  BY DEF DeleteStudy
<1>9. QED
  BY <1>1, <1>2, <1>3, <1>4, <1>5, <1>6, <1>7, <1>8 DEF Next, Handle, RunJob

\* A quiz that the reset, the job or the deletion removed never comes back, for any
\* number of requests that still hold a copy of it.
THEOREM NeverBack == Spec => RemovedForGood
<1> DEFINE Gone == \A i \in Ids : quiz[i] = NoRow /\ i <= minted => quiz'[i] = NoRow
<1>1. ASSUME Typed, [Next]_vars PROVE Gone
  <2> SUFFICES ASSUME NEW i \in Ids, quiz[i] = NoRow, i <= minted PROVE quiz'[i] = NoRow
    OBVIOUS
  <2>1. i \notin Rows /\ minted \in Nat /\ i \in Nat
    BY <1>1, StudyQuizAssumption DEF Rows, NoRow, Typed, TypeOK, Ids
  <2>2. ASSUME NEW t \in Tabs, op[t].pc \in {"save", "finish"}, Persisted(op[t].s)
        PROVE  quiz'[i] = NoRow
    <3>1. op[t].s \in Session /\ op[t].s.phase \in {"quiz", "results"}
      BY <1>1, <2>2 DEF Typed, TypeOK, Sound
    <3>2. QED
      BY <1>1, <2>1, <2>2, <3>1, PersistedRow
  <2>3. ASSUME Cleared PROVE quiz'[i] = NoRow
    BY <1>1, <2>3, ClearedRow
  <2>4. ASSUME quiz' = [j \in Ids |-> NoRow] PROVE quiz'[i] = NoRow
    BY <2>4
  <2>5. ASSUME NEW r, quiz' = [quiz EXCEPT ![minted + 1] = r] PROVE quiz'[i] = NoRow
    BY <1>1, <2>1, <2>5 DEF Typed, TypeOK
  <2>6. QED
    BY <1>1, <2>2, <2>3, <2>4, <2>5, RowStep
<1>2. Typed /\ [Next]_vars => [Gone]_vars
  BY <1>1
<1>3. QED
  BY <1>2, InitTyped, StepTyped, PTL DEF Spec, RemovedForGood

-----------------------------------------------------------------------------
(* One request at a time *)

\* What the theorems below ask of the learner: no two requests overlap.  The
\* job, the failing writes and the crashes stay free.
Alone == \A t, u \in Tabs : t = u

\* Requests that may still save the quiz they hold.
Holding(o) == o.pc \in {"loaded", "save", "finish"} \/ (o.pc = "turn" /\ o.ask = "result")

\* A copy that may be saved knows whether its quiz was finished and counted, and a
\* completion about to be counted is the first of a finished quiz.
Faithful(o) ==
    o.s.id # 0 =>
       /\ o.s.id <= minted
       /\ Holding(o) /\ o.s.id \in Rows /\ quiz[o.s.id].finished => o.s.finished
       /\ Holding(o) /\ counted[o.s.id] > 0 => o.s.finished
       /\ o.pc = "count" => /\ counted[o.s.id] = 0
                            /\ o.s.id \in Rows => quiz[o.s.id].finished

\* A counted quiz is finished, or it was removed.
Ledger(i) ==
    /\ counted[i] <= 1
    /\ counted[i] > 0 => i <= minted /\ (i \in Rows => quiz[i].finished)

\* The job saves a new quiz only when none is in progress.
Cleanly == job.pc \in {"turn", "insert"} => \A i \in Rows : quiz[i].finished

AloneInv ==
    /\ Typed
    /\ \A i \in Rows : i <= minted
    /\ \A t \in Tabs : Faithful(op[t])
    /\ \A i \in Ids : Ledger(i)
    /\ OneInProgress
    /\ Cleanly

\* No step but the insertion adds a row or reopens one.
Kept ==
    /\ minted' = minted
    /\ \A i \in Ids \ Rows : i \notin Rows'
    /\ \A i \in Rows : quiz[i].finished => \/ quiz'[i].finished
                                           \/ study' = "gone" /\ i \notin Rows'

Inserted ==
    /\ job.pc = "insert" /\ minted' = minted + 1 /\ minted + 1 \in Ids
    /\ \A i \in Ids \ {minted + 1} : quiz'[i] = quiz[i]
    /\ quiz'[minted + 1].phase # "none" /\ ~quiz'[minted + 1].finished
    /\ UNCHANGED <<op, counted>> /\ job' = NoJob

LEMMA RowsAlone == AloneInv /\ [Next]_vars => Kept \/ Inserted
<1> SUFFICES ASSUME AloneInv, [Next]_vars PROVE Kept \/ Inserted
  OBVIOUS
<1>1. Typed /\ quiz \in [Ids -> Row] /\ minted \in Nat
  BY StudyQuizAssumption DEF AloneInv, Typed, TypeOK
<1>2. Rows = {i \in Ids : quiz[i].phase # "none"} /\ Rows' = {i \in Ids : quiz'[i].phase # "none"}
  BY DEF Rows, Ids
<1>3. CASE UNCHANGED <<quiz, minted>>
  BY <1>2, <1>3 DEF Kept
<1>4. ASSUME NEW t \in Tabs, op[t].pc \in {"save", "finish"}, Persisted(op[t].s), minted' = minted
      PROVE  Kept
  <2> DEFINE s == op[t].s
  <2>1. s \in Session /\ s.phase \in {"quiz", "results"} /\ s.id # 0
    BY <1>1, <1>4 DEF Typed, TypeOK, Sound
  <2>2. Holding(op[t]) /\ Faithful(op[t])
    BY <1>4 DEF Holding, AloneInv
  <2>3. s.id \in Rows /\ quiz[s.id].finished => s.finished
    BY <2>1, <2>2 DEF Faithful
  <2>4. /\ \A i \in Ids : i \notin Rows \/ i # s.id => quiz'[i] = quiz[i]
        /\ \A i \in Rows : i = s.id => /\ quiz'[i].phase # "none"
                                       /\ quiz'[i].finished = (s.finished \/ s.phase = "results")
    BY <1>1, <1>4, <2>1, PersistedRow
  <2>5. \A i \in Ids \ Rows : i \notin Rows'
    BY <1>2, <2>4
  <2>6. ASSUME NEW i \in Rows, quiz[i].finished PROVE quiz'[i].finished
    BY <1>2, <2>3, <2>4, <2>6
  <2>7. QED
    BY <1>4, <2>5, <2>6 DEF Kept
<1>5. CASE Cleared /\ minted' = minted
  <2>1. \A i \in Ids : quiz'[i] = IF quiz[i].finished THEN quiz[i] ELSE NoRow
    BY <1>1, <1>5, ClearedRow
  <2>2. QED
    BY <1>2, <1>5, <2>1 DEF Kept, NoRow
<1>6. CASE study' = "gone" /\ quiz' = [i \in Ids |-> NoRow] /\ minted' = minted
  BY <1>2, <1>6 DEF Kept, NoRow
<1>7. CASE /\ job.pc = "insert" /\ minted' = minted + 1 /\ minted < MaxQuizzes
           /\ quiz' = [quiz EXCEPT ![minted + 1] =
                         [phase |-> "quiz", full |-> FALSE, finished |-> FALSE,
                          exam |-> job.exam]]
           /\ UNCHANGED <<op, counted>> /\ job' = NoJob
  <2>1. minted + 1 \in Ids
    BY <1>1, <1>7, StudyQuizAssumption DEF Ids
  <2>2. QED
    BY <1>1, <1>7, <2>1 DEF Inserted
<1>8. QED
  BY <1>1, <1>3, <1>4, <1>5, <1>6, <1>7, RowStep

\* Rows that are kept leave at most one in progress, and none where the job needs it.
LEMMA ProgressAlone ==
    ASSUME AloneInv, [Next]_vars, Typed'
    PROVE  /\ \A i \in Rows' : i <= minted'
           /\ OneInProgress'
           /\ Cleanly'
<1>1. /\ Typed /\ minted \in Nat /\ \A i \in Rows : i \in Ids /\ i <= minted
      /\ Ids \subseteq Nat
  BY StudyQuizAssumption DEF AloneInv, Typed, TypeOK, Rows, Ids
<1>2. /\ \A i, j \in Rows : ~quiz[i].finished /\ ~quiz[j].finished => i = j
      /\ job.pc \in {"turn", "insert"} => \A i \in Rows : quiz[i].finished
  BY DEF AloneInv, OneInProgress, Cleanly
<1>3. Rows' \subseteq Ids /\ \A i \in Rows' : quiz'[i].phase # "none"
  BY DEF Rows, Ids
<1>4. CASE Kept
  <2>1. Rows' \subseteq Rows /\ \A i \in Rows' : quiz[i].finished => quiz'[i].finished
    BY <1>3, <1>4 DEF Kept
  <2>2. \A i \in Rows' : i <= minted'
    BY <1>1, <1>4, <2>1 DEF Kept
  <2>3. OneInProgress'
    BY <1>2, <2>1 DEF OneInProgress
  <2>4. Cleanly'
    <3>1. CASE job.pc \in {"turn", "insert"}
      BY <1>2, <2>1, <3>1 DEF Cleanly
    <3>2. CASE job.pc \notin {"turn", "insert"} /\ job'.pc \in {"turn", "insert"}
      <4>1. Cleared
        <5>1. ASSUME NEW t \in Tabs, Handle(t) \/ \E a \in Asks : Load(t, a) PROVE job' = job
          BY <5>1 DEF Handle, Load, Latest, Mutate, Diagnostic, Result, Page, Reset, Decided,
                      Save, Finish, Count, Turn, Clear
        <5>2. (\E i \in Ids : Expire(i)) \/ DeleteStudy \/ UNCHANGED vars => job' = job
          BY DEF Expire, DeleteStudy, vars
        <5>3. Crash => job'.pc = "idle"
          BY DEF Crash, NoJob
        <5>4. ASSUME NEW e \in BOOLEAN, Start(e) PROVE job'.pc = "generate"
          BY <5>4 DEF Start
        <5>5. Generate => job'.pc \in {"idle", "clear"}
          BY DEF Generate, Proceed, Stop, NoJob
        <5>6. JobTurn \/ JobInsert => job.pc \in {"turn", "insert"}
          BY DEF JobTurn, JobInsert
        <5>7. JobClear => Cleared \/ job'.pc = "idle"
          BY DEF JobClear, Stop, NoJob
        <5>8. QED
          BY <3>2, <5>1, <5>2, <5>3, <5>4, <5>5, <5>6, <5>7 DEF Next, RunJob
      <4>2. \A i \in Ids : quiz'[i] = IF quiz[i].finished THEN quiz[i] ELSE NoRow
        BY <1>1, <4>1, ClearedRow
      <4>3. \A i \in Rows' : quiz'[i].finished
        BY <1>3, <4>2 DEF NoRow
      <4>4. QED
        BY <4>3 DEF Cleanly
    <3>3. QED
      BY <3>1, <3>2 DEF Cleanly
  <2>5. QED
    BY <2>2, <2>3, <2>4
<1>5. CASE Inserted
  <2>1. \A i \in Rows : quiz[i].finished
    BY <1>2, <1>5 DEF Inserted
  <2>2. \A i \in Rows' : i = minted + 1 \/ (i \in Rows /\ quiz'[i] = quiz[i])
    BY <1>3, <1>5 DEF Inserted, Rows
  <2>3. OneInProgress'
    BY <2>1, <2>2 DEF OneInProgress
  <2>4. Cleanly'
    BY <1>5 DEF Inserted, Cleanly, NoJob
  <2>5. minted' = minted + 1
    BY <1>5 DEF Inserted
  <2>6. ASSUME NEW i \in Rows' PROVE i <= minted'
    <3>1. i = minted + 1 \/ (i \in Nat /\ i <= minted)
      BY <1>1, <2>2
    <3>2. QED
      BY <1>1, <2>5, <3>1
  <2>7. QED
    BY <2>3, <2>4, <2>6
<1>6. QED
  BY <1>4, <1>5, RowsAlone

\* The counts stay right while the rows are kept or one is added.
LEMMA LedgerAlone ==
    ASSUME AloneInv, Kept \/ Inserted, counted' = counted
    PROVE  \A i \in Ids : Ledger(i)'
<1> SUFFICES ASSUME NEW i \in Ids PROVE Ledger(i)'
  OBVIOUS
<1>1. /\ Ledger(i) /\ minted \in Nat /\ i \in Nat
      /\ counted[i] > 0 => i <= minted /\ (i \in Rows => quiz[i].finished)
  BY StudyQuizAssumption DEF AloneInv, Typed, TypeOK, Ids, Ledger
<1>2. Rows' \subseteq Ids
  BY DEF Rows, Ids
<1>3. CASE Kept
  <2>1. minted' = minted /\ (i \in Rows' => i \in Rows /\ (quiz[i].finished => quiz'[i].finished))
    BY <1>3 DEF Kept
  <2>2. QED
    BY <1>1, <2>1 DEF Ledger
<1>4. CASE Inserted
  <2>1. minted' = minted + 1 /\ (i # minted + 1 => quiz'[i] = quiz[i])
    BY <1>4 DEF Inserted
  <2>2. i # minted + 1 => (i \in Rows' => i \in Rows)
    BY <2>1 DEF Rows
  <2>3. counted[i] > 0 => i # minted + 1 /\ i <= minted'
    BY <1>1, <2>1
  <2>4. QED
    BY <1>1, <2>1, <2>2, <2>3 DEF Ledger
<1>5. QED
  BY <1>3, <1>4

\* No row was finished by this step.
Unmarked == \A i \in Rows' : quiz'[i].finished => i \in Rows /\ quiz[i].finished

\* What the job and the rest of the world do leaves the copies faithful.
LEMMA WorldAlone ==
    ASSUME AloneInv, [Next]_vars,
           \/ RunJob \/ \E e \in BOOLEAN : Start(e)
           \/ \E i \in Ids : Expire(i)
           \/ DeleteStudy \/ Crash \/ UNCHANGED vars
    PROVE  /\ \A t \in Tabs : Faithful(op[t])'
           /\ \A i \in Ids : Ledger(i)'
<1>1. Typed /\ quiz \in [Ids -> Row] /\ minted \in Nat
  BY StudyQuizAssumption DEF AloneInv, Typed, TypeOK
<1>2. Rows' \subseteq Ids /\ \A i \in Rows' : quiz'[i].phase # "none"
  BY DEF Rows, Ids
<1>3. Kept \/ Inserted
  BY RowsAlone
<1>4. counted' = counted /\ (op' = op \/ op' = [t \in Tabs |-> NoRequest])
  BY DEF RunJob, Generate, JobClear, JobTurn, JobInsert, Start, Expire, DeleteStudy, Crash, vars
<1>5. Unmarked
  <2>1. CASE UNCHANGED quiz
    BY <1>2, <2>1 DEF Unmarked, Rows
  <2>2. CASE Cleared
    <3>1. \A i \in Ids : quiz'[i] = IF quiz[i].finished THEN quiz[i] ELSE NoRow
      BY <1>1, <2>2, ClearedRow
    <3>2. QED
      BY <1>2, <3>1 DEF Unmarked, Rows, NoRow
  <2>3. CASE quiz' = [i \in Ids |-> NoRow]
    BY <1>2, <2>3 DEF Unmarked, NoRow
  <2>4. CASE Inserted
    <3>1. \A i \in Rows' : quiz'[i].finished => quiz'[i] = quiz[i]
      BY <1>2, <2>4 DEF Inserted
    <3>2. QED
      BY <1>2, <3>1 DEF Unmarked, Rows
  <2>5. CASE JobInsert /\ Kept
    <3>1. UNCHANGED quiz
      BY <1>1, <2>5 DEF JobInsert, Kept
    <3>2. QED
      BY <2>1, <3>1
  <2>6. QED
    BY <1>3, <2>1, <2>2, <2>3, <2>4, <2>5
       DEF RunJob, Generate, JobClear, JobTurn, Start, Expire, DeleteStudy, Crash, vars
<1>6. ASSUME NEW t \in Tabs PROVE Faithful(op[t])'
  <2>1. CASE op' = op
    <3> DEFINE s == op[t].s
    <3>1. /\ Faithful(op[t]) /\ op'[t] = op[t] /\ s.id \in Nat
          /\ s.id # 0 => s.id \in Ids
      BY <2>1, StudyQuizAssumption DEF AloneInv, Typed, TypeOK, Session, Ids
    <3>2. s.id # 0 => s.id <= minted'
      BY <1>1, <1>3, <3>1 DEF Faithful, Kept, Inserted
    <3>3. s.id \in Rows' /\ quiz'[s.id].finished => s.id \in Rows /\ quiz[s.id].finished
      BY <1>5 DEF Unmarked
    <3>4. s.id # 0 /\ s.id <= minted /\ s.id \in Rows' => s.id \in Rows
      BY <1>1, <1>3, <3>1 DEF Kept, Inserted, Rows
    <3>5. s.id # 0 /\ s.id <= minted /\ s.id \in Rows' /\ quiz[s.id].finished => quiz'[s.id].finished
      BY <1>1, <1>3, <3>1, <3>4 DEF Kept, Inserted
    <3>6. QED
      BY <1>4, <3>1, <3>2, <3>3, <3>4, <3>5 DEF Faithful, Holding
  <2>2. CASE op' = [u \in Tabs |-> NoRequest]
    BY <2>2 DEF Faithful, NoRequest, NoQuiz
  <2>3. QED
    BY <1>4, <2>1, <2>2
<1>7. QED
  BY <1>3, <1>4, <1>6, LedgerAlone

\* The steps of the one request.
LEMMA TabAlone ==
    ASSUME AloneInv, Alone, [Next]_vars,
           NEW t \in Tabs, Handle(t) \/ \E a \in Asks : Load(t, a)
    PROVE  /\ \A u \in Tabs : Faithful(op[u])'
           /\ \A i \in Ids : Ledger(i)'
<1> DEFINE s == op[t].s
<1>1. /\ Typed /\ s \in Session /\ Sound(op[t]) /\ Faithful(op[t]) /\ \A i \in Ids : Ledger(i)
      /\ s.id \in Nat /\ (s.id # 0 => s.id \in Ids)
      /\ minted \in Nat /\ counted \in [Ids -> Nat] /\ Ids \subseteq Nat
  BY StudyQuizAssumption DEF AloneInv, Typed, TypeOK, Session, Ids
<1>2. Kept \/ Inserted
  BY RowsAlone
<1> SUFFICES /\ Faithful(op[t])'
             /\ \A i \in Ids : Ledger(i)'
  BY DEF Alone
<1>3. CASE \E a \in Asks : Load(t, a)
  <2>1. op'[t].s.id = 0
    BY <1>1, <1>3, LoadType
  <2>2. counted' = counted
    BY <1>3 DEF Load
  <2>3. QED
    BY <1>2, <2>1, <2>2, LedgerAlone DEF Faithful
<1>4. CASE Latest(t)
  <2>1. /\ op'[t].pc = "loaded"
        /\ \/ op'[t].s.id = 0
           \/ op'[t].s.id \in Rows /\ op'[t].s.finished = quiz[op'[t].s.id].finished
    BY <1>1, <1>4, LatestType
  <2>2. UNCHANGED <<quiz, minted, counted>>
    BY <1>4 DEF Latest
  <2>3. \A i \in Rows : i \in Ids /\ i <= minted /\ (counted[i] > 0 => quiz[i].finished)
    BY <1>1 DEF AloneInv, Ledger, Rows
  <2>4. Faithful(op[t])'
    BY <2>1, <2>2, <2>3 DEF Faithful
  <2>5. QED
    BY <1>2, <2>2, <2>4, LedgerAlone
<1>5. CASE Mutate(t) \/ Diagnostic(t) \/ Result(t) \/ Page(t) \/ Reset(t)
  <2>1. /\ op[t].pc = "loaded" /\ op'[t].pc \notin {"loaded", "latest", "count"}
        /\ op'[t].s.id = 0 \/ (op'[t].s.id = s.id /\ op'[t].s.finished = s.finished)
        /\ UNCHANGED <<quiz, minted, counted>>
    BY <1>1, <1>5, DecidedType
  <2>2. Rows' = Rows /\ Holding(op[t])
    BY <2>1 DEF Rows, Holding
  <2>3. Faithful(op[t])'
    BY <1>1, <2>1, <2>2 DEF Faithful
  <2>4. QED
    BY <1>2, <2>1, <2>3, LedgerAlone
<1>6. CASE Save(t) \/ Finish(t) \/ Count(t) \/ Turn(t) \/ Clear(t)
  <2>1. /\ op'[t] = NoRequest \/ (op'[t].s = s /\ op'[t].ask = op[t].ask)
        /\ op'[t].pc \in {"idle", "finish", "count", "turn", "clear"}
        /\ op'[t].pc = "finish" => op[t].pc = "turn" /\ op[t].ask = "result"
        /\ op'[t].pc = "count" => op[t].pc = "finish" /\ ~s.finished /\ Persisted(s)
        /\ op'[t].pc = "turn" => op[t].ask = "page"
        /\ minted' = minted
    BY <1>1, <1>6, WriteType
  <2>2. ASSUME op'[t] = NoRequest PROVE Faithful(op[t])'
    BY <2>2 DEF Faithful, NoRequest, NoQuiz
  <2>3. ASSUME op'[t].s = s /\ op'[t].ask = op[t].ask /\ op'[t].pc = "count" PROVE Faithful(op[t])'
    <3>1. s.id # 0 /\ s.phase = "results" /\ Holding(op[t]) /\ ~s.finished
      BY <1>1, <2>1, <2>3 DEF Sound, Holding
    <3>2. counted[s.id] = 0 /\ s.id <= minted
      BY <1>1, <3>1 DEF Faithful
    <3>3. s.id \in Rows' => quiz'[s.id].finished
      <4>1. s.id \notin Rows => quiz'[s.id] = quiz[s.id]
        BY <1>1, <2>1, <2>3, <3>1, PersistedRow
      <4>2. s.id \in Rows => quiz'[s.id].finished
        BY <1>1, <2>1, <2>3, <3>1, PersistedRow
      <4>3. QED
        BY <4>1, <4>2 DEF Rows
    <3>4. counted' = counted
      BY <1>6, <2>1, <2>3 DEF Finish, Save, Count, Turn, Clear
    <3>5. QED
      BY <2>1, <2>3, <3>2, <3>3, <3>4 DEF Faithful, Holding
  <2>4. ASSUME op'[t].s = s /\ op'[t].ask = op[t].ask /\ op'[t].pc = "finish" PROVE Faithful(op[t])'
    <3>1. UNCHANGED <<quiz, counted>>
      BY <1>6, <2>1, <2>4 DEF Finish, Save, Count, Turn, Clear
    <3>2. Holding(op[t]) /\ Rows' = Rows
      BY <2>1, <2>4, <3>1 DEF Holding, Rows
    <3>3. QED
      BY <1>1, <2>1, <2>4, <3>1, <3>2 DEF Faithful
  <2>5. ASSUME op'[t].s = s /\ op'[t].ask = op[t].ask /\ op'[t].pc \in {"idle", "turn", "clear"} PROVE Faithful(op[t])'
    <3>1. ~Holding(op'[t]) /\ op'[t].pc # "count"
      BY <2>1, <2>5 DEF Holding
    <3>2. QED
      BY <1>1, <2>1, <2>5, <3>1 DEF Faithful, Holding
  <2>6. Faithful(op[t])'
    BY <2>1, <2>2, <2>3, <2>4, <2>5
  <2>7. CASE counted' = counted
    BY <1>2, <2>6, <2>7, LedgerAlone
  <2>8. CASE Count(t) /\ counted' # counted
    <3>1. /\ op[t].pc = "count" /\ UNCHANGED quiz
          /\ counted' = [counted EXCEPT ![s.id] = IF @ < MaxCounted THEN @ + 1 ELSE @]
      BY <2>8 DEF Count
    <3>2. s.id \in Ids /\ counted[s.id] = 0 /\ s.id <= minted /\ (s.id \in Rows => quiz[s.id].finished)
      BY <1>1, <3>1 DEF Sound, Faithful
    <3>3. counted'[s.id] <= 1 /\ \A i \in Ids \ {s.id} : counted'[i] = counted[i]
      BY <1>1, <3>1, <3>2
    <3>4. Rows' = Rows
      BY <3>1 DEF Rows
    <3>5. \A i \in Ids : Ledger(i)'
      BY <1>1, <2>1, <3>1, <3>2, <3>3, <3>4 DEF Ledger
    <3>6. QED
      BY <2>6, <3>5
  <2>9. QED
    BY <1>6, <2>7, <2>8 DEF Save, Finish, Turn, Clear
<1>7. QED
  BY <1>3, <1>4, <1>5, <1>6 DEF Handle

LEMMA InitAlone == Init => AloneInv
<1> SUFFICES ASSUME Init PROVE AloneInv
  OBVIOUS
<1>1. Rows = {} /\ NoRequest.s.id = 0 /\ job.pc = "idle" /\ \A i \in Ids : counted[i] = 0
  BY DEF Init, Rows, NoRow, NoRequest, NoQuiz, NoJob
<1>2. \A t \in Tabs : op[t] = NoRequest
  BY DEF Init
<1>3. QED
  BY <1>1, <1>2, InitTyped DEF AloneInv, Faithful, Ledger, OneInProgress, Cleanly

LEMMA StepAlone == Alone /\ AloneInv /\ [Next]_vars => AloneInv'
<1> SUFFICES ASSUME Alone, AloneInv, [Next]_vars PROVE AloneInv'
  OBVIOUS
<1>1. Typed'
  BY StepTyped DEF AloneInv
<1>2. (\A i \in Rows : i <= minted)' /\ OneInProgress' /\ Cleanly'
  BY <1>1, ProgressAlone
<1>3. (\A t \in Tabs : Faithful(op[t]))' /\ (\A i \in Ids : Ledger(i))'
  <2>1. \/ \E t \in Tabs : Handle(t) \/ \E a \in Asks : Load(t, a)
        \/ \/ RunJob \/ \E e \in BOOLEAN : Start(e)
           \/ \E i \in Ids : Expire(i)
           \/ DeleteStudy \/ Crash \/ UNCHANGED vars
    BY DEF Next
  <2>2. QED
    BY <2>1, TabAlone, WorldAlone
<1>4. QED
  BY <1>1, <1>2, <1>3 DEF AloneInv

\* At most one quiz of a study is in progress, however often quizzes are generated and
\* whatever fails, where the learner's requests do not overlap.
THEOREM OneQuizAtATime == Alone /\ Spec => []OneInProgress
<1> SUFFICES ASSUME Alone PROVE Spec => []OneInProgress
  OBVIOUS
<1>1. AloneInv => OneInProgress
  BY DEF AloneInv
<1>2. AloneInv /\ [Next]_vars => AloneInv'
  BY StepAlone
<1>3. QED
  BY <1>1, <1>2, InitAlone, PTL DEF Spec

\* The completion of a quiz is counted once, under the same condition.
THEOREM CountedAlone == Alone /\ Spec => []CountedOnce
<1> SUFFICES ASSUME Alone PROVE Spec => []CountedOnce
  OBVIOUS
<1>1. AloneInv => CountedOnce
  BY DEF AloneInv, CountedOnce, Ledger
<1>2. AloneInv /\ [Next]_vars => AloneInv'
  BY StepAlone
<1>3. QED
  BY <1>1, <1>2, InitAlone, PTL DEF Spec

\* A finished quiz is history until its study is deleted, under the same condition.
THEOREM HistoryAlone == Alone /\ Spec => HistoryKept
<1> SUFFICES ASSUME Alone PROVE Spec => HistoryKept
  OBVIOUS
<1> DEFINE Same == \A i \in Rows : quiz[i].finished => quiz'[i].finished \/ study' = "gone"
<1>1. AloneInv /\ [Next]_vars => [Same]_vars
  <2> SUFFICES ASSUME AloneInv, [Next]_vars, NEW i \in Rows, quiz[i].finished
               PROVE  quiz'[i].finished \/ study' = "gone"
    OBVIOUS
  <2>1. i \in Ids /\ i # minted + 1
    BY StudyQuizAssumption DEF AloneInv, Typed, TypeOK, Rows, Ids
  <2>2. QED
    BY <2>1, RowsAlone DEF Kept, Inserted
<1>2. AloneInv /\ [Next]_vars => AloneInv'
  BY StepAlone
<1>3. QED
  BY <1>1, <1>2, InitAlone, PTL DEF Spec, HistoryKept

-----------------------------------------------------------------------------
(* A learner who waits *)

\* The job and the requests of a learner who waits take turns.
Turns ==
    /\ job.pc # "idle" => \A t \in Tabs : op[t].pc = "idle"
    /\ job.pc = "insert" => study \in {"quiz", "gone"}

LEMMA TurnsKept ==
    ASSUME Calm, Turns, [Next]_vars
    PROVE  Turns'
<1>1. ASSUME NEW t \in Tabs, NEW a \in Asks, Load(t, a) PROVE job.pc = "idle" /\ job' = job
  BY <1>1 DEF Load, Calm
<1>2. ASSUME NEW t \in Tabs, Handle(t) PROVE op[t].pc # "idle" /\ job' = job
  BY <1>2 DEF Handle, Latest, Mutate, Diagnostic, Result, Page, Reset, Asked, Decided, Save, Finish,
              Count, Turn, Clear
<1>3. ASSUME NEW e \in BOOLEAN, Start(e) PROVE Turns'
  BY <1>3 DEF Start, Calm, Turns
<1>4. CASE Generate \/ JobClear \/ JobInsert
  BY <1>4 DEF Generate, JobClear, JobInsert, Proceed, Stop, NoJob, Turns
<1>5. CASE JobTurn
  BY <1>5 DEF JobTurn, Proceed, Stop, NoJob, Turns, Calm
<1>6. CASE (\E i \in Ids : Expire(i)) \/ DeleteStudy \/ UNCHANGED vars
  BY <1>6 DEF Expire, DeleteStudy, vars, Turns
<1>7. ~Crash
  BY DEF Crash, Calm
<1>8. QED
  BY <1>1, <1>2, <1>3, <1>4, <1>5, <1>6, <1>7 DEF Next, RunJob, Turns

\* The quiz that is inserted finds the study where the job has moved it.
LEMMA InsertedInQuiz ==
    ASSUME Calm, Turns, Typed, [Next]_vars, minted' > minted
    PROVE  study' = "quiz"
<1>1. minted' # minted
  BY StudyQuizAssumption DEF Typed, TypeOK
<1>2. JobInsert
  BY <1>1 DEF Next, Handle, Load, Latest, Mutate, Diagnostic, Result, Page, Reset, Decided, Save,
              Finish, Count, Turn, Clear, Start, RunJob, Generate, JobClear, JobTurn, Expire,
              DeleteStudy, Crash, vars
<1>3. QED
  BY <1>1, <1>2 DEF JobInsert, Turns

\* A quiz that is saved opens, for any number of requests, where the learner waits for
\* the job and no statement fails (QuizStart's job, the waiting page).
THEOREM SavedOpens == Spec => SavedQuizOpensCalmly
<1> DEFINE Opens == Calm /\ minted' > minted => study' = "quiz"
           Orderly == Typed /\ (Calm => Turns)
<1>1. Init => Orderly
  BY InitTyped DEF Init, Turns, NoJob
<1>2. Orderly /\ [Next]_vars => Orderly'
  BY TurnsKept, StepTyped, SettingStays DEF Calm
<1>3. Orderly /\ [Next]_vars => [Opens]_vars
  BY InsertedInQuiz
<1> HIDE DEF Orderly
<1>4. QED
  BY <1>1, <1>2, <1>3, PTL DEF Spec, SavedQuizOpensCalmly

\* Where the latest quiz of the study is, if there is one.
Newest == Max(Rows)
Done   == Rows # {} /\ quiz[Newest].finished
RanOut == Rows # {} /\ quiz[Newest].exam /\ Newest \in expired

\* The two rows tell the same story.
Agrees ==
    /\ study = "quiz" => RanOut \/ (Rows # {} /\ quiz[Newest].phase = "quiz" /\ ~quiz[Newest].finished)
    /\ study = "results" => Done
    /\ study = "study" => \A i \in Rows : quiz[i].finished

\* A session is a copy of the latest quiz.
Copied(o) ==
    /\ o.s.id \in Rows /\ o.s.id = Newest
    /\ o.s.exam = quiz[Newest].exam /\ o.s.finished = quiz[Newest].finished

\* What a request under way knows, and what it still owes.
Calmly(o) ==
    /\ o.pc \in {"latest", "loaded", "save"} => Agrees /\ o.s.phase = study
    /\ o.pc = "latest" => study # "study"
    /\ o.pc = "loaded" => IF study = "study" THEN o.s.id = 0 ELSE Copied(o)
    /\ o.pc = "save" => study # "study" /\ Copied(o)
    /\ o.pc = "turn" => \/ o.ask = "result" /\ o.s.phase = "results" /\ Copied(o)
                        \/ o.ask = "reset" /\ o.s.phase = "study"
                        \/ o.ask = "page" /\ o.s.phase = "results" /\ Done
    /\ o.pc = "finish" => /\ Copied(o)
                          /\ \/ o.ask = "result" /\ study = "results"
                             \/ o.ask # "result" /\ study = "quiz" /\ RanOut
    /\ o.pc = "count" => /\ Done /\ o.s.phase = "results"
                         /\ study = "results" \/ (study = "quiz" /\ RanOut)
    /\ o.pc = "clear" => study = "study"

Waiting ==
    /\ study = "gone" => Rows = {}
    /\ study # "gone" =>
          /\ job.pc \in {"idle", "generate", "clear"} /\ (\A t \in Tabs : op[t].pc = "idle") => Agrees
          /\ \A t \in Tabs : Calmly(op[t])

\* Where the rows stay, so does what is said of them; a deadline only passes.
LEMMA SameRows ==
    ASSUME UNCHANGED quiz
    PROVE  /\ Rows' = Rows /\ Newest' = Newest /\ (Done' <=> Done)
           /\ expired \subseteq expired' => (RanOut => RanOut')
           /\ study' = study /\ expired \subseteq expired' => (Agrees => Agrees')
           /\ \A o : Copied(o) => Copied(o)'
<1>1. Rows' = Rows /\ Newest' = Newest
  BY DEF Rows, Newest
<1>2. QED
  BY <1>1 DEF Done, RanOut, Agrees, Copied

\* A save of a copy of the latest quiz leaves it the latest.
LEMMA CopySaved ==
    ASSUME Typed, NEW t \in Tabs, Copied(op[t]), op[t].s.phase \in {"quiz", "results"},
           Persisted(op[t].s), UNCHANGED expired
    PROVE  /\ Rows' = Rows /\ Newest' = Newest /\ Rows # {}
           /\ quiz'[Newest].phase = op[t].s.phase
           /\ quiz'[Newest].finished = (op[t].s.finished \/ op[t].s.phase = "results")
           /\ RanOut => RanOut'
           /\ op[t].s.phase = "results" => Done'
<1> DEFINE s == op[t].s
           r == [phase |-> s.phase, full |-> s.full,
                 finished |-> s.finished \/ s.phase = "results", exam |-> s.exam]
<1>1. s \in Session /\ quiz \in [Ids -> Row] /\ s.id \in Rows /\ s.id = Newest
  BY DEF Typed, TypeOK, Copied
<1>2. quiz' = [quiz EXCEPT ![s.id] = r]
  BY <1>1 DEF Persisted
<1>3. /\ r.phase = s.phase /\ r.phase # "none" /\ r.exam = quiz[Newest].exam
      /\ r.finished = (s.finished \/ s.phase = "results")
  BY DEF Copied
<1> HIDE DEF r
<1>4. quiz'[s.id] = r /\ \A i \in Ids \ {s.id} : quiz'[i] = quiz[i]
  BY <1>1, <1>2 DEF Rows
<1>5. Rows' = Rows
  BY <1>1, <1>3, <1>4 DEF Rows, Ids
<1>6. Newest' = Newest
  BY <1>5 DEF Newest
<1>7. QED
  BY <1>1, <1>3, <1>4, <1>5, <1>6 DEF RanOut, Done

\* A quiz that was cleared or inserted is alone in not being finished.
LEMMA InsertedNewest ==
    ASSUME AloneInv, Typed', Inserted
    PROVE  Rows' # {} /\ Newest' = minted + 1
<1>1. /\ minted \in Nat /\ Rows' \subseteq 1..MaxQuizzes /\ MaxQuizzes \in Nat
      /\ \A i \in Rows : i <= minted
  BY StudyQuizAssumption DEF AloneInv, Typed, TypeOK, Rows, Ids
<1>2. minted + 1 \in Rows' /\ \A i \in Rows' : i = minted + 1 \/ i \in Rows
  BY DEF Inserted, Rows, Ids
<1>3. Newest' \in Rows' /\ Newest' >= minted + 1
  BY <1>1, <1>2, MaxIn DEF Newest
<1>4. QED
  BY <1>1, <1>2, <1>3

LEMMA GoneStays ==
    ASSUME AloneInv, Waiting, [Next]_vars
    PROVE  /\ study' = "gone" => Rows' = {}
           /\ study = "gone" => study' = "gone"
<1>1. study = "gone" => study' = "gone"
  BY DEF AfterTurn, Next, Handle, Load, Latest, Mutate, Diagnostic, Result, Page, Reset, Decided, Save,
         Finish, Count, Turn, Clear, Start, RunJob, Generate, JobClear, JobTurn, JobInsert, Expire,
         DeleteStudy, Crash, vars
<1>2. CASE study = "gone"
  <2>1. Rows = {}
    BY <1>2 DEF Waiting
  <2>2. minted' # minted => JobInsert
    BY DEF Next, Handle, Load, Latest, Mutate, Diagnostic, Result, Page, Reset, Decided, Save,
         Finish, Count, Turn, Clear, Start, RunJob, Generate, JobClear, JobTurn, Expire,
         DeleteStudy, Crash, vars
  <2>3. Kept
    <3>1. ~(JobInsert /\ minted' # minted)
      BY <1>2 DEF JobInsert
    <3>2. minted + 1 # minted
      BY StudyQuizAssumption DEF AloneInv, Typed, TypeOK
    <3>3. QED
      BY <2>2, <3>1, <3>2, RowsAlone DEF Inserted
  <2>4. Rows' \subseteq Ids
    BY DEF Rows, Ids
  <2>5. \A i \in Ids \ Rows : i \notin Rows'
    BY <2>3 DEF Kept
  <2>6. QED
    BY <1>1, <2>1, <2>4, <2>5
<1>3. ASSUME study # "gone", study' = "gone" PROVE Rows' = {}
  <2>1. \A t \in Tabs : op[t].pc = "turn" => op[t].s.phase # "gone"
    BY <1>3 DEF Waiting, Calmly
  <2>2. ~(\E t \in Tabs : Turn(t))
    BY <1>3, <2>1 DEF Turn
  <2>3. DeleteStudy
    BY <1>3, <2>2 DEF Next, Handle, Load, Latest, Mutate, Diagnostic, Result, Page, Reset, Decided, Save,
         Finish, Count, Clear, Start, RunJob, Generate, JobClear, JobTurn, JobInsert, Expire,
         Crash, vars
  <2>4. QED
    BY <2>3 DEF DeleteStudy, Rows, NoRow
<1>4. QED
  BY <1>1, <1>2, <1>3

LEMMA GotoIs ==
    ASSUME Typed, NEW t \in Tabs, NEW l, NEW s, Goto(t, l, s)
    PROVE  op'[t].pc = l /\ op'[t].ask = op[t].ask /\ op'[t].s = s
BY DEF Typed, TypeOK, Goto

LEMMA LeaveIs ==
    ASSUME Typed, NEW t \in Tabs, Leave(t)
    PROVE  op'[t].pc = "idle"
BY DEF Typed, TypeOK, Leave, NoRequest

\* What the steps of the one request lead to.
Calmed(t) ==
    /\ op'[t].pc = "idle" => Agrees'
    /\ Calmly(op[t])'

LEMMA LeavesCalm ==
    ASSUME Typed, NEW t \in Tabs, Leave(t), Agrees'
    PROVE  Calmed(t)
BY LeaveIs DEF Calmed, Calmly

LEMMA LoadCalm ==
    ASSUME Typed, Calm, Waiting, Alone, NEW t \in Tabs, NEW a \in Asks, Load(t, a)
    PROVE  Calmed(t)
<1>1. study # "gone" /\ job.pc = "idle" /\ op[t].pc = "idle" /\ UNCHANGED <<study, quiz, expired>>
  BY DEF Load, StudyGet, Calm
<1>2. Agrees /\ Agrees'
  BY <1>1, SameRows DEF Waiting, Alone
<1> DEFINE r == [pc |-> IF study = "study" THEN "loaded" ELSE "latest", ask |-> a,
                 s |-> NoQuiz(study)]
<1>3. op'[t] = r
  BY DEF Load, Typed, TypeOK
<1>4. op'[t].s.phase = study /\ op'[t].s.id = 0 /\ op'[t].pc = IF study = "study" THEN "loaded" ELSE "latest"
  BY <1>3 DEF NoQuiz
<1>5. QED
  BY <1>1, <1>2, <1>4 DEF Calmed, Calmly

LEMMA LatestCalm ==
    ASSUME Typed, Calm, Waiting, study # "gone", NEW t \in Tabs, Latest(t)
    PROVE  Calmed(t)
<1>1. /\ op[t].pc = "latest" /\ Calmly(op[t]) /\ UNCHANGED <<study, quiz, expired>>
      /\ "read" \notin setting.faulty
  BY DEF Latest, Waiting, Calm
<1>2. Agrees /\ Agrees' /\ op[t].s.phase = study /\ study \in {"quiz", "results"}
  BY <1>1, SameRows DEF Calmly, Typed, TypeOK, Phases
<1>3. Rows # {} /\ Rows \subseteq 1..MaxQuizzes /\ MaxQuizzes \in Nat
  BY <1>2, StudyQuizAssumption DEF Agrees, RanOut, Done, Rows, Ids
<1>4. Newest \in Rows
  BY <1>3, MaxIn DEF Newest
<1> DEFINE n == [phase |-> op[t].s.phase, id |-> Newest, full |-> quiz[Newest].full,
                 finished |-> quiz[Newest].finished, exam |-> quiz[Newest].exam]
<1>5. Goto(t, "loaded", n)
  BY <1>1, <1>3 DEF Latest, Newest
<1>6. op'[t].pc = "loaded" /\ op'[t].s = n
  BY <1>5, GotoIs
<1>7. /\ op'[t].s.phase = study /\ op'[t].s.id = Newest
      /\ op'[t].s.exam = quiz[Newest].exam /\ op'[t].s.finished = quiz[Newest].finished
  BY <1>2, <1>6
<1>8. Copied(op[t])'
  BY <1>1, <1>4, <1>7, SameRows DEF Copied
<1>9. QED
  BY <1>1, <1>2, <1>6, <1>7, <1>8 DEF Calmed, Calmly

\* A session that another one was made of is a copy as well.
LEMMA StillCopied ==
    ASSUME Typed, NEW t \in Tabs, Copied(op[t]), UNCHANGED quiz,
           op'[t].s.id = op[t].s.id, op'[t].s.exam = op[t].s.exam,
           op'[t].s.finished = op[t].s.finished
    PROVE  Copied(op[t])'
BY SameRows DEF Copied

LEMMA MutateCalm ==
    ASSUME Typed, Waiting, study # "gone", NEW t \in Tabs, Mutate(t)
    PROVE  Calmed(t)
<1> DEFINE s == op[t].s
<1>1. /\ op[t].pc = "loaded" /\ op[t].ask \in Mutations /\ Calmly(op[t]) /\ s \in Session
      /\ UNCHANGED <<study, quiz, expired>>
  BY DEF Mutate, Asked, Decided, Waiting, Typed, TypeOK
<1>2. Agrees /\ Agrees' /\ s.phase = study
  BY <1>1, SameRows DEF Calmly
<1>3. ASSUME s.phase = "quiz" PROVE Copied(op[t])
  BY <1>1, <1>2, <1>3 DEF Calmly
<1>4. ASSUME s.phase = "quiz", TimedOut(s), Goto(t, "finish", InPhase(s, "results"))
      PROVE  Calmed(t)
  <2>1. /\ op'[t].pc = "finish" /\ op'[t].ask \in Mutations /\ op'[t].s.id = s.id
        /\ op'[t].s.exam = s.exam /\ op'[t].s.finished = s.finished
    BY <1>1, <1>4, GotoIs, InPhaseType DEF Phases
  <2>2. Copied(op[t])' /\ RanOut
    BY <1>1, <1>3, <1>4, <2>1, StillCopied DEF TimedOut, RanOut, Copied
  <2>3. RanOut' /\ study' = "quiz"
    BY <1>1, <1>2, <1>4, <2>2, SameRows
  <2>4. QED
    BY <1>2, <2>1, <2>2, <2>3 DEF Calmed, Calmly, Mutations
<1>5. ASSUME s.phase = "quiz", NEW e \in Edits(s, op[t].ask), Goto(t, "save", e)
      PROVE  Calmed(t)
  <2>1. /\ op'[t].pc = "save" /\ op'[t].s.id = s.id /\ op'[t].s.phase = s.phase
        /\ op'[t].s.exam = s.exam /\ op'[t].s.finished = s.finished
    BY <1>1, <1>5, GotoIs, EditsType
  <2>2. Copied(op[t])'
    BY <1>1, <1>3, <1>5, <2>1, StillCopied
  <2>3. QED
    BY <1>1, <1>2, <1>5, <2>1, <2>2 DEF Calmed, Calmly
<1>6. CASE Leave(t)
  BY <1>2, <1>6, LeavesCalm
<1>7. QED
  BY <1>4, <1>5, <1>6 DEF Mutate

LEMMA DecideCalm ==
    ASSUME Typed, Waiting, study # "gone", NEW t \in Tabs,
           Diagnostic(t) \/ Result(t) \/ Page(t) \/ Reset(t)
    PROVE  Calmed(t)
<1> DEFINE s == op[t].s
<1>1. /\ op[t].pc = "loaded" /\ Calmly(op[t]) /\ s \in Session
      /\ UNCHANGED <<study, quiz, expired>>
  BY DEF Diagnostic, Result, Page, Reset, Asked, Decided, Waiting, Typed, TypeOK
<1>2. Agrees /\ Agrees' /\ s.phase = study /\ study \in Phases
  BY <1>1, SameRows DEF Calmly, Typed, TypeOK
<1>3. /\ s.phase \in {"quiz", "results"} => Copied(op[t])
      /\ Copied(op[t]) => s.id # 0
      /\ s.id # 0 => study # "study"
  BY <1>1, <1>2 DEF Calmly, Copied, Rows, Ids
<1>4. CASE Leave(t)
  BY <1>2, <1>4, LeavesCalm
<1>5. ASSUME Goto(t, "save", s), s.id # 0 PROVE Calmed(t)
  <2>1. op'[t].pc = "save" /\ op'[t].s = s
    BY <1>5, GotoIs
  <2>2. Copied(op[t])'
    BY <1>1, <1>2, <1>3, <1>5, <2>1, StillCopied DEF Phases
  <2>3. QED
    BY <1>1, <1>2, <1>3, <1>5, <2>1, <2>2 DEF Calmed, Calmly
<1>6. ASSUME op[t].ask = "result", s.phase = "quiz", Goto(t, "turn", InPhase(s, "results"))
      PROVE  Calmed(t)
  <2>1. /\ op'[t].pc = "turn" /\ op'[t].ask = "result" /\ op'[t].s.id = s.id
        /\ op'[t].s.phase = "results"
        /\ op'[t].s.exam = s.exam /\ op'[t].s.finished = s.finished
    BY <1>1, <1>6, GotoIs, InPhaseType DEF Phases
  <2>2. Copied(op[t])'
    BY <1>1, <1>3, <1>6, <2>1, StillCopied
  <2>3. QED
    BY <2>1, <2>2 DEF Calmed, Calmly
<1>7. ASSUME op[t].ask = "page", s.phase = "quiz", TimedOut(s), Goto(t, "finish", InPhase(s, "results"))
      PROVE  Calmed(t)
  <2>1. /\ op'[t].pc = "finish" /\ op'[t].ask = "page" /\ op'[t].s.id = s.id
        /\ op'[t].s.exam = s.exam /\ op'[t].s.finished = s.finished
    BY <1>1, <1>7, GotoIs, InPhaseType DEF Phases
  <2>2. Copied(op[t])' /\ RanOut
    BY <1>1, <1>3, <1>7, <2>1, StillCopied DEF TimedOut, RanOut, Copied
  <2>3. RanOut' /\ study' = "quiz"
    BY <1>1, <1>2, <1>7, <2>2, SameRows
  <2>4. QED
    BY <2>1, <2>2, <2>3 DEF Calmed, Calmly
<1>8. CASE Reset(t)
  <2>1. op'[t].pc = "turn" /\ op'[t].ask = "reset" /\ op'[t].s.phase = "study"
    BY <1>8, GotoIs DEF Reset, Asked, NoQuiz
  <2>2. QED
    BY <2>1 DEF Calmed, Calmly
<1>9. CASE Diagnostic(t)
  BY <1>4, <1>5, <1>9 DEF Diagnostic
<1>10. CASE Result(t)
  BY <1>4, <1>5, <1>6, <1>10 DEF Result, Asked
<1>11. CASE Page(t)
  BY <1>3, <1>4, <1>7, <1>11 DEF Page, Asked
<1>12. QED
  BY <1>8, <1>9, <1>10, <1>11

LEMMA SaveCalm ==
    ASSUME Typed, Calm, Waiting, study # "gone", NEW t \in Tabs, Save(t)
    PROVE  Calmed(t)
<1> DEFINE s == op[t].s
<1>1. /\ op[t].pc = "save" /\ Calmly(op[t]) /\ Persisted(s) /\ Leave(t)
      /\ UNCHANGED <<study, expired>>
  BY DEF Save, Calm, Waiting
<1>2. Agrees /\ s.phase = study /\ study \in {"quiz", "results"} /\ Copied(op[t])
  BY <1>1 DEF Calmly, Typed, TypeOK, Phases
<1>3. /\ Rows' = Rows /\ Newest' = Newest /\ Rows # {} /\ (RanOut => RanOut')
      /\ quiz'[Newest].phase = study
      /\ quiz'[Newest].finished = (s.finished \/ study = "results")
      /\ s.finished = quiz[Newest].finished
  BY <1>1, <1>2, CopySaved DEF Copied
<1>4. Agrees'
  BY <1>1, <1>2, <1>3 DEF Agrees, Done
<1>5. QED
  BY <1>1, <1>4, LeavesCalm

\* After the side effects, or without them.
LEMMA FinishedCalm ==
    ASSUME Typed, NEW t \in Tabs, AfterFinish(t, op[t].s), op[t].s.phase = "results",
           Done', study' = "results" \/ (study' = "quiz" /\ RanOut')
    PROVE  Calmed(t)
<1>1. Agrees'
  BY DEF Agrees, Done, RanOut
<1>2. CASE op[t].ask = "page"
  <2>1. op'[t].pc = "turn" /\ op'[t].ask = "page" /\ op'[t].s.phase = "results"
    BY <1>2, GotoIs DEF AfterFinish
  <2>2. QED
    BY <2>1 DEF Calmed, Calmly
<1>3. CASE op[t].ask # "page"
  BY <1>1, <1>3, LeavesCalm DEF AfterFinish
<1>4. QED
  BY <1>2, <1>3

LEMMA FinishCalm ==
    ASSUME Typed, Calm, Waiting, study # "gone", NEW t \in Tabs, Finish(t)
    PROVE  Calmed(t)
<1> DEFINE s == op[t].s
<1>1. /\ op[t].pc = "finish" /\ Calmly(op[t]) /\ Persisted(s) /\ UNCHANGED <<study, expired>>
      /\ s.phase = "results"
  BY DEF Finish, Calm, Waiting, Typed, Sound
<1>2. Copied(op[t]) /\ (study = "results" \/ (study = "quiz" /\ RanOut))
  BY <1>1 DEF Calmly
<1>3. Done' /\ (study' = "results" \/ (study' = "quiz" /\ RanOut'))
  BY <1>1, <1>2, CopySaved
<1>4. CASE AfterFinish(t, s)
  BY <1>1, <1>3, <1>4, FinishedCalm
<1>5. CASE Goto(t, "count", s)
  <2>1. op'[t].pc = "count" /\ op'[t].s = s
    BY <1>5, GotoIs
  <2>2. QED
    BY <1>1, <1>3, <2>1 DEF Calmed, Calmly
<1>6. QED
  BY <1>4, <1>5 DEF Finish, Calm

LEMMA CountCalm ==
    ASSUME Typed, Calm, Waiting, study # "gone", NEW t \in Tabs, Count(t)
    PROVE  Calmed(t)
<1>1. /\ op[t].pc = "count" /\ Calmly(op[t]) /\ UNCHANGED <<study, quiz, expired>>
      /\ AfterFinish(t, op[t].s)
  BY DEF Count, Calm, Waiting
<1>2. Done /\ op[t].s.phase = "results" /\ (study = "results" \/ (study = "quiz" /\ RanOut))
  BY <1>1 DEF Calmly
<1>3. Done' /\ (study' = "results" \/ (study' = "quiz" /\ RanOut'))
  BY <1>1, <1>2, SameRows
<1>4. QED
  BY <1>1, <1>2, <1>3, FinishedCalm

LEMMA TurnCalm ==
    ASSUME Typed, Calm, Waiting, study # "gone", NEW t \in Tabs, Turn(t)
    PROVE  Calmed(t)
<1> DEFINE s == op[t].s
<1>1. /\ op[t].pc = "turn" /\ Calmly(op[t]) /\ UNCHANGED <<quiz, expired>>
      /\ study' = s.phase /\ AfterTurn(t)
  BY DEF Turn, Calm, Waiting
<1>2. CASE op[t].ask = "result" /\ s.phase = "results" /\ Copied(op[t])
  <2>1. op'[t].pc = "finish" /\ op'[t].ask = "result" /\ op'[t].s = s
    BY <1>1, <1>2, GotoIs DEF AfterTurn
  <2>2. Copied(op[t])'
    BY <1>1, <1>2, <2>1, StillCopied
  <2>3. QED
    BY <1>1, <1>2, <2>1, <2>2 DEF Calmed, Calmly
<1>3. CASE op[t].ask = "reset" /\ s.phase = "study"
  <2>1. op'[t].pc = "clear"
    BY <1>1, <1>3, GotoIs DEF AfterTurn
  <2>2. QED
    BY <1>1, <1>3, <2>1 DEF Calmed, Calmly
<1>4. CASE op[t].ask = "page" /\ s.phase = "results" /\ Done
  <2>1. Leave(t)
    BY <1>1, <1>4 DEF AfterTurn
  <2>2. Agrees'
    BY <1>1, <1>4, SameRows DEF Agrees
  <2>3. QED
    BY <2>1, <2>2, LeavesCalm
<1>5. QED
  BY <1>1, <1>2, <1>3, <1>4 DEF Calmly

LEMMA ClearCalm ==
    ASSUME Typed, Calm, Waiting, study # "gone", NEW t \in Tabs, Clear(t)
    PROVE  Calmed(t)
<1>1. op[t].pc = "clear" /\ Calmly(op[t]) /\ UNCHANGED study /\ Cleared /\ Leave(t)
  BY DEF Clear, Calm, Waiting
<1>2. study' = "study"
  BY <1>1 DEF Calmly
<1>3. \A i \in Rows' : quiz'[i].finished
  BY <1>1, ClearedRow DEF Rows, NoRow
<1>4. QED
  BY <1>1, <1>2, <1>3, LeavesCalm DEF Agrees

\* While the job works nobody else does; when it is done the study stands at its quiz.
LEMMA WorkCalm ==
    ASSUME AloneInv, Typed', Calm, Turns, Waiting, study # "gone",
           RunJob \/ \E e \in BOOLEAN : Start(e),
           job'.pc \in {"idle", "generate", "clear"}
    PROVE  Agrees'
<1>1. \A t \in Tabs : op[t].pc = "idle"
  BY DEF RunJob, Generate, JobClear, JobTurn, JobInsert, Start, Calm, Turns
<1>2. CASE Generate \/ \E e \in BOOLEAN : Start(e)
  <2>1. job.pc \in {"idle", "generate"} /\ UNCHANGED <<study, quiz, expired>>
    BY <1>2 DEF Generate, Start
  <2>2. QED
    BY <1>1, <2>1, SameRows DEF Waiting
<1>3. ~JobClear /\ ~JobTurn
  BY DEF JobClear, JobTurn, Proceed, Calm
<1>4. CASE JobInsert
  <2>1. /\ study' = "quiz" /\ minted' = minted + 1
        /\ quiz' = [quiz EXCEPT ![minted + 1] = [phase |-> "quiz", full |-> FALSE,
                                                 finished |-> FALSE, exam |-> job.exam]]
    BY <1>4 DEF JobInsert, Turns, Calm
  <2>2. minted + 1 \in Ids /\ quiz \in [Ids -> Row]
    BY <1>4, StudyQuizAssumption DEF JobInsert, AloneInv, Typed, TypeOK, Ids
  <2>3. quiz'[minted + 1].phase = "quiz" /\ ~quiz'[minted + 1].finished
    BY <2>1, <2>2
  <2>4. Inserted
    BY <1>4, <2>1, <2>2, <2>3 DEF Inserted, JobInsert, Stop
  <2>5. QED
    BY <2>1, <2>3, <2>4, InsertedNewest DEF Agrees
<1>5. QED
  BY <1>2, <1>3, <1>4 DEF RunJob

LEMMA StepCalm ==
    ASSUME Alone, AloneInv, Typed', Calm, Turns, Waiting, [Next]_vars
    PROVE  Waiting'
<1>1. (study' = "gone" => Rows' = {}) /\ (study = "gone" => study' = "gone")
  BY GoneStays
<1> SUFFICES ASSUME study' # "gone"
             PROVE  /\ (/\ job.pc \in {"idle", "generate", "clear"}
                        /\ \A t \in Tabs : op[t].pc = "idle")' => Agrees'
                    /\ \A t \in Tabs : Calmly(op[t])'
  BY <1>1 DEF Waiting
<1>2. study # "gone" /\ Typed
  BY <1>1 DEF AloneInv
<1>3. ASSUME NEW t \in Tabs, Handle(t) \/ \E a \in Asks : Load(t, a)
      PROVE  Calmed(t)
  BY <1>2, <1>3, LoadCalm, LatestCalm, MutateCalm, DecideCalm, SaveCalm, FinishCalm, CountCalm,
     TurnCalm, ClearCalm DEF Handle
<1>4. CASE \E t \in Tabs : Handle(t) \/ \E a \in Asks : Load(t, a)
  BY <1>3, <1>4 DEF Alone, Calmed
<1>5. CASE RunJob \/ \E e \in BOOLEAN : Start(e)
  <2>1. op' = op /\ \A t \in Tabs : op[t].pc = "idle"
    BY <1>5 DEF RunJob, Generate, JobClear, JobTurn, JobInsert, Start, Calm, Turns
  <2>2. QED
    BY <1>2, <1>5, <2>1, WorkCalm DEF Calmly
<1>6. CASE (\E i \in Ids : Expire(i)) \/ UNCHANGED vars
  <2>1. UNCHANGED <<study, quiz, op, job>> /\ expired \subseteq expired'
    BY <1>6 DEF Expire, vars
  <2>2. /\ Agrees => Agrees'
        /\ RanOut => RanOut'
        /\ Done' <=> Done
        /\ \A o : Copied(o) => Copied(o)'
    BY <2>1, SameRows
  <2>3. ASSUME NEW t \in Tabs PROVE Calmly(op[t])'
    <3>1. Calmly(op[t])
      BY <1>2 DEF Waiting
    <3>2. QED
      BY <2>1, <2>2, <3>1 DEF Calmly
  <2>4. QED
    BY <1>2, <2>1, <2>2, <2>3 DEF Waiting
<1>7. ~Crash /\ ~DeleteStudy
  BY DEF Crash, DeleteStudy, Calm
<1>8. QED
  BY <1>4, <1>5, <1>6, <1>7 DEF Next

\* Whenever nothing is being served, the study and its latest quiz tell the same story,
\* through any number of quizzes, where the learner waits for every answer and no
\* statement fails (the handlers write one row after the other).
THEOREM AgreeAtRest == Alone /\ Spec => []PhasesAgree
<1> SUFFICES ASSUME Alone PROVE Spec => []PhasesAgree
  OBVIOUS
<1> DEFINE Waits == AloneInv /\ (Calm => Turns /\ Waiting)
<1>1. Init => Waits
  <2> SUFFICES ASSUME Init PROVE Waits
    OBVIOUS
  <2>1. study = "study" /\ Rows = {} /\ job.pc = "idle" /\ \A t \in Tabs : op[t].pc = "idle"
    BY DEF Init, Rows, NoRow, NoJob, NoRequest
  <2>2. QED
    BY <2>1, InitAlone DEF Turns, Waiting, Agrees, Calmly
<1>2. Waits /\ [Next]_vars => Waits'
  <2> SUFFICES ASSUME Waits, [Next]_vars PROVE Waits'
    OBVIOUS
  <2>1. AloneInv' /\ Typed'
    BY StepAlone DEF AloneInv
  <2>2. Calm' => Calm
    BY SettingStays DEF Calm
  <2>3. QED
    BY <2>1, <2>2, TurnsKept, StepCalm
<1>3. Waits => PhasesAgree
  <2> SUFFICES ASSUME Waits, Calm, AtRest PROVE PhasesAgree
    BY DEF PhasesAgree
  <2>1. (study = "gone" => Rows = {}) /\ (study # "gone" => Agrees)
    BY DEF Waiting, AtRest
  <2>2. study \in {"study", "quiz", "results", "gone"}
    BY DEF AloneInv, Typed, TypeOK, Phases
  <2>3. QED
    BY <2>1, <2>2 DEF PhasesAgree, Agrees, RanOut, Done, Newest
<1> HIDE DEF Waits
<1>4. QED
  BY <1>1, <1>2, <1>3, PTL DEF Spec

=============================================================================
