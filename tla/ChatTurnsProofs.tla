--------------------------- MODULE ChatTurnsProofs ---------------------------
(* Theorems about ChatTurns, for every set of users, chats, keys, requests   *)
(* and workers, every choice of failing repository calls and every bound.    *)
EXTENDS ChatTurns, TLAPS

-----------------------------------------------------------------------------
(* Lemmas on the steps shared by the actions *)

WorkerTyped ==
    /\ worker \in [Workers -> [pc : WorkerPCs, task : Requests \cup {None}]]
    /\ \A w \in Workers : worker[w].pc = "idle" <=> worker[w].task = None

\* Spawn leaves every worker typed.
LEMMA SpawnType ==
    ASSUME TypeOK, NEW t \in Requests, Spawn(t)
    PROVE  WorkerTyped'
BY ChatTurnsAssumption DEF Spawn, TypeOK, WorkerTyped, WorkerPCs, At, Idle

\* Step leaves every worker typed, and is taken by a worker that has a turn.
LEMMA StepType ==
    ASSUME TypeOK, NEW w \in Workers, NEW from \in WorkerPCs \ {"idle"},
           NEW to \in WorkerPCs, Step(w, from, to)
    PROVE  WorkerTyped' /\ worker[w].task \in Requests
BY ChatTurnsAssumption DEF Step, TypeOK, WorkerTyped, At, WorkerPCs

\* SetStatus leaves the table typed.
LEMMA SetStatusType ==
    ASSUME TypeOK, NEW t \in Requests, NEW s \in Statuses, SetStatus(t, s)
    PROVE  turn' \in [Requests -> Row]
BY DEF SetStatus, WithStatus, TypeOK, Row

-----------------------------------------------------------------------------
(* Type correctness *)

\* Every action of a worker keeps every variable in its type.
LEMMA WorkType ==
    ASSUME TypeOK, NEW w \in Workers, Work(w)
    PROVE  TypeOK'
<1> USE DEF WorkerTyped, WorkerPCs, RunPCs, clientVars, turnVars, slotVars
<1>1. CASE GetAny(w)
  BY <1>1, StepType DEF GetAny, TypeOK
<1>2. CASE MarkRunning(w)
  <2>1. WorkerTyped' /\ worker[w].task \in Requests
    BY <1>2, StepType DEF MarkRunning
  <2>2. turn' \in [Requests -> Row]
    BY <1>2, <2>1, SetStatusType DEF MarkRunning, TypeOK, Statuses
  <2>3. QED
    BY <1>2, <2>1, <2>2 DEF MarkRunning, TypeOK
<1>3. CASE StartAI(w)
  BY <1>3, StepType DEF StartAI, TypeOK
<1>4. CASE QuotaGate(w)
  BY <1>4, StepType DEF QuotaGate, TypeOK
<1>5. CASE LoadStudy(w)
  BY <1>5, StepType DEF LoadStudy, TypeOK
<1>6. CASE ReadHistory(w)
  BY <1>6, StepType DEF ReadHistory, TypeOK
<1>7. CASE CallProvider(w)
  BY <1>7, StepType DEF CallProvider, TypeOK
<1>8. CASE Bill(w)
  BY <1>8, StepType DEF Bill, TypeOK
<1>9. CASE Complete(w)
  <2>1. WorkerTyped' /\ worker[w].task \in Requests
    BY <1>9, StepType DEF Complete
  <2>2. turn' \in [Requests -> Row]
    BY <1>9, <2>1, SetStatusType DEF Complete, TypeOK, Statuses
  <2>3. QED
    BY <1>9, <2>1, <2>2 DEF Complete, TypeOK
<1>10. CASE Fail(w)
  <2>1. WorkerTyped' /\ worker[w].task \in Requests
    BY <1>10, StepType DEF Fail
  <2>2. turn' \in [Requests -> Row]
    BY <1>10, <2>1, SetStatusType DEF Fail, TypeOK, Statuses
  <2>3. QED
    BY <1>10, <2>1, <2>2 DEF Fail, TypeOK
<1>11. CASE EndAI(w)
  BY <1>11, StepType DEF EndAI, TypeOK
<1>12. QED
  BY <1>1, <1>2, <1>3, <1>4, <1>5, <1>6, <1>7, <1>8, <1>9, <1>10, <1>11 DEF Work

\* So does every action of a request.
LEMMA ClientType ==
    ASSUME TypeOK, NEW r \in Requests,
           \/ \E c \in Chats, k \in ClientKeys : CreateBegin(r, c, k)
           \/ Create(r) \/ RetryCheck(r) \/ Retry(r)
    PROVE  TypeOK'
<1> USE DEF WorkerTyped, clientVars, turnVars, slotVars
<1>1. ASSUME NEW c \in Chats, NEW k \in ClientKeys, CreateBegin(r, c, k)
      PROVE  TypeOK'
  <2>1. WorkerTyped'
    BY <1>1, SpawnType DEF CreateBegin, RowsFor, Rows, TypeOK
  <2>2. QED
    BY <1>1, <2>1 DEF CreateBegin, Finish, Over, TypeOK
<1>2. CASE Create(r)
  <2>1. WorkerTyped'
    BY <1>2, SpawnType DEF Create, InsertRow, RowsFor, Rows, TypeOK
  <2>2. turn' \in [Requests -> Row]
    BY <1>2 DEF Create, InsertRow, TypeOK, Row, Statuses
  <2>3. QED
    BY <1>2, <2>1, <2>2 DEF Create, Finish, Over, TypeOK
<1>3. CASE RetryCheck(r)
  BY <1>3 DEF RetryCheck, TypeOK
<1>4. CASE Retry(r)
  <2>1. WorkerTyped'
    BY <1>4, SpawnType DEF Retry, TypeOK
  <2>2. turn' \in [Requests -> Row]
    BY <1>4 DEF Retry, TypeOK, Row, Statuses
  <2>3. retries' \in [Requests -> Nat]
    BY <1>4 DEF Retry, TypeOK
  <2>4. QED
    BY <1>4, <2>1, <2>2, <2>3 DEF Retry, TypeOK
<1>5. QED
  BY <1>1, <1>2, <1>3, <1>4

\* And so does everything else.
LEMMA EnvironmentType ==
    ASSUME TypeOK,
           \/ \E u \in Users : OtherCall(u) \/ OtherDone(u) \/ AdminQuota(u)
           \/ \E c \in Chats : DeleteChat(c)
           \/ Crash \/ Restart \/ UNCHANGED vars
    PROVE  TypeOK'
<1> USE DEF WorkerTyped, clientVars, turnVars, slotVars
<1>1. ASSUME NEW u \in Users, OtherCall(u)  PROVE TypeOK'
  BY <1>1 DEF OtherCall, TypeOK
<1>2. ASSUME NEW u \in Users, OtherDone(u)  PROVE TypeOK'
  BY <1>2 DEF OtherDone, TypeOK
<1>3. ASSUME NEW u \in Users, AdminQuota(u)  PROVE TypeOK'
  BY <1>3 DEF AdminQuota, TypeOK
<1>4. ASSUME NEW c \in Chats, DeleteChat(c)  PROVE TypeOK'
  BY <1>4 DEF DeleteChat, NoRow, Row, Statuses, TypeOK
<1>5. CASE Crash
  <2>1. WorkerTyped'
    BY <1>5, ChatTurnsAssumption DEF Crash, Idle, At, WorkerPCs
  <2>2. req' \in [Requests -> [pc : {"idle", "insert", "done"},
                               chat : Chats \cup {None}, key : ClientKeys \cup {None}]]
    BY <1>5 DEF Crash, Over, TypeOK
  <2>3. /\ inFlight' \in [Users -> BOOLEAN] /\ other' \in [Users -> BOOLEAN]
        /\ retries' \in [Requests -> Nat]
    BY <1>5 DEF Crash
  <2>4. up' \in BOOLEAN
    BY <1>5 DEF Crash
  <2>5. crashes' \in Nat
    BY <1>5 DEF Crash, TypeOK
  <2>6. QED
    BY <1>5, <2>1, <2>2, <2>3, <2>4, <2>5 DEF Crash, TypeOK
<1>6. CASE Restart
  <2>1. turn' \in [Requests -> Row]
    BY <1>6 DEF Restart, WithStatus, Row, Statuses, TypeOK
  <2>2. lost' \subseteq Requests
    BY <1>6 DEF Restart, Unfinished, TypeOK
  <2>3. QED
    BY <1>6, <2>1, <2>2 DEF Restart, TypeOK
<1>7. CASE UNCHANGED vars
  BY <1>7 DEF vars, TypeOK
<1>8. QED
  BY <1>1, <1>2, <1>3, <1>4, <1>5, <1>6, <1>7

LEMMA InitType == Init => TypeOK
BY ChatTurnsAssumption
   DEF Init, TypeOK, NoRow, Row, Statuses, Idle, At, WorkerPCs

LEMMA NextType == TypeOK /\ [Next]_vars => TypeOK'
BY WorkType, ClientType, EnvironmentType DEF Next

\* Every reachable state is well typed: in particular a row's status is one of
\* the values the CHECK constraint of migration 0010 allows, and a worker that is
\* alive always has a turn.
THEOREM TypeCorrect == Spec => []TypeOK
BY InitType, NextType, PTL DEF Spec

-----------------------------------------------------------------------------
(* The inductive invariant *)

\* A request that is about to insert knows its chat and key; rows and workers
\* belong to requests that are over and so never change their chat and key.
Settled ==
    /\ \A r \in Requests : req[r].pc = "insert" =>
           req[r].chat \in Chats /\ req[r].key \in ClientKeys
    /\ \A t \in Requests : turn[t].status # "none" =>
           req[t].pc = "done" /\ req[t].chat \in Chats
    /\ \A w \in Workers : worker[w].pc # "idle" =>
           req[worker[w].task].pc = "done" /\ req[worker[w].task].chat \in Chats

\* Nothing that lives in memory outlives the process.
Quiet ==
    ~up => /\ \A w \in Workers : worker[w].pc = "idle"
           /\ \A u \in Users : ~inFlight[u] /\ ~other[u]

IInv ==
    /\ TypeOK
    /\ Settled
    /\ Quiet
    /\ OneTurnPerKey
    /\ AnswerIffSucceeded
    /\ ExclusiveRunner
    /\ SingleFlight

LEMMA InitInv == Init => IInv
BY InitType
   DEF Init, IInv, Settled, Quiet, OneTurnPerKey, AnswerIffSucceeded, ExclusiveRunner,
       SingleFlight, Rows, NoRow, Idle, At, Running, Holds, RunPCs, HoldPCs

\* What a worker's step leaves alone and what it knows of its turn.
LEMMA StepEffect ==
    ASSUME IInv, NEW w \in Workers, NEW from \in WorkerPCs \ {"idle"},
           NEW to \in WorkerPCs, Step(w, from, to)
    PROVE  /\ up
           /\ worker[w].pc = from
           /\ worker[w].task \in Requests
           /\ worker'[w].pc = to
           /\ worker'[w].task = IF to = "idle" THEN None ELSE worker[w].task
           /\ \A v \in Workers : v # w => worker'[v] = worker[v]
           /\ req[worker[w].task].pc = "done"
           /\ req[worker[w].task].chat \in Chats
           /\ UserOf(worker[w].task) \in Users
BY ChatTurnsAssumption DEF IInv, Settled, Quiet, TypeOK, Step, UserOf, At

\* A worker's step that removes no row keeps what workers know of their requests.
LEMMA StepSettled ==
    ASSUME IInv, NEW w \in Workers, NEW from \in WorkerPCs \ {"idle"},
           NEW to \in WorkerPCs, Step(w, from, to), UNCHANGED <<up, req>>,
           \A t \in Requests : turn'[t].status # "none" => turn[t].status # "none"
    PROVE  Settled' /\ Quiet'
<1>1. \A v \in Workers : worker'[v].pc # "idle" =>
         req[worker'[v].task].pc = "done" /\ req[worker'[v].task].chat \in Chats
  BY StepEffect DEF IInv, Settled
<1>2. QED
  BY <1>1, StepEffect DEF IInv, Settled, Quiet

\* A worker that stays on the same side of startAI and endAI keeps the slot's
\* account right.
LEMMA StepFlight ==
    ASSUME IInv, NEW w \in Workers, NEW from \in WorkerPCs \ {"idle"},
           NEW to \in WorkerPCs, Step(w, from, to), UNCHANGED <<req, inFlight, other>>,
           from \in HoldPCs <=> to \in HoldPCs
    PROVE  SingleFlight'
<1>1. "idle" \notin HoldPCs
  BY DEF HoldPCs, RunPCs
<1>2. \A v \in Workers, u \in Users : Holds(v, u)' <=> Holds(v, u)
  BY <1>1, StepEffect DEF Holds, UserOf
<1>3. QED
  BY <1>2 DEF IInv, SingleFlight

\* After a step of w from a place past MarkRunning, nobody runs a turn who did
\* not run it before; if w leaves, its turn has no runner any more.
LEMMA StepRunner ==
    ASSUME IInv, NEW w \in Workers, NEW from \in RunPCs,
           NEW to \in WorkerPCs, Step(w, from, to)
    PROVE  /\ \A v \in Workers, t \in Requests : Running(v, t)' => Running(v, t)
           /\ to \notin RunPCs =>
                \A v \in Workers, t \in Requests : t = worker[w].task => ~Running(v, t)'
<1>1. from \in WorkerPCs \ {"idle"} /\ "idle" \notin RunPCs
  BY DEF WorkerPCs, RunPCs
<1>2. Running(w, worker[w].task)
  BY <1>1, StepEffect DEF Running
<1>3. \A v \in Workers, t \in Requests : Running(v, t)' => Running(v, t)
  <2>1. \A v \in Workers : v # w => worker'[v] = worker[v]
    BY <1>1, StepEffect
  <2>2. \A t \in Requests : Running(w, t)' => Running(w, t)
    BY <1>1, <1>2, StepEffect DEF Running
  <2>3. QED
    BY <2>1, <2>2 DEF Running
<1>4. ASSUME to \notin RunPCs, NEW v \in Workers, NEW t \in Requests, t = worker[w].task
      PROVE  ~Running(v, t)'
  <2>1. CASE v = w
    BY <1>1, <1>4, <2>1, StepEffect DEF Running
  <2>2. CASE v # w
    <3>1. ~Running(v, t)
      BY <1>2, <1>4, <2>2 DEF IInv, ExclusiveRunner
    <3>2. worker'[v] = worker[v]
      BY <1>1, <2>2, StepEffect
    <3>3. QED
      BY <3>1, <3>2 DEF Running
  <2>3. QED
    BY <2>1, <2>2
<1>5. QED
  BY <1>3, <1>4

Unmoved == UNCHANGED <<up, req, turn, answers, inFlight, other>>

\* A worker that moves on without touching a row or the slot, and stays on the
\* same side of MarkRunning, of startAI and of endAI, keeps the invariant.
LEMMA MoveKeeps ==
    ASSUME IInv, TypeOK', NEW w \in Workers, NEW from \in WorkerPCs \ {"idle"},
           NEW to \in WorkerPCs, Step(w, from, to), Unmoved,
           to \in RunPCs => from \in RunPCs, from \in HoldPCs <=> to \in HoldPCs
    PROVE  IInv'
<1>1. Settled' /\ Quiet' /\ SingleFlight'
  BY StepSettled, StepFlight DEF Unmoved
<1>2. OneTurnPerKey' /\ AnswerIffSucceeded'
  BY DEF IInv, OneTurnPerKey, AnswerIffSucceeded, Unmoved, Rows
<1>3. \A v \in Workers, s \in Requests : Running(v, s)' => Running(v, s)
  <2>1. "idle" \notin RunPCs
    BY DEF RunPCs
  <2>2. QED
    BY <2>1, StepEffect DEF Running
<1>4. ExclusiveRunner'
  BY <1>3 DEF IInv, ExclusiveRunner, Unmoved
<1>5. QED
  BY <1>1, <1>2, <1>4 DEF IInv

\* MarkRunning admits a first runner and no second.
LEMMA MarkRunningKeeps ==
    ASSUME IInv, TypeOK', NEW w \in Workers, MarkRunning(w)
    PROVE  IInv'
<1> DEFINE t == worker[w].task
<1> USE DEF WorkerPCs, RunPCs, HoldPCs, turnVars, clientVars, slotVars
<1>1. CASE Step(w, "mark", "idle") /\ UNCHANGED turn
  BY <1>1, MoveKeeps DEF MarkRunning, Unmoved
<1>2. CASE Step(w, "mark", "claim") /\ turn[t].status = "queued" /\ SetStatus(t, "running")
  <2>1. t \in Requests /\ turn'[t].status = "running"
        /\ \A s \in Requests : s # t => turn'[s] = turn[s]
    BY <1>2, StepEffect DEF SetStatus, WithStatus, IInv, TypeOK
  <2>2. Settled' /\ Quiet' /\ SingleFlight'
    BY <1>2, <2>1, StepSettled, StepFlight DEF MarkRunning
  <2>3. OneTurnPerKey' /\ AnswerIffSucceeded'
    BY <1>2, <2>1 DEF MarkRunning, IInv, OneTurnPerKey, AnswerIffSucceeded, Rows
  <2>4. \A v \in Workers : ~Running(v, t)
    BY <1>2, <2>1 DEF IInv, ExclusiveRunner
  <2>5. \A v \in Workers, s \in Requests : Running(v, s)' <=>
           (v = w /\ s = t) \/ Running(v, s)
    BY <1>2, <2>1, <2>4, StepEffect DEF Running
  <2>6. ExclusiveRunner'
    BY <2>1, <2>4, <2>5 DEF IInv, ExclusiveRunner
  <2>7. QED
    BY <2>2, <2>3, <2>6 DEF IInv
<1>3. QED
  BY <1>1, <1>2 DEF MarkRunning

\* The steps that only read, call the provider or bill.
LEMMA PlainMoveKeeps ==
    ASSUME IInv, TypeOK', NEW w \in Workers,
           GetAny(w) \/ QuotaGate(w) \/ LoadStudy(w) \/ ReadHistory(w)
             \/ CallProvider(w) \/ Bill(w)
    PROVE  IInv'
<1> USE DEF WorkerPCs, RunPCs, HoldPCs, Unmoved, turnVars, clientVars, slotVars
<1>1. CASE GetAny(w)
  BY <1>1, MoveKeeps DEF GetAny
<1>2. CASE QuotaGate(w)
  BY <1>2, MoveKeeps DEF QuotaGate
<1>3. CASE LoadStudy(w)
  BY <1>3, MoveKeeps DEF LoadStudy
<1>4. CASE ReadHistory(w)
  BY <1>4, MoveKeeps DEF ReadHistory
<1>5. CASE CallProvider(w)
  <2>1. CASE Step(w, "call", "recall")
    BY <1>5, <2>1, MoveKeeps DEF CallProvider
  <2>2. CASE \E from \in {"call", "recall"}, to \in {"bill_ok", "bill_err"} :
               Step(w, from, to)
    <3>1. PICK from \in {"call", "recall"}, to \in {"bill_ok", "bill_err"} :
                 Step(w, from, to)
      BY <2>2
    <3>2. QED
      BY <1>5, <3>1, MoveKeeps DEF CallProvider
  <2>3. QED
    BY <1>5, <2>1, <2>2 DEF CallProvider
<1>6. CASE Bill(w)
  BY <1>6, MoveKeeps DEF Bill
<1>7. QED
  BY <1>1, <1>2, <1>3, <1>4, <1>5, <1>6

\* startAI admits a holder only into a free slot.
LEMMA StartAIKeeps ==
    ASSUME IInv, TypeOK', NEW w \in Workers, StartAI(w)
    PROVE  IInv'
<1> DEFINE u == UserOf(worker[w].task)
<1> USE DEF WorkerPCs, RunPCs, HoldPCs, turnVars, clientVars
<1>1. CASE Step(w, "claim", "refuse") /\ UNCHANGED inFlight
  BY <1>1, MoveKeeps DEF StartAI, Unmoved
<1>2. CASE Step(w, "claim", "gate") /\ ~inFlight[u]
             /\ inFlight' = [inFlight EXCEPT ![u] = TRUE]
  <2>1. Settled' /\ Quiet'
    BY <1>2, StepSettled, StepEffect DEF StartAI, Quiet, IInv
  <2>2. OneTurnPerKey' /\ AnswerIffSucceeded'
    BY DEF StartAI, IInv, OneTurnPerKey, AnswerIffSucceeded, Rows
  <2>3. ExclusiveRunner'
    BY <1>2, StepRunner DEF StartAI, IInv, ExclusiveRunner
  <2>4. u \in Users /\ inFlight'[u] /\ ~other[u]
        /\ \A x \in Users : x # u => (inFlight'[x] <=> inFlight[x])
    BY <1>2, StepEffect DEF IInv, TypeOK, SingleFlight
  <2>5. \A v \in Workers : ~Holds(v, u)
    BY <1>2, <2>4 DEF IInv, SingleFlight
  <2>6. \A v \in Workers, x \in Users :
           Holds(v, x)' <=> Holds(v, x) \/ (v = w /\ x = u)
    <3>1. \A v \in Workers : v # w => worker'[v] = worker[v]
      BY <1>2, StepEffect
    <3>2. worker[w].pc = "claim" /\ worker'[w].pc = "gate" /\ worker'[w].task = worker[w].task
      BY <1>2, StepEffect
    <3>3. req' = req
      BY DEF StartAI
    <3>4. QED
      BY <3>1, <3>2, <3>3 DEF Holds, UserOf
  <2>7. SingleFlight'
    BY <2>4, <2>5, <2>6 DEF StartAI, IInv, SingleFlight
  <2>8. QED
    BY <2>1, <2>2, <2>3, <2>7 DEF IInv
<1>3. QED
  BY <1>1, <1>2 DEF StartAI

\* Only the holder gives the slot back.
LEMMA EndAIKeeps ==
    ASSUME IInv, TypeOK', NEW w \in Workers, EndAI(w)
    PROVE  IInv'
<1> DEFINE u == UserOf(worker[w].task)
<1> USE DEF WorkerPCs, HoldPCs, turnVars, clientVars
<1>1. Settled' /\ Quiet'
  BY StepSettled, StepEffect DEF EndAI, Quiet, IInv
<1>2. OneTurnPerKey' /\ AnswerIffSucceeded'
  BY DEF EndAI, IInv, OneTurnPerKey, AnswerIffSucceeded, Rows
<1>3. \A v \in Workers, t \in Requests : Running(v, t)' => Running(v, t)
  BY StepEffect DEF EndAI, Running, RunPCs
<1>4. ExclusiveRunner'
  BY <1>3 DEF EndAI, IInv, ExclusiveRunner
<1>5. u \in Users /\ ~inFlight'[u]
      /\ \A x \in Users : x # u => (inFlight'[x] <=> inFlight[x])
  BY StepEffect DEF EndAI, IInv, TypeOK
<1>6. Holds(w, u)
  BY <1>5, StepEffect DEF EndAI, Holds
<1>7. ~other[u] /\ \A v \in Workers : Holds(v, u) => v = w
  BY <1>5, <1>6 DEF IInv, SingleFlight
<1>8. \A v \in Workers, x \in Users : Holds(v, x)' <=> Holds(v, x) /\ v # w
  BY <1>5, StepEffect DEF EndAI, Holds, UserOf, RunPCs
<1>9. \A v \in Workers, x \in Users : Holds(v, x) /\ v = w => x = u
  BY DEF Holds
<1>10. SingleFlight'
  BY <1>5, <1>7, <1>8, <1>9 DEF EndAI, IInv, SingleFlight
<1>11. QED
  BY <1>1, <1>2, <1>4, <1>10 DEF IInv

\* A worker that stops running its turn may write the row's status as it leaves.
LEMMA FinishKeeps ==
    ASSUME IInv, TypeOK', NEW w \in Workers, NEW from \in RunPCs,
           NEW to \in WorkerPCs \ RunPCs, Step(w, from, to), NEW s \in Statuses \ {"none"},
           SetStatus(worker[w].task, s), turn[worker[w].task].status # "none",
           UNCHANGED <<up, req, inFlight, other>>, from \in HoldPCs <=> to \in HoldPCs,
           AnswerIffSucceeded'
    PROVE  IInv'
<1> DEFINE t == worker[w].task
<1>1. from \in WorkerPCs \ {"idle"}
  BY DEF WorkerPCs, RunPCs
<1>2. t \in Requests
  BY <1>1, StepEffect
<1>3. turn'[t].status = s /\ \A r \in Requests : r # t => turn'[r] = turn[r]
  BY <1>2 DEF SetStatus, WithStatus, IInv, TypeOK
<1>4. Settled' /\ Quiet' /\ SingleFlight'
  BY <1>1, <1>2, <1>3, StepSettled, StepFlight
<1>5. OneTurnPerKey'
  BY <1>2, <1>3 DEF IInv, OneTurnPerKey, Rows
<1>6. \A v \in Workers, r \in Requests : Running(v, r)' => Running(v, r) /\ r # t
  BY <1>2, StepRunner
<1>7. ExclusiveRunner'
  BY <1>3, <1>6 DEF IInv, ExclusiveRunner
<1>8. QED
  BY <1>4, <1>5, <1>7 DEF IInv

\* Complete writes the answer together with the status, and only once.
LEMMA CompleteKeeps ==
    ASSUME IInv, TypeOK', NEW w \in Workers, Complete(w)
    PROVE  IInv'
<1> DEFINE t == worker[w].task
<1> USE DEF WorkerPCs, RunPCs, HoldPCs
<1>1. CASE (Step(w, "complete", "release") \/ Step(w, "complete", "fail"))
             /\ UNCHANGED turnVars
  BY <1>1, MoveKeeps DEF Complete, Unmoved, turnVars, clientVars, slotVars
<1>2. CASE /\ Step(w, "complete", "release") /\ turn[t].status = "running"
           /\ SetStatus(t, "succeeded")
           /\ answers' = [answers EXCEPT ![t] = @ + 1]
  <2>1. t \in Requests
    BY <1>2, StepEffect
  <2>2. /\ turn'[t].status = "succeeded"
        /\ \A r \in Requests : r # t => turn'[r] = turn[r]
    BY <1>2, <2>1 DEF SetStatus, WithStatus, IInv, TypeOK
  <2>3. answers[t] = 0
    BY <1>2, <2>1 DEF IInv, AnswerIffSucceeded
  <2>4. answers'[t] = 1 /\ \A r \in Requests : r # t => answers'[r] = answers[r]
    BY <1>2, <2>1, <2>3 DEF IInv, TypeOK
  <2>5. AnswerIffSucceeded'
    BY <2>2, <2>4 DEF IInv, AnswerIffSucceeded
  <2>6. QED
    BY <1>2, <2>5, FinishKeeps DEF Complete, Statuses, clientVars, slotVars
<1>3. QED
  BY <1>1, <1>2 DEF Complete

\* Fail never touches a turn that has its answer.
LEMMA FailKeeps ==
    ASSUME IInv, TypeOK', NEW w \in Workers, Fail(w)
    PROVE  IInv'
<1> DEFINE t == worker[w].task
<1> USE DEF WorkerPCs, RunPCs, HoldPCs
<1>1. CASE UNCHANGED turn
  BY <1>1, MoveKeeps DEF Fail, Unmoved, clientVars, slotVars
<1>2. CASE turn[t].status \in {"queued", "running"} /\ SetStatus(t, "failed")
  <2>1. t \in Requests
    BY StepEffect DEF Fail
  <2>2. /\ turn'[t].status = "failed"
        /\ \A r \in Requests : r # t => turn'[r] = turn[r]
    BY <1>2, <2>1 DEF SetStatus, WithStatus, IInv, TypeOK
  <2>3. AnswerIffSucceeded'
    BY <1>2, <2>1, <2>2 DEF Fail, IInv, AnswerIffSucceeded
  <2>4. QED
    BY <1>2, <2>3, FinishKeeps DEF Fail, Statuses, clientVars, slotVars
<1>3. QED
  BY <1>1, <1>2 DEF Fail

LEMMA WorkKeeps ==
    ASSUME IInv, TypeOK', NEW w \in Workers, Work(w)
    PROVE  IInv'
BY PlainMoveKeeps, MarkRunningKeeps, StartAIKeeps, CompleteKeeps, FailKeeps, EndAIKeeps
   DEF Work

-----------------------------------------------------------------------------
(* Requests *)

Spawns == \E t \in Requests : req'[t].pc = "done" /\ req'[t].chat \in Chats /\ Spawn(t)

LEMMA SpawnEffect ==
    ASSUME IInv, NEW t \in Requests, Spawn(t)
    PROVE  \E w \in Workers :
              /\ worker[w].pc = "idle" /\ worker'[w].pc = "start" /\ worker'[w].task = t
              /\ \A v \in Workers : v # w => worker'[v] = worker[v]
BY DEF IInv, TypeOK, Spawn, Idle, At

\* A request that was sent keeps its chat and its key.
Remembered ==
    \A r \in Requests :
        /\ req[r].pc # "idle" => req'[r].chat = req[r].chat /\ req'[r].key = req[r].key
        /\ req[r].pc = "done" => req'[r].pc = "done"

\* A new worker neither runs a turn nor holds a slot.
LEMMA SpawnIdle ==
    ASSUME IInv, UNCHANGED worker \/ Spawns, Remembered
    PROVE  \A v \in Workers :
             /\ worker'[v].pc # "idle" =>
                  req'[worker'[v].task].pc = "done" /\ req'[worker'[v].task].chat \in Chats
             /\ \A t \in Requests : Running(v, t)' <=> Running(v, t)
             /\ \A u \in Users : Holds(v, u)' <=> Holds(v, u)
<1>1. "idle" \notin RunPCs \cup HoldPCs /\ "start" \notin RunPCs \cup HoldPCs
  BY DEF RunPCs, HoldPCs
<1>2. SUFFICES ASSUME NEW v \in Workers
               PROVE  /\ worker'[v].pc # "idle" =>
                           /\ req'[worker'[v].task].pc = "done"
                           /\ req'[worker'[v].task].chat \in Chats
                      /\ \A t \in Requests : Running(v, t)' <=> Running(v, t)
                      /\ \A u \in Users : Holds(v, u)' <=> Holds(v, u)
  OBVIOUS
<1>3. CASE worker'[v] = worker[v]
  <2>1. worker[v].pc # "idle" =>
          /\ worker[v].task \in Requests
          /\ req[worker[v].task].pc = "done" /\ req[worker[v].task].chat \in Chats
    BY DEF IInv, Settled, TypeOK
  <2>2. QED
    BY <1>1, <1>3, <2>1 DEF Remembered, Running, Holds, UserOf
<1>4. CASE worker'[v] # worker[v]
  <2>1. PICK t \in Requests : req'[t].pc = "done" /\ req'[t].chat \in Chats /\ Spawn(t)
    BY <1>4 DEF Spawns
  <2>2. worker[v].pc = "idle" /\ worker'[v].pc = "start" /\ worker'[v].task = t
    BY <1>4, <2>1, SpawnEffect
  <2>3. QED
    BY <1>1, <2>1, <2>2 DEF Running, Holds
<1>5. QED
  BY <1>3, <1>4

\* What a request may do to the rows.
LEMMA RequestKeeps ==
    ASSUME IInv, TypeOK', up, UNCHANGED worker \/ Spawns, Remembered,
           UNCHANGED <<up, answers, inFlight, other>>,
           \A r \in Requests : req'[r].pc = "insert" =>
               req'[r].chat \in Chats /\ req'[r].key \in ClientKeys,
           \A r \in Requests : turn'[r].status # "none" =>
               req'[r].pc = "done" /\ req'[r].chat \in Chats,
           \A r \in Requests :
               req[r].pc = "done" /\ turn[r].status \in {"running", "none"} =>
                   turn'[r].status = turn[r].status,
           \A r \in Requests : turn'[r].status = "succeeded" <=> turn[r].status = "succeeded",
           OneTurnPerKey'
    PROVE  IInv'
<1>1. Settled' /\ Quiet'
  BY SpawnIdle DEF Settled, Quiet
<1>2. AnswerIffSucceeded'
  BY DEF IInv, AnswerIffSucceeded
<1>3. \A w \in Workers, t \in Requests : Running(w, t) => req[t].pc = "done"
  BY DEF Running, RunPCs, IInv, Settled
<1>4. ExclusiveRunner'
  BY <1>3, SpawnIdle DEF IInv, ExclusiveRunner
<1>5. SingleFlight'
  BY SpawnIdle DEF IInv, SingleFlight
<1>6. QED
  BY <1>1, <1>2, <1>4, <1>5 DEF IInv

LEMMA CreateBeginKeeps ==
    ASSUME IInv, TypeOK', NEW r \in Requests, NEW c \in Chats, NEW k \in ClientKeys,
           CreateBegin(r, c, k)
    PROVE  IInv'
<1> USE DEF Rows, turnVars, slotVars
<1>1. req[r].pc = "idle" /\ turn[r].status = "none"
      /\ \A s \in Requests : s # r => req'[s] = req[s]
  BY DEF CreateBegin, Finish, IInv, TypeOK, Settled
<1>2. \/ req'[r].pc = "done"
      \/ req'[r].pc = "insert" /\ req'[r].chat = c /\ req'[r].key = k
  BY DEF CreateBegin, Finish, Over, IInv, TypeOK
<1>3. Remembered
  BY <1>1 DEF Remembered
<1>4. UNCHANGED worker \/ Spawns
  <2>1. ASSUME NEW t \in RowsFor(c, k), Spawn(t)
        PROVE  Spawns
    <3>1. t \in Requests /\ t # r /\ req[t].pc = "done" /\ req[t].chat \in Chats
      BY <1>1, <2>1 DEF RowsFor, IInv, Settled
    <3>2. QED
      BY <1>1, <2>1, <3>1 DEF Spawns
  <2>2. QED
    BY <2>1 DEF CreateBegin
<1>5. OneTurnPerKey'
  BY <1>1 DEF CreateBegin, IInv, OneTurnPerKey
<1>6. \A s \in Requests :
        /\ req'[s].pc = "insert" => req'[s].chat \in Chats /\ req'[s].key \in ClientKeys
        /\ turn'[s].status # "none" => req'[s].pc = "done" /\ req'[s].chat \in Chats
  BY <1>1, <1>2 DEF CreateBegin, IInv, Settled
<1>7. QED
  BY <1>3, <1>4, <1>5, <1>6, RequestKeeps DEF CreateBegin

\* Create inserts a row only where the key has none.
LEMMA CreateKeeps ==
    ASSUME IInv, TypeOK', NEW r \in Requests, Create(r)
    PROVE  IInv'
<1> DEFINE found == RowsFor(req[r].chat, req[r].key)
<1> USE DEF slotVars
<1>1. /\ req[r].pc = "insert" /\ req[r].chat \in Chats /\ req[r].key \in ClientKeys
      /\ turn[r].status = "none"
      /\ \A s \in Requests : s # r => req'[s] = req[s]
  BY DEF Create, Finish, IInv, TypeOK, Settled
<1>2. req'[r].pc = "done" /\ req'[r].chat = req[r].chat /\ req'[r].key = req[r].key
  BY DEF Create, Finish, Over, IInv, TypeOK
<1>3. Remembered
  BY <1>1, <1>2 DEF Remembered
<1>4. \A s \in Requests : req'[s].pc = "insert" =>
        req'[s].chat \in Chats /\ req'[s].key \in ClientKeys
  BY <1>1, <1>2 DEF IInv, Settled
<1>5. CASE UNCHANGED turn /\ (UNCHANGED worker \/ \E t \in found : Spawn(t))
  <2>1. ASSUME NEW t \in found, Spawn(t)
        PROVE  Spawns
    <3>1. t \in Requests /\ t # r /\ req[t].pc = "done" /\ req[t].chat \in Chats
      BY <1>1, <2>1 DEF RowsFor, Rows, IInv, Settled
    <3>2. QED
      BY <1>1, <2>1, <3>1 DEF Spawns
  <2>2. OneTurnPerKey'
    BY <1>1, <1>2, <1>5 DEF IInv, OneTurnPerKey, Rows
  <2>3. \A s \in Requests : turn'[s].status # "none" =>
          req'[s].pc = "done" /\ req'[s].chat \in Chats
    BY <1>1, <1>5 DEF IInv, Settled
  <2>4. QED
    BY <1>3, <1>4, <1>5, <2>1, <2>2, <2>3, RequestKeeps DEF Create
<1>6. CASE found = {} /\ InsertRow(r)
  <2>1. turn'[r].status = "queued" /\ \A s \in Requests : s # r => turn'[s] = turn[s]
    BY <1>6 DEF InsertRow, IInv, TypeOK
  <2>2. Spawns
    BY <1>1, <1>2, <1>6 DEF InsertRow, Spawns
  <2>3. \A s \in Requests : turn[s].status # "none" =>
          ~(req[s].chat = req[r].chat /\ req[s].key = req[r].key)
    BY <1>6 DEF RowsFor, Rows
  <2>4. OneTurnPerKey'
    BY <1>1, <1>2, <2>1, <2>3 DEF IInv, OneTurnPerKey, Rows
  <2>5. \A s \in Requests : turn'[s].status # "none" =>
          req'[s].pc = "done" /\ req'[s].chat \in Chats
    BY <1>1, <1>2, <2>1 DEF IInv, Settled
  <2>6. QED
    BY <1>1, <1>3, <1>4, <2>1, <2>2, <2>4, <2>5, RequestKeeps DEF Create
<1>7. QED
  BY <1>5, <1>6 DEF Create

LEMMA RetryKeeps ==
    ASSUME IInv, TypeOK', NEW t \in Requests, RetryCheck(t) \/ Retry(t)
    PROVE  IInv'
<1> USE DEF turnVars, slotVars
<1>1. up /\ UNCHANGED req /\ Remembered
  BY DEF RetryCheck, Retry, Remembered
<1>2. CASE UNCHANGED <<turn, worker>>
  <2>1. OneTurnPerKey'
    BY <1>1, <1>2 DEF IInv, OneTurnPerKey, Rows
  <2>2. QED
    BY <1>1, <1>2, <2>1, RequestKeeps DEF RetryCheck, Retry, IInv, Settled
<1>3. CASE /\ turn[t].status = "failed" /\ Retry(t) /\ Spawn(t)
           /\ turn' = [turn EXCEPT ![t] = [status |-> "queued", attempt |-> @.attempt + 1]]
  <2>1. turn'[t].status = "queued" /\ \A s \in Requests : s # t => turn'[s] = turn[s]
    BY <1>3 DEF IInv, TypeOK
  <2>2. req[t].pc = "done" /\ req[t].chat \in Chats
    BY <1>3 DEF IInv, Settled
  <2>3. Spawns
    BY <1>1, <1>3, <2>2 DEF Spawns
  <2>4. OneTurnPerKey'
    BY <1>1, <1>3, <2>1 DEF IInv, OneTurnPerKey, Rows
  <2>5. QED
    BY <1>1, <1>3, <2>1, <2>2, <2>3, <2>4, RequestKeeps DEF Retry, IInv, Settled
<1>4. QED
  BY <1>2, <1>3 DEF RetryCheck, Retry

-----------------------------------------------------------------------------
(* The rest of the program *)

LEMMA OtherCallKeeps ==
    ASSUME IInv, TypeOK', NEW u \in Users, OtherCall(u) \/ OtherDone(u)
    PROVE  IInv'
<1> USE DEF turnVars, clientVars
<1>1. UNCHANGED <<up, req, turn, answers, worker>>
  BY DEF OtherCall, OtherDone
<1>2. up
  BY DEF OtherCall, OtherDone, IInv, Quiet
<1>3. Settled' /\ Quiet' /\ OneTurnPerKey' /\ AnswerIffSucceeded' /\ ExclusiveRunner'
  BY <1>1, <1>2 DEF IInv, Settled, Quiet, OneTurnPerKey, AnswerIffSucceeded,
                    ExclusiveRunner, Rows, Running
<1>4. \A w \in Workers, x \in Users : Holds(w, x)' <=> Holds(w, x)
  BY <1>1 DEF Holds, UserOf
<1>5. /\ \A x \in Users : x # u => (inFlight'[x] <=> inFlight[x]) /\ (other'[x] <=> other[x])
      /\ OtherCall(u) => ~inFlight[u] /\ inFlight'[u] /\ other'[u]
      /\ OtherDone(u) => other[u] /\ ~inFlight'[u] /\ ~other'[u]
  BY DEF OtherCall, OtherDone, IInv, TypeOK
<1>6. SingleFlight'
  BY <1>4, <1>5 DEF IInv, SingleFlight
<1>7. QED
  BY <1>3, <1>6 DEF IInv

LEMMA DeleteChatKeeps ==
    ASSUME IInv, TypeOK', NEW c \in Chats, DeleteChat(c)
    PROVE  IInv'
<1> USE DEF turnVars, clientVars, slotVars
<1>1. UNCHANGED <<up, req, worker, inFlight, other>>
  BY DEF DeleteChat
<1>2. \A t \in Requests : turn'[t].status \in {"none", turn[t].status}
  BY DEF DeleteChat, NoRow
<1>3. Settled' /\ Quiet'
  BY <1>1, <1>2 DEF IInv, Settled, Quiet
<1>4. OneTurnPerKey'
  BY <1>1, <1>2 DEF IInv, OneTurnPerKey, Rows
<1>5. AnswerIffSucceeded'
  BY DEF DeleteChat, NoRow, IInv, AnswerIffSucceeded
<1>6. ExclusiveRunner'
  BY <1>1, <1>2 DEF IInv, ExclusiveRunner, Running
<1>7. SingleFlight'
  BY <1>1 DEF IInv, SingleFlight, Holds, UserOf
<1>8. QED
  BY <1>3, <1>4, <1>5, <1>6, <1>7 DEF IInv

\* A crash loses what is in memory; a restart finds the rows and no worker.
LEMMA CrashKeeps ==
    ASSUME IInv, TypeOK', Crash \/ Restart
    PROVE  IInv'
<1> USE DEF turnVars, clientVars, slotVars
<1>1. /\ \A w \in Workers : worker'[w].pc = "idle"
      /\ \A u \in Users : ~inFlight'[u] /\ ~other'[u]
  BY DEF Crash, Restart, Idle, At, IInv, Quiet
<1>2. \A r \in Requests :
        /\ req'[r].pc \in {"done", req[r].pc}
        /\ req'[r].chat = req[r].chat /\ req'[r].key = req[r].key
  BY DEF Crash, Restart, Over
<1>3. \A t \in Requests :
        /\ turn'[t].status # "none" <=> turn[t].status # "none"
        /\ turn'[t].status = "succeeded" <=> turn[t].status = "succeeded"
  BY DEF Crash, Restart, Unfinished, WithStatus
<1>4. Settled' /\ Quiet'
  BY <1>1, <1>2, <1>3 DEF IInv, Settled, Quiet
<1>5. OneTurnPerKey'
  BY <1>2, <1>3 DEF IInv, OneTurnPerKey, Rows
<1>6. AnswerIffSucceeded'
  BY <1>3 DEF Crash, Restart, IInv, AnswerIffSucceeded
<1>7. ExclusiveRunner' /\ SingleFlight'
  BY <1>1 DEF ExclusiveRunner, SingleFlight, Running, Holds, RunPCs, HoldPCs
<1>8. QED
  BY <1>4, <1>5, <1>6, <1>7 DEF IInv

LEMMA StutterKeeps ==
    ASSUME IInv, TypeOK', UNCHANGED vars \/ \E u \in Users : AdminQuota(u)
    PROVE  IInv'
<1>1. UNCHANGED <<up, req, turn, answers, worker, inFlight, other>>
  BY DEF vars, AdminQuota, turnVars, clientVars, slotVars
<1>2. QED
  BY <1>1 DEF IInv, Settled, Quiet, OneTurnPerKey, AnswerIffSucceeded, ExclusiveRunner,
              SingleFlight, Rows, Running, Holds, UserOf

LEMMA NextInv == IInv /\ [Next]_vars => IInv'
<1> SUFFICES ASSUME IInv, [Next]_vars
             PROVE  IInv'
  OBVIOUS
<1>1. TypeOK'
  BY NextType DEF IInv
<1>2. QED
  BY <1>1, CreateBeginKeeps, CreateKeeps, RetryKeeps, WorkKeeps, OtherCallKeeps,
     DeleteChatKeeps, CrashKeeps, StutterKeeps DEF Next

\* For any number of users, chats, keys, requests, workers and crashes, the
\* inductive invariant holds in every state.
THEOREM Invariance == Spec => []IInv
BY InitInv, NextInv, PTL DEF Spec

\* A client key stands for one turn of its chat.
THEOREM Idempotence == Spec => []OneTurnPerKey
<1>1. IInv => OneTurnPerKey
  BY DEF IInv
<1>2. QED
  BY <1>1, Invariance, PTL

\* A question is answered exactly when its turn succeeded.
THEOREM AnsweredOnce == Spec => []AnswerIffSucceeded
<1>1. IInv => AnswerIffSucceeded
  BY DEF IInv
<1>2. QED
  BY <1>1, Invariance, PTL

\* A turn has one runner, however many workers were started for it.
THEOREM OneRunner == Spec => []ExclusiveRunner
<1>1. IInv => ExclusiveRunner
  BY DEF IInv
<1>2. QED
  BY <1>1, Invariance, PTL

\* A user has one AI call in flight, and the slot is set exactly while there is one.
THEOREM OneFlight == Spec => []SingleFlight
<1>1. IInv => SingleFlight
  BY DEF IInv
<1>2. QED
  BY <1>1, Invariance, PTL

-----------------------------------------------------------------------------
(* Unfinished turns have a worker *)

\* A step of w takes no worker from another turn, and a row that stays as it is
\* keeps the drivers that are not w.
LEMMA DriversStay ==
    ASSUME IInv, NEW w \in Workers, NEW from \in WorkerPCs \ {"idle"},
           NEW to \in WorkerPCs, Step(w, from, to), NEW r \in Requests,
           turn'[r] = turn[r], Driven(r)
    PROVE  \/ Driven(r)'
           \/ /\ r = worker[w].task
              /\ from \in (IF turn[r].status = "queued" THEN {"start", "mark"} ELSE RunPCs)
<1>1. PICK v \in Workers :
        /\ worker[v].task = r
        /\ worker[v].pc \in (IF turn[r].status = "queued" THEN {"start", "mark"} ELSE RunPCs)
  BY DEF Driven
<1>2. CASE v = w
  BY <1>1, <1>2, StepEffect
<1>3. CASE v # w
  BY <1>1, <1>3, StepEffect DEF Driven
<1>4. QED
  BY <1>2, <1>3

\* A worker's step keeps every other turn driven, and its own when the row stays
\* as it is and the worker drives it still.
LEMMA StepDrives ==
    ASSUME IInv, NoOrphans, NEW w \in Workers, NEW from \in WorkerPCs \ {"idle"},
           NEW to \in WorkerPCs, Step(w, from, to),
           \A r \in Requests : r # worker[w].task =>
               turn'[r] = turn[r] /\ (r \in lost => r \in lost'),
           \/ worker[w].task \notin Unfinished'
           \/ worker[w].task \in lost'
           \/ /\ turn'[worker[w].task] = turn[worker[w].task] /\ UNCHANGED lost
              /\ \/ to \in RunPCs \/ from \notin RunPCs
                 \/ turn[worker[w].task].status = "queued"
              /\ \/ to \in {"start", "mark"} \/ from \notin {"start", "mark"}
                 \/ turn[worker[w].task].status # "queued"
    PROVE  NoOrphans'
<1>1. SUFFICES ASSUME NEW r \in Requests, r \in Unfinished', r \notin lost'
               PROVE  Driven(r)'
  BY DEF NoOrphans, Unfinished
<1>2. up /\ worker[w].task \in Requests
  BY StepEffect
<1>3. turn'[r] = turn[r] /\ r \notin lost
  BY <1>1, <1>2
<1>4. Driven(r)
  BY <1>1, <1>2, <1>3 DEF NoOrphans, Unfinished
<1>5. CASE Driven(r)'
  BY <1>5
<1>6. CASE /\ r = worker[w].task
           /\ from \in (IF turn[r].status = "queued" THEN {"start", "mark"} ELSE RunPCs)
  <2>1. /\ turn[r].status = "queued" => to \in {"start", "mark"}
        /\ turn[r].status # "queued" => to \in RunPCs
    BY <1>1, <1>6
  <2>2. worker'[w].pc = to /\ worker'[w].task = r
    BY <1>6, <2>1, StepEffect DEF RunPCs
  <2>3. QED
    BY <1>3, <2>1, <2>2 DEF Driven
<1>7. QED
  BY <1>3, <1>4, <1>5, <1>6, DriversStay

LEMMA WorkDrives ==
    ASSUME IInv, NoOrphans, NEW w \in Workers, Work(w)
    PROVE  NoOrphans'
<1> DEFINE t == worker[w].task
<1> USE DEF WorkerPCs, RunPCs, turnVars, clientVars, slotVars
<1>1. CASE GetAny(w)
  BY <1>1, StepDrives DEF GetAny
<1>2. CASE MarkRunning(w)
  <2>1. CASE /\ Step(w, "mark", "idle")
             /\ \/ turn[t].status # "queued" /\ UNCHANGED <<turn, lost>>
                \/ lost' = lost \cup {t} /\ UNCHANGED turn
    BY <2>1, StepDrives
  <2>2. CASE Step(w, "mark", "claim") /\ SetStatus(t, "running") /\ lost' = lost \ {t}
    <3>1. /\ t \in Requests /\ turn'[t].status = "running"
          /\ \A r \in Requests : r # t => turn'[r] = turn[r]
      BY <2>2, StepEffect DEF SetStatus, WithStatus, IInv, TypeOK
    <3>2. worker'[w].task = t /\ worker'[w].pc = "claim"
      BY <2>2, StepEffect
    <3>3. \A r \in Requests : r = t => Driven(r)'
      BY <3>1, <3>2 DEF Driven
    <3>4. \A r \in Requests : r # t /\ Driven(r) => Driven(r)'
      BY <2>2, <3>1, DriversStay
    <3>5. up /\ \A r \in Requests : r # t /\ r \notin lost' => r \notin lost
      BY <2>2, StepEffect
    <3>6. SUFFICES ASSUME NEW r \in Requests, r # t, r \in Unfinished', r \notin lost'
                   PROVE  Driven(r)'
      BY <3>3 DEF NoOrphans, Unfinished
    <3>7. QED
      BY <3>1, <3>4, <3>5, <3>6 DEF NoOrphans, Unfinished
  <2>3. QED
    BY <1>2, <2>1, <2>2 DEF MarkRunning
<1>3. CASE StartAI(w)
  BY <1>3, StepDrives DEF StartAI
<1>4. CASE QuotaGate(w) \/ LoadStudy(w) \/ ReadHistory(w)
  BY <1>4, StepDrives DEF QuotaGate, LoadStudy, ReadHistory
<1>5. CASE CallProvider(w)
  <2>1. CASE Step(w, "call", "recall")
    BY <1>5, <2>1, StepDrives DEF CallProvider
  <2>2. CASE \E from \in {"call", "recall"}, to \in {"bill_ok", "bill_err"} :
               Step(w, from, to)
    BY <1>5, <2>2, StepDrives DEF CallProvider
  <2>3. QED
    BY <1>5, <2>1, <2>2 DEF CallProvider
<1>6. CASE Bill(w)
  BY <1>6, StepDrives DEF Bill
<1>7. CASE Complete(w)
  <2>1. CASE UNCHANGED <<turn, lost>>
    <3>1. CASE Step(w, "complete", "release") /\ turn[t].status = "succeeded"
      BY <2>1, <3>1, StepDrives DEF Unfinished
    <3>2. CASE Step(w, "complete", "fail")
      BY <2>1, <3>2, StepDrives
    <3>3. CASE turn[t].status = "running" /\ SetStatus(t, "succeeded")
      <4>1. t \in Requests
        BY <1>7, StepEffect DEF Complete
      <4>2. QED
        BY <2>1, <3>3, <4>1 DEF SetStatus, WithStatus, IInv, TypeOK
    <3>4. QED
      BY <1>7, <2>1, <3>1, <3>2, <3>3 DEF Complete
  <2>2. CASE Step(w, "complete", "release") /\ SetStatus(t, "succeeded") /\ lost' = lost \ {t}
    <3>1. /\ t \in Requests /\ turn'[t].status = "succeeded"
          /\ \A r \in Requests : r # t => turn'[r] = turn[r]
      BY <2>2, StepEffect DEF SetStatus, WithStatus, IInv, TypeOK
    <3>2. QED
      BY <2>2, <3>1, StepDrives DEF Unfinished
  <2>3. QED
    BY <1>7, <2>1, <2>2 DEF Complete
<1>8. CASE Fail(w)
  <2>1. CASE t \notin Unfinished /\ UNCHANGED <<turn, lost>>
    BY <1>8, <2>1, StepDrives DEF Fail, Unfinished
  <2>2. CASE lost' = lost \cup {t} /\ UNCHANGED turn
    BY <1>8, <2>2, StepDrives DEF Fail
  <2>3. CASE SetStatus(t, "failed") /\ lost' = lost \ {t}
    <3>1. t \in Requests
      BY <1>8, StepEffect DEF Fail
    <3>2. /\ turn'[t].status = "failed"
          /\ \A r \in Requests : r # t => turn'[r] = turn[r]
      BY <2>3, <3>1 DEF SetStatus, WithStatus, IInv, TypeOK
    <3>3. QED
      BY <1>8, <2>3, <3>2, StepDrives DEF Fail, Unfinished
  <2>4. QED
    BY <1>8, <2>1, <2>2, <2>3 DEF Fail, Unfinished
<1>9. CASE EndAI(w)
  BY <1>9, StepDrives DEF EndAI
<1>10. QED
  BY <1>1, <1>2, <1>3, <1>4, <1>5, <1>6, <1>7, <1>8, <1>9 DEF Work

\* A new worker drives its turn if that is queued, and disturbs no other.
LEMMA SpawnDrives ==
    ASSUME IInv, NEW t \in Requests, Spawn(t)
    PROVE  /\ turn'[t].status = "queued" => Driven(t)'
           /\ \A r \in Requests : turn'[r] = turn[r] /\ Driven(r) => Driven(r)'
<1>1. PICK w \in Workers :
        /\ worker[w].pc = "idle" /\ worker'[w].pc = "start" /\ worker'[w].task = t
        /\ \A v \in Workers : v # w => worker'[v] = worker[v]
  BY SpawnEffect
<1>2. turn'[t].status = "queued" => Driven(t)'
  BY <1>1 DEF Driven
<1>3. ASSUME NEW r \in Requests, turn'[r] = turn[r], Driven(r)
      PROVE  Driven(r)'
  <2>1. PICK v \in Workers :
          /\ worker[v].task = r
          /\ worker[v].pc \in (IF turn[r].status = "queued" THEN {"start", "mark"} ELSE RunPCs)
    BY <1>3 DEF Driven
  <2>2. v # w
    BY <1>1, <2>1 DEF RunPCs
  <2>3. QED
    BY <1>1, <1>3, <2>1, <2>2 DEF Driven
<1>4. QED
  BY <1>2, <1>3

LEMMA ClientDrives ==
    ASSUME IInv, NoOrphans, NEW r \in Requests,
           \/ \E c \in Chats, k \in ClientKeys : CreateBegin(r, c, k)
           \/ Create(r) \/ RetryCheck(r) \/ Retry(r)
    PROVE  NoOrphans'
<1> USE DEF turnVars, slotVars
<1>1. UNCHANGED up /\ up
  BY DEF CreateBegin, Create, RetryCheck, Retry
<1>2. CASE UNCHANGED <<turn, lost>> /\ (UNCHANGED worker \/ \E t \in Requests : Spawn(t))
  <2>1. \A t \in Requests : Driven(t) => Driven(t)'
    BY <1>2, SpawnDrives DEF Driven
  <2>2. QED
    BY <1>1, <1>2, <2>1 DEF NoOrphans, Unfinished
<1>3. CASE /\ Spawn(r) /\ turn'[r].status = "queued"
           /\ \A s \in Requests : s # r => turn'[s] = turn[s] /\ (s \in lost => s \in lost')
  BY <1>1, <1>3, SpawnDrives DEF NoOrphans, Unfinished
<1>4. CASE \E c \in Chats, k \in ClientKeys : CreateBegin(r, c, k)
  BY <1>2, <1>4 DEF CreateBegin, RowsFor, Rows
<1>5. CASE Create(r)
  BY <1>2, <1>3, <1>5 DEF Create, InsertRow, RowsFor, Rows, IInv, TypeOK
<1>6. CASE RetryCheck(r)
  BY <1>2, <1>6 DEF RetryCheck
<1>7. CASE Retry(r)
  BY <1>2, <1>3, <1>7 DEF Retry, IInv, TypeOK
<1>8. QED
  BY <1>4, <1>5, <1>6, <1>7

LEMMA EnvironmentDrives ==
    ASSUME IInv, NoOrphans,
           \/ \E u \in Users : OtherCall(u) \/ OtherDone(u) \/ AdminQuota(u)
           \/ \E c \in Chats : DeleteChat(c)
           \/ Crash \/ Restart \/ UNCHANGED vars
    PROVE  NoOrphans'
<1> USE DEF turnVars, clientVars
<1>1. CASE UNCHANGED <<up, turn, worker, lost>>
  BY <1>1 DEF NoOrphans, Unfinished, Driven
<1>2. CASE \E c \in Chats : DeleteChat(c)
  <2>1. PICK c \in Chats : DeleteChat(c)
    BY <1>2
  <2>2. \A t \in Requests : turn'[t] = turn[t] \/ turn'[t].status = "none"
    BY <2>1 DEF DeleteChat, NoRow
  <2>3. \A t \in Requests : turn'[t] = turn[t] /\ Driven(t) => Driven(t)'
    BY <2>1 DEF DeleteChat, Driven
  <2>4. QED
    BY <2>1, <2>2, <2>3 DEF DeleteChat, NoOrphans, Unfinished
<1>3. CASE Crash
  BY <1>3 DEF Crash, NoOrphans
<1>4. CASE Restart
  BY <1>4 DEF Restart, NoOrphans, Unfinished, WithStatus
<1>5. QED
  BY <1>1, <1>2, <1>3, <1>4 DEF OtherCall, OtherDone, AdminQuota, vars

\* However workers, retries, crashes and deletions interleave, while the process
\* serves an unfinished turn has a worker that will move it, unless a write of its
\* status was lost.
THEOREM NoneLeftBehind == Spec => []NoOrphans
<1>1. Init => NoOrphans
  BY DEF Init, NoOrphans, Unfinished, NoRow
<1>2. IInv /\ NoOrphans /\ [Next]_vars => NoOrphans'
  BY WorkDrives, ClientDrives, EnvironmentDrives DEF Next
<1>3. QED
  BY <1>1, <1>2, Invariance, PTL DEF Spec

-----------------------------------------------------------------------------
(* What an attempt costs *)

\* Where a runner has made none of the two requests of its attempt.
BeforeCall == {"claim", "refuse", "gate", "study", "history", "call"}

\* A queued turn has both requests of its attempt before it, and so has its runner
\* until it calls; a runner that calls again has one.
Paid ==
    /\ \A t \in Requests : req[t].pc # "done" => calls[t] = 0
    /\ \A t \in Rows :
        /\ calls[t] <= 2 * turn[t].attempt
        /\ turn[t].status = "queued" => calls[t] + 2 <= 2 * turn[t].attempt
    /\ \A w \in Workers, t \in Rows : worker[w].task = t =>
        /\ worker[w].pc \in BeforeCall => calls[t] + 2 <= 2 * turn[t].attempt
        /\ worker[w].pc = "recall" => calls[t] + 1 <= 2 * turn[t].attempt

\* A worker's step that makes no request keeps the count, if the worker had its two
\* requests before it wherever it has them after it.
LEMMA StepPaid ==
    ASSUME IInv, Paid, NEW w \in Workers, NEW from \in WorkerPCs \ {"idle"},
           NEW to \in WorkerPCs, Step(w, from, to), UNCHANGED <<req, calls>>,
           \A r \in Requests :
               /\ turn'[r].attempt = turn[r].attempt
               /\ turn'[r].status # "none" => turn[r].status # "none"
               /\ turn'[r].status = "queued" => turn[r].status = "queued",
           to \in BeforeCall =>
               from \in BeforeCall \/ turn[worker[w].task].status = "queued",
           to # "recall"
    PROVE  Paid'
<1>1. Rows' \subseteq Rows
  BY DEF Rows
<1>2. ASSUME NEW v \in Workers, NEW t \in Rows', worker'[v].task = t
      PROVE  /\ worker'[v].pc \in BeforeCall => calls[t] + 2 <= 2 * turn[t].attempt
             /\ worker'[v].pc = "recall" => calls[t] + 1 <= 2 * turn[t].attempt
  <2>1. CASE v # w
    BY <1>1, <1>2, <2>1, StepEffect DEF Paid
  <2>2. CASE v = w
    <3>1. worker'[v].pc = to /\ ("idle" \notin BeforeCall)
      BY <2>2, StepEffect DEF BeforeCall
    <3>2. to \in BeforeCall => worker[w].task = t
      BY <1>2, <2>2, <3>1, StepEffect
    <3>3. worker[w].pc = from
      BY StepEffect
    <3>4. QED
      BY <1>1, <3>1, <3>2, <3>3 DEF Paid
  <2>3. QED
    BY <2>1, <2>2
<1>3. \A t \in Rows' : turn'[t].attempt = turn[t].attempt /\ t \in Rows
  BY <1>1 DEF Rows
<1>4. QED
  BY <1>2, <1>3 DEF Paid, Rows

\* The provider is called by the one runner of the turn, once or twice.
LEMMA CallPaid ==
    ASSUME IInv, Paid, NEW w \in Workers, CallProvider(w)
    PROVE  Paid'
<1> USE DEF turnVars, clientVars, slotVars
<1>1. PICK from \in {"call", "recall"}, to \in {"recall", "bill_ok", "bill_err"} :
        Step(w, from, to) /\ (to = "recall" => from = "call")
  BY DEF CallProvider
<1>2. PICK t \in Requests : t = worker[w].task
  BY <1>1, StepEffect DEF WorkerPCs, RunPCs
<1>3. /\ worker[w].pc = from /\ worker'[w].pc = to /\ worker'[w].task = t
      /\ \A v \in Workers : v # w => worker'[v] = worker[v]
      /\ req[t].pc = "done"
  BY <1>1, <1>2, StepEffect DEF WorkerPCs, RunPCs
<1>4. /\ UNCHANGED <<turn, req>> /\ calls'[t] = calls[t] + 1
      /\ \A r \in Requests : r # t => calls'[r] = calls[r]
  BY <1>2 DEF CallProvider, IInv, TypeOK
<1>5. Running(w, t)
  BY <1>1, <1>2, <1>3 DEF Running, RunPCs
<1>6. /\ turn[t].status # "queued"
      /\ \A v \in Workers : v # w /\ worker[v].task = t =>
            worker[v].pc \notin BeforeCall \cup {"recall"}
  BY <1>5 DEF IInv, ExclusiveRunner, Running, RunPCs, BeforeCall
<1>7. calls[t] \in Nat /\ turn[t].attempt \in Nat
  BY DEF IInv, TypeOK, Row
<1>8. t \in Rows => /\ calls'[t] <= 2 * turn[t].attempt
                    /\ to = "recall" => calls'[t] + 1 <= 2 * turn[t].attempt
  BY <1>1, <1>2, <1>3, <1>4, <1>7 DEF Paid, BeforeCall
<1>9. Rows' = Rows /\ to \notin BeforeCall
  BY <1>4 DEF Rows, BeforeCall
<1>10. \A r \in Requests : req'[r].pc # "done" => calls'[r] = 0
  BY <1>3, <1>4 DEF Paid
<1>11. ASSUME NEW r \in Rows'
       PROVE  /\ calls'[r] <= 2 * turn'[r].attempt
              /\ turn'[r].status = "queued" => calls'[r] + 2 <= 2 * turn'[r].attempt
  BY <1>4, <1>6, <1>8, <1>9 DEF Paid, Rows
<1>12. ASSUME NEW v \in Workers, NEW r \in Rows', worker'[v].task = r
       PROVE  /\ worker'[v].pc \in BeforeCall => calls'[r] + 2 <= 2 * turn'[r].attempt
              /\ worker'[v].pc = "recall" => calls'[r] + 1 <= 2 * turn'[r].attempt
  <2>1. CASE v = w
    BY <1>3, <1>4, <1>8, <1>9, <1>12, <2>1
  <2>2. CASE v # w /\ r = t
    BY <1>3, <1>6, <1>12, <2>2
  <2>3. CASE v # w /\ r # t
    BY <1>3, <1>4, <1>9, <1>12, <2>3 DEF Paid, Rows
  <2>4. QED
    BY <2>1, <2>2, <2>3
<1>13. QED
  BY <1>10, <1>11, <1>12 DEF Paid

LEMMA WorkPaid ==
    ASSUME IInv, Paid, NEW w \in Workers, Work(w)
    PROVE  Paid'
<1> DEFINE t == worker[w].task
<1> USE DEF WorkerPCs, RunPCs, BeforeCall, turnVars, clientVars, slotVars
<1>1. ASSUME NEW s \in {"running", "succeeded", "failed"}, SetStatus(t, s),
             turn[t].status # "none"
      PROVE  \A r \in Requests :
               /\ turn'[r].attempt = turn[r].attempt
               /\ turn'[r].status # "none" => turn[r].status # "none"
               /\ turn'[r].status = "queued" => turn[r].status = "queued"
  BY <1>1 DEF SetStatus, WithStatus, IInv, TypeOK
<1>2. CASE GetAny(w) \/ StartAI(w) \/ QuotaGate(w) \/ LoadStudy(w) \/ ReadHistory(w)
             \/ Bill(w) \/ EndAI(w)
  BY <1>2, StepPaid DEF GetAny, StartAI, QuotaGate, LoadStudy, ReadHistory, Bill, EndAI
<1>3. CASE CallProvider(w)
  BY <1>3, CallPaid
<1>4. CASE MarkRunning(w)
  <2>1. CASE Step(w, "mark", "idle") /\ UNCHANGED turn
    BY <1>4, <2>1, StepPaid DEF MarkRunning
  <2>2. CASE Step(w, "mark", "claim") /\ turn[t].status = "queued" /\ SetStatus(t, "running")
    BY <1>1, <1>4, <2>2, StepPaid DEF MarkRunning
  <2>3. QED
    BY <1>4, <2>1, <2>2 DEF MarkRunning
<1>5. CASE Complete(w)
  <2>1. CASE UNCHANGED turn
    BY <1>5, <2>1, StepPaid DEF Complete
  <2>2. CASE Step(w, "complete", "release") /\ turn[t].status = "running"
               /\ SetStatus(t, "succeeded")
    BY <1>1, <1>5, <2>2, StepPaid DEF Complete
  <2>3. QED
    BY <1>5, <2>1, <2>2 DEF Complete
<1>6. CASE Fail(w)
  <2>1. CASE UNCHANGED turn
    BY <1>6, <2>1, StepPaid DEF Fail
  <2>2. CASE turn[t].status \in {"queued", "running"} /\ SetStatus(t, "failed")
    BY <1>1, <1>6, <2>2, StepPaid DEF Fail
  <2>3. QED
    BY <1>6, <2>1, <2>2 DEF Fail
<1>7. QED
  BY <1>2, <1>3, <1>4, <1>5, <1>6 DEF Work

\* A new worker has made no request and is not about to.
LEMMA SpawnPaid ==
    ASSUME IInv, NEW t \in Requests, Spawn(t)
    PROVE  \A v \in Workers :
             \/ worker'[v] = worker[v]
             \/ worker'[v].pc \notin BeforeCall \cup {"recall"}
BY SpawnEffect DEF BeforeCall

LEMMA ClientPaid ==
    ASSUME IInv, Paid, NEW r \in Requests,
           \/ \E c \in Chats, k \in ClientKeys : CreateBegin(r, c, k)
           \/ Create(r) \/ RetryCheck(r) \/ Retry(r)
    PROVE  Paid'
<1> USE DEF turnVars, slotVars
<1>1. UNCHANGED calls /\ \A t \in Requests : req[t].pc = "done" => req'[t].pc = "done"
  BY DEF CreateBegin, Create, RetryCheck, Retry, Finish, Over, IInv, TypeOK
<1>2. \A v \in Workers : \/ worker'[v] = worker[v]
                         \/ worker'[v].pc \notin BeforeCall \cup {"recall"}
  BY SpawnPaid DEF CreateBegin, Create, InsertRow, RetryCheck, Retry, RowsFor, Rows
<1>3. CASE UNCHANGED turn
  BY <1>1, <1>2, <1>3 DEF Paid, Rows
<1>4. CASE /\ turn'[r].status = "queued" /\ calls[r] + 2 <= 2 * turn'[r].attempt
           /\ \A s \in Requests : s # r => turn'[s] = turn[s]
  <2>1. calls[r] \in Nat /\ turn'[r].attempt \in Nat
    BY NextType DEF IInv, TypeOK, Row, Next
  <2>2. \A s \in Requests : s # r /\ s \in Rows' => s \in Rows
    BY <1>4 DEF Rows
  <2>3. calls[r] <= 2 * turn'[r].attempt /\ calls[r] + 1 <= 2 * turn'[r].attempt
    BY <1>4, <2>1
  <2>4. QED
    BY <1>1, <1>2, <1>4, <2>2, <2>3 DEF Paid, Rows
<1>5. CASE Create(r)
  <2>1. CASE InsertRow(r)
    <3>1. calls[r] = 0
      BY <1>5 DEF Create, Paid
    <3>2. turn'[r] = [status |-> "queued", attempt |-> 1]
          /\ \A s \in Requests : s # r => turn'[s] = turn[s]
      BY <2>1 DEF InsertRow, IInv, TypeOK
    <3>3. QED
      BY <1>4, <3>1, <3>2
  <2>2. QED
    BY <1>3, <1>5, <2>1 DEF Create
<1>6. CASE Retry(r)
  <2>1. CASE turn[r].status = "failed"
             /\ turn' = [turn EXCEPT ![r] = [status |-> "queued", attempt |-> @.attempt + 1]]
    <3>1. calls[r] \in Nat /\ turn[r].attempt \in Nat /\ calls[r] <= 2 * turn[r].attempt
      BY <2>1 DEF Paid, Rows, IInv, TypeOK, Row
    <3>2. /\ turn'[r].status = "queued" /\ turn'[r].attempt = turn[r].attempt + 1
          /\ \A s \in Requests : s # r => turn'[s] = turn[s]
      BY <2>1 DEF IInv, TypeOK
    <3>3. calls[r] + 2 <= 2 * turn'[r].attempt
      BY <3>1, <3>2
    <3>4. QED
      BY <1>4, <3>2, <3>3
  <2>2. QED
    BY <1>3, <1>6, <2>1 DEF Retry
<1>7. QED
  BY <1>3, <1>5, <1>6 DEF CreateBegin, RetryCheck

LEMMA EnvironmentPaid ==
    ASSUME IInv, Paid,
           \/ \E u \in Users : OtherCall(u) \/ OtherDone(u) \/ AdminQuota(u)
           \/ \E c \in Chats : DeleteChat(c)
           \/ Crash \/ Restart \/ UNCHANGED vars
    PROVE  Paid'
<1> USE DEF turnVars, clientVars, slotVars
<1>1. /\ UNCHANGED calls
      /\ \A t \in Requests : req[t].pc = "done" => req'[t].pc = "done"
      /\ \A w \in Workers : worker'[w] = worker[w] \/ worker'[w].pc = "idle"
  BY DEF OtherCall, OtherDone, AdminQuota, DeleteChat, Crash, Restart, vars, Over, Idle, At
<1>2. \A t \in Rows' : /\ t \in Rows /\ turn'[t].attempt = turn[t].attempt
                       /\ turn'[t].status = "queued" => turn[t].status = "queued"
  <2>1. CASE UNCHANGED turn
    BY <2>1 DEF Rows
  <2>2. CASE \E c \in Chats : DeleteChat(c)
    BY <2>2 DEF DeleteChat, NoRow, Rows
  <2>3. CASE Restart
    BY <2>3 DEF Restart, Unfinished, WithStatus, Rows
  <2>4. QED
    BY <2>1, <2>2, <2>3 DEF OtherCall, OtherDone, AdminQuota, Crash, vars
<1>3. "idle" \notin BeforeCall
  BY DEF BeforeCall
<1>4. \A t \in Requests : req'[t].pc # "done" => calls'[t] = 0
  BY <1>1 DEF Paid
<1>5. \A w \in Workers : worker'[w].pc \in BeforeCall \cup {"recall"} => worker'[w] = worker[w]
  BY <1>1, <1>3
<1>6. QED
  BY <1>1, <1>2, <1>4, <1>5 DEF Paid

\* However many workers, retries and crashes a turn sees, its attempts are what it
\* pays for: two requests to the provider each, at most.
THEOREM NothingPaidAgain == Spec => []CallsPerAttempt
<1>1. Init => Paid
  BY DEF Init, Paid, Rows, NoRow
<1>2. IInv /\ Paid /\ [Next]_vars => Paid'
  BY WorkPaid, ClientPaid, EnvironmentPaid DEF Next
<1>3. Paid => CallsPerAttempt
  BY DEF Paid, CallsPerAttempt
<1>4. QED
  BY <1>1, <1>2, <1>3, Invariance, PTL DEF Spec

-----------------------------------------------------------------------------
(* The lifecycle *)

\* Where there is no row there is no attempt: a cascade leaves nothing behind.
Blank == \A t \in Requests : turn[t].status = "none" => turn[t] = NoRow

LEMMA StepBlank ==
    ASSUME IInv, Blank, [Next]_vars
    PROVE  Blank'
<1> USE DEF turnVars, clientVars, slotVars
<1>1. CASE UNCHANGED turn
  BY <1>1 DEF Blank
<1>2. ASSUME NEW t \in Requests, NEW s \in {"running", "succeeded", "failed"}, SetStatus(t, s)
      PROVE  Blank'
  BY <1>2 DEF SetStatus, WithStatus, Blank, IInv, TypeOK
<1>3. ASSUME NEW w \in Workers, Work(w)
      PROVE  Blank'
  <2>1. worker[w].task \in Requests \/ UNCHANGED turn
    BY <1>3, StepEffect DEF Work, GetAny, MarkRunning, StartAI, QuotaGate, LoadStudy,
       ReadHistory, CallProvider, Bill, Complete, Fail, EndAI, WorkerPCs, RunPCs
  <2>2. \/ UNCHANGED turn
        \/ \E s \in {"running", "succeeded", "failed"} : SetStatus(worker[w].task, s)
    BY <1>3 DEF Work, GetAny, MarkRunning, StartAI, QuotaGate, LoadStudy,
       ReadHistory, CallProvider, Bill, Complete, Fail, EndAI
  <2>3. QED
    BY <1>1, <1>2, <2>1, <2>2
<1>4. ASSUME NEW r \in Requests, Create(r) \/ Retry(r)
      PROVE  Blank'
  BY <1>4 DEF Create, InsertRow, Retry, Blank, IInv, TypeOK
<1>5. CASE \E c \in Chats : DeleteChat(c)
  BY <1>5 DEF DeleteChat, Blank
<1>6. CASE Restart
  BY <1>6 DEF Restart, Unfinished, WithStatus, Blank
<1>7. QED
  BY <1>1, <1>3, <1>4, <1>5, <1>6
     DEF Next, CreateBegin, RetryCheck, OtherCall, OtherDone, AdminQuota, Crash, vars

Phases    == [t \in Requests |-> Phase(t)]
Attempts  == [t \in Requests |-> turn[t].attempt]
Asked     == [t \in Requests |-> <<req[t].chat, req[t].key>>]
Promised  == <<Phases, Attempts, answers, Asked>>

\* A step that touches one turn, or one request, moves that one only.
LEMMA OneMoves ==
    ASSUME NEW t \in Requests,
           \A s \in Requests : s # t => turn'[s] = turn[s] /\ req'[s] = req[s]
    PROVE  /\ Phases' = [Phases EXCEPT ![t] = Phase(t)']
           /\ Attempts' = [Attempts EXCEPT ![t] = turn'[t].attempt]
           /\ Asked' = [Asked EXCEPT ![t] = <<req'[t].chat, req'[t].key>>]
BY DEF Phases, Attempts, Asked, Phase

LEMMA NoneMoves ==
    ASSUME UNCHANGED <<turn, req, answers>>
    PROVE  Promised' = Promised
BY DEF Promised, Phases, Attempts, Asked, Phase

\* A request that ends without a row will never have one.
LEMMA GivenUp ==
    ASSUME IInv, Blank, NEW r \in Requests, turn[r].status = "none", UNCHANGED <<turn, answers>>,
           req' = [req EXCEPT ![r] = Over(req[r])]
    PROVE  Lifecycle!Next
<1>1. Phase(r)' = "gone" /\ turn[r].attempt = 0 /\ answers[r] = 0
  BY DEF Phase, Over, Blank, NoRow, IInv, TypeOK, AnswerIffSucceeded
<1>2. req'[r].chat = req[r].chat /\ req'[r].key = req[r].key
      /\ \A s \in Requests : s # r => req'[s] = req[s]
  BY DEF Over, IInv, TypeOK
<1>3. Phases' = [t \in Requests |-> IF t \in {r} THEN "gone" ELSE Phases[t]]
  BY <1>1, <1>2, OneMoves DEF Phases
<1>4. Attempts' = [t \in Requests |-> IF t \in {r} THEN 0 ELSE Attempts[t]]
  BY <1>1 DEF Attempts
<1>5. answers' = [t \in Requests |-> IF t \in {r} THEN 0 ELSE answers[t]]
  BY <1>1 DEF IInv, TypeOK
<1>6. Asked' = Asked
  BY <1>2 DEF Asked
<1>7. Lifecycle!Forget({r}, Phases)
  BY <1>3, <1>4, <1>5, <1>6 DEF Lifecycle!Forget, Phases, Attempts, Asked
<1>8. QED
  BY <1>7 DEF Lifecycle!Next, Phases

LEMMA CreateBeginPromised ==
    ASSUME IInv, Blank, NEW r \in Requests, NEW c \in Chats, NEW k \in ClientKeys,
           CreateBegin(r, c, k)
    PROVE  Lifecycle!Next
<1> USE DEF turnVars
<1>1. turn[r].status = "none" /\ req[r].pc = "idle" /\ UNCHANGED <<turn, answers>>
  BY DEF CreateBegin, IInv, Settled
<1>2. CASE Finish(r)
  BY <1>1, <1>2, GivenUp DEF Finish
<1>3. CASE req' = [req EXCEPT ![r] = [pc |-> "insert", chat |-> c, key |-> k]]
  <2>1. req'[r] = [pc |-> "insert", chat |-> c, key |-> k]
        /\ \A s \in Requests : s # r => req'[s] = req[s]
    BY <1>3 DEF IInv, TypeOK
  <2>2. Phase(r) = "absent" /\ Phase(r)' = "absent"
    BY <1>1, <2>1 DEF Phase
  <2>3. Phases[r] = "absent" /\ Phases' = Phases /\ Attempts' = Attempts
    <3>1. \A s \in Requests : Phase(s)' = Phase(s)
      BY <1>1, <2>1, <2>2 DEF Phase
    <3>2. QED
      BY <1>1, <2>2, <3>1 DEF Phases, Attempts
  <2>4. Asked' = [Asked EXCEPT ![r] = <<c, k>>]
    BY <1>1, <2>1, OneMoves
  <2>5. <<c, k>> \in (Chats \cup {None}) \X (ClientKeys \cup {None})
    OBVIOUS
  <2>6. Lifecycle!Choose(r)
    BY <1>1, <2>3, <2>4, <2>5 DEF Lifecycle!Choose, Phases, Attempts, Asked
  <2>7. QED
    BY <2>6 DEF Lifecycle!Next
<1>4. QED
  BY <1>2, <1>3 DEF CreateBegin

LEMMA CreatePromised ==
    ASSUME IInv, Blank, NEW r \in Requests, Create(r)
    PROVE  Lifecycle!Next
<1>1. /\ req[r].pc = "insert" /\ turn[r].status = "none" /\ UNCHANGED answers
      /\ req' = [req EXCEPT ![r] = Over(req[r])]
  BY DEF Create, Finish, IInv, Settled
<1>2. CASE UNCHANGED turn
  BY <1>1, <1>2, GivenUp
<1>3. CASE RowsFor(req[r].chat, req[r].key) = {} /\ InsertRow(r)
  <2>1. /\ turn'[r] = [status |-> "queued", attempt |-> 1]
        /\ \A s \in Requests : s # r => turn'[s] = turn[s]
    BY <1>3 DEF InsertRow, IInv, TypeOK
  <2>2. req'[r].chat = req[r].chat /\ req'[r].key = req[r].key
        /\ \A s \in Requests : s # r => req'[s] = req[s]
    BY <1>1 DEF Over, IInv, TypeOK
  <2>3. Phase(r) = "absent" /\ Phase(r)' = "queued"
    BY <1>1, <2>1 DEF Phase
  <2>4. Phases[r] = "absent" /\ Phases' = [Phases EXCEPT ![r] = "queued"]
    BY <2>1, <2>2, <2>3, OneMoves DEF Phases
  <2>5. Attempts' = [Attempts EXCEPT ![r] = 1]
    BY <2>1, <2>2, OneMoves
  <2>6. Asked' = Asked
    BY <2>2 DEF Asked
  <2>7. \A s \in Lifecycle!Existing : Asked[s] # Asked[r]
    <3>1. SUFFICES ASSUME NEW s \in Requests, Phase(s) \notin {"absent", "gone"}
                   PROVE  Asked[s] # Asked[r]
      BY DEF Lifecycle!Existing
    <3>2. s \in Rows
      BY <3>1 DEF Phase, Rows
    <3>3. QED
      BY <1>3, <3>2 DEF RowsFor, Asked
  <2>8. Lifecycle!Ask(r)
    BY <1>1, <2>4, <2>5, <2>6, <2>7 DEF Lifecycle!Ask, Phases, Attempts, Asked
  <2>9. QED
    BY <2>8 DEF Lifecycle!Next
<1>4. QED
  BY <1>2, <1>3 DEF Create

\* A row whose status or attempt changes moves its turn.
LEMMA RowMoves ==
    ASSUME IInv, NEW t \in Requests, NEW row \in Row, row.status # "none",
           turn[t].status # "none", turn' = [turn EXCEPT ![t] = row], UNCHANGED req
    PROVE  /\ Phases[t] = turn[t].status
           /\ Phases' = [Phases EXCEPT ![t] = row.status]
           /\ Attempts' = [Attempts EXCEPT ![t] = row.attempt]
           /\ Asked' = Asked
<1>1. turn'[t] = row /\ \A s \in Requests : s # t => turn'[s] = turn[s]
  BY DEF IInv, TypeOK
<1>2. Phase(t) = turn[t].status /\ Phase(t)' = row.status
  BY <1>1 DEF Phase
<1>3. QED
  BY <1>1, <1>2, OneMoves DEF Phases, Asked

LEMMA RetryPromised ==
    ASSUME IInv, NEW t \in Requests, Retry(t)
    PROVE  [Lifecycle!Next]_Promised
<1>1. CASE UNCHANGED turn
  BY <1>1, NoneMoves DEF Retry
<1>2. CASE turn[t].status = "failed"
           /\ turn' = [turn EXCEPT ![t] = [status |-> "queued", attempt |-> @.attempt + 1]]
  <2> DEFINE row == [status |-> "queued", attempt |-> turn[t].attempt + 1]
  <2>1. row \in Row /\ turn' = [turn EXCEPT ![t] = row]
    BY <1>2 DEF IInv, TypeOK, Row, Statuses
  <2>2. /\ Phases[t] = "failed" /\ Phases' = [Phases EXCEPT ![t] = "queued"]
        /\ Attempts' = [Attempts EXCEPT ![t] = turn[t].attempt + 1] /\ Asked' = Asked
    BY <1>2, <2>1, RowMoves DEF Retry
  <2>3. Attempts[t] = turn[t].attempt
    BY DEF Attempts
  <2>4. Lifecycle!AskAgain(t)
    BY <2>2, <2>3 DEF Retry, Lifecycle!AskAgain, Phases, Attempts, Asked
  <2>5. QED
    BY <2>4 DEF Lifecycle!Next
<1>3. QED
  BY <1>1, <1>2 DEF Retry

LEMMA WorkPromised ==
    ASSUME IInv, NEW w \in Workers, Work(w)
    PROVE  [Lifecycle!Next]_Promised
<1> DEFINE t == worker[w].task
<1> USE DEF WorkerPCs, RunPCs, turnVars, clientVars
<1>1. CASE UNCHANGED <<turn, answers>>
  BY <1>1, NoneMoves DEF Work, GetAny, MarkRunning, StartAI, QuotaGate, LoadStudy,
     ReadHistory, CallProvider, Bill, Complete, Fail, EndAI
<1>2. ASSUME NEW r \in Requests, NEW s \in {"running", "succeeded", "failed"},
             turn[r].status # "none", SetStatus(r, s), UNCHANGED req
      PROVE  /\ Phases[r] = turn[r].status /\ Phases' = [Phases EXCEPT ![r] = s]
             /\ Attempts' = Attempts /\ Asked' = Asked
  <2>1. WithStatus(turn[r], s) \in Row /\ WithStatus(turn[r], s).status = s
        /\ WithStatus(turn[r], s).attempt = Attempts[r]
    BY DEF WithStatus, IInv, TypeOK, Row, Statuses, Attempts
  <2>2. Attempts' = [Attempts EXCEPT ![r] = Attempts[r]]
        /\ Phases[r] = turn[r].status /\ Phases' = [Phases EXCEPT ![r] = s] /\ Asked' = Asked
    BY <1>2, <2>1, RowMoves DEF SetStatus
  <2>3. QED
    BY <2>2 DEF Attempts
<1>3. PICK r \in Requests \cup {None} : r = t
  BY DEF IInv, TypeOK
<1>4. CASE MarkRunning(w) /\ ~UNCHANGED turn
  <2>1. r \in Requests /\ turn[r].status = "queued" /\ SetStatus(r, "running")
    BY <1>3, <1>4, StepEffect DEF MarkRunning
  <2>2. Lifecycle!Run(r)
    BY <1>2, <1>4, <2>1 DEF MarkRunning, Lifecycle!Run, Phases, Attempts, Asked
  <2>3. QED
    BY <2>1, <2>2 DEF Lifecycle!Next
<1>5. CASE Complete(w) /\ ~UNCHANGED <<turn, answers>>
  <2>1. /\ r \in Requests /\ turn[r].status = "running" /\ SetStatus(r, "succeeded")
        /\ answers' = [answers EXCEPT ![r] = @ + 1]
    BY <1>3, <1>5, StepEffect DEF Complete
  <2>2. answers[r] = 0
    BY <2>1 DEF IInv, AnswerIffSucceeded
  <2>3. Lifecycle!Succeed(r)
    BY <1>2, <1>5, <2>1, <2>2, 0 + 1 = 1 DEF Complete, Lifecycle!Succeed, Phases, Attempts, Asked
  <2>4. QED
    BY <2>1, <2>3 DEF Lifecycle!Next
<1>6. CASE Fail(w) /\ ~UNCHANGED turn
  <2>1. /\ r \in Requests /\ turn[r].status \in {"queued", "running"} /\ SetStatus(r, "failed")
        /\ worker[w].pc \in {"refuse", "fail"}
    BY <1>3, <1>6, StepEffect DEF Fail
  <2>2. turn[r].status = "running"
    BY <1>3, <2>1 DEF IInv, ExclusiveRunner, Running
  <2>3. Lifecycle!Fail(r)
    BY <1>2, <1>6, <2>1, <2>2 DEF Fail, Lifecycle!Fail, Phases, Attempts, Asked
  <2>4. QED
    BY <2>1, <2>3 DEF Lifecycle!Next
<1>7. QED
  BY <1>1, <1>4, <1>5, <1>6 DEF Work, GetAny, MarkRunning, StartAI, QuotaGate, LoadStudy,
     ReadHistory, CallProvider, Bill, Complete, Fail, EndAI

\* The rows of a deleted chat, and the requests a crash cuts off, are forgotten.
LEMMA ForgetPromised ==
    ASSUME IInv, Blank, Crash \/ \E c \in Chats : DeleteChat(c)
    PROVE  Lifecycle!Next
<1> USE DEF turnVars, clientVars
<1>1. ASSUME NEW gone \in SUBSET Requests,
             \A t \in Requests : /\ Phase(t)' = IF t \in gone THEN "gone" ELSE Phase(t)
                                 /\ turn'[t].attempt = IF t \in gone THEN 0 ELSE turn[t].attempt
                                 /\ answers'[t] = IF t \in gone THEN 0 ELSE answers[t]
                                 /\ req'[t].chat = req[t].chat /\ req'[t].key = req[t].key,
             answers' \in [Requests -> Nat]
      PROVE  Lifecycle!Next
  <2>1. /\ Phases' = [t \in Requests |-> IF t \in gone THEN "gone" ELSE Phases[t]]
        /\ Attempts' = [t \in Requests |-> IF t \in gone THEN 0 ELSE Attempts[t]]
        /\ answers' = [t \in Requests |-> IF t \in gone THEN 0 ELSE answers[t]]
        /\ Asked' = Asked
    BY <1>1 DEF Phases, Attempts, Asked
  <2>2. Lifecycle!Forget(gone, Phases)
    BY <2>1 DEF Lifecycle!Forget, Phases, Attempts, Asked
  <2>3. QED
    BY <2>2 DEF Lifecycle!Next, Phases
<1>2. CASE Crash
  <2> DEFINE cut == {t \in Requests : req[t].pc = "insert"}
  <2>1. UNCHANGED <<turn, answers>> /\ answers' \in [Requests -> Nat]
    BY <1>2 DEF Crash, IInv, TypeOK
  <2>2. ASSUME NEW t \in Requests
        PROVE  /\ req'[t].pc = IF t \in cut THEN "done" ELSE req[t].pc
               /\ req'[t].chat = req[t].chat /\ req'[t].key = req[t].key
    BY <1>2 DEF Crash, Over
  <2>3. ASSUME NEW t \in cut
        PROVE  turn[t].status = "none" /\ turn[t].attempt = 0 /\ answers[t] = 0
    BY DEF IInv, Settled, AnswerIffSucceeded, Blank, NoRow
  <2>4. ASSUME NEW t \in Requests
        PROVE  Phase(t)' = IF t \in cut THEN "gone" ELSE Phase(t)
    BY <2>1, <2>2, <2>3 DEF Phase
  <2>5. QED
    BY <1>1, <2>1, <2>2, <2>3, <2>4, cut \in SUBSET Requests
<1>3. ASSUME NEW c \in Chats, DeleteChat(c)
      PROVE  Lifecycle!Next
  <2> DEFINE gone == {t \in Rows : req[t].chat = c}
  <2>1. UNCHANGED req /\ answers' \in [Requests -> Nat]
    BY <1>3 DEF DeleteChat, IInv, TypeOK
  <2>2. ASSUME NEW t \in Requests
        PROVE  /\ turn'[t] = IF t \in gone THEN NoRow ELSE turn[t]
               /\ answers'[t] = IF t \in gone THEN 0 ELSE answers[t]
    BY <1>3 DEF DeleteChat, Rows, Blank, NoRow, IInv, AnswerIffSucceeded
  <2>3. ASSUME NEW t \in gone
        PROVE  t \in Requests /\ req[t].pc = "done"
    BY DEF Rows, IInv, Settled
  <2>4. ASSUME NEW t \in Requests
        PROVE  /\ Phase(t)' = IF t \in gone THEN "gone" ELSE Phase(t)
               /\ turn'[t].attempt = IF t \in gone THEN 0 ELSE turn[t].attempt
    BY <2>1, <2>2, <2>3 DEF Phase, NoRow
  <2>5. gone \in SUBSET Requests
    BY <2>3
  <2>6. QED
    BY <1>1, <2>1, <2>2, <2>4, <2>5
<1>4. QED
  BY <1>2, <1>3

\* A restart fails what it finds unfinished, or nothing of it where its write is lost.
LEMMA RestartPromised ==
    ASSUME IInv, Restart
    PROVE  [Lifecycle!Next]_Promised
<1> USE DEF turnVars, clientVars
<1>1. CASE UNCHANGED turn
  BY <1>1, NoneMoves DEF Restart
<1>2. CASE turn' = [t \in Requests |-> IF t \in Unfinished
                                       THEN WithStatus(turn[t], "failed") ELSE turn[t]]
  <2>1. UNCHANGED <<req, answers>>
    BY DEF Restart
  <2>2. ASSUME NEW t \in Requests
        PROVE  /\ Phase(t)' = IF Phase(t) \in {"queued", "running"} THEN "failed" ELSE Phase(t)
               /\ turn'[t].attempt = turn[t].attempt
    BY <1>2, <2>1 DEF Phase, Unfinished, WithStatus
  <2>3. /\ Phases' = [t \in Requests |-> IF t \in {} THEN "gone" ELSE Lifecycle!Interrupted[t]]
        /\ Attempts' = [t \in Requests |-> IF t \in {} THEN 0 ELSE Attempts[t]]
        /\ answers' = [t \in Requests |-> IF t \in {} THEN 0 ELSE answers[t]]
        /\ Asked' = Asked
    BY <2>1, <2>2 DEF Phases, Attempts, Asked, Lifecycle!Interrupted, IInv, TypeOK
  <2>4. Lifecycle!Forget({}, Lifecycle!Interrupted)
    BY <2>3 DEF Lifecycle!Forget, Phases, Attempts, Asked
  <2>5. QED
    BY <2>4 DEF Lifecycle!Next
<1>3. QED
  BY <1>1, <1>2 DEF Restart

LEMMA StepPromised ==
    ASSUME IInv, Blank, [Next]_vars
    PROVE  [Lifecycle!Next]_Promised
<1>1. CASE \E r \in Requests : RetryCheck(r)
  BY <1>1, NoneMoves DEF RetryCheck, turnVars
<1>2. CASE (\E u \in Users : OtherCall(u) \/ OtherDone(u) \/ AdminQuota(u)) \/ UNCHANGED vars
  BY <1>2, NoneMoves DEF OtherCall, OtherDone, AdminQuota, vars, turnVars, clientVars
<1>3. QED
  BY <1>1, <1>2, CreateBeginPromised, CreatePromised, RetryPromised, WorkPromised,
     ForgetPromised, RestartPromised DEF Next

\* However requests, workers, deletions, failing writes, crashes and restarts
\* interleave, a chat turn lives the life TurnLifecycle promises.
THEOREM Refines == Spec => ImplementsLifecycle
<1>1. Init => Blank /\ Lifecycle!Init
  BY DEF Init, Blank, NoRow, Phase, Lifecycle!Init
<1>2. IInv /\ Blank /\ [Next]_vars => Blank'
  BY StepBlank
<1>3. IInv /\ Blank /\ [Next]_vars => [Lifecycle!Next]_Promised
  BY StepPromised
<1>4. QED
  BY <1>1, <1>2, <1>3, Invariance, PTL
     DEF Spec, ImplementsLifecycle, Lifecycle!Spec, Lifecycle!lifecycleVars, Promised,
         Phases, Attempts, Asked

=============================================================================
