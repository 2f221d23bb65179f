------------------------------ MODULE ChatTurns ------------------------------
(***************************************************************************)
(* Durable chat turns: src/internal/handlers/chat_turns.go (requests and   *)
(* the background worker), src/internal/db/chat_turns.go (the rows),       *)
(* the per-user AI slot of src/internal/handlers/handlers.go and the       *)
(* recovery step of src/main.go.                                           *)
(*                                                                         *)
(* Every HTTP request and every worker is a goroutine, so each handler is  *)
(* cut where it lets others run: at each statement it sends to SQLite and  *)
(* at each call to the provider.  A statement, or a transaction, is one    *)
(* step: SQLite serialises writers, and a transaction whose snapshot is    *)
(* stale or whose lock times out fails as a whole (Faulty).                *)
(***************************************************************************)
EXTENDS Naturals

CONSTANTS
    Users,          \* accounts
    Chats,          \* chats, each in a study of one user
    Owner,          \* Owner[c]: the user chat c belongs to
    ClientKeys,     \* idempotency keys a browser may send
    Requests,       \* POST .../turns requests; each mints one turn id, named after it
    Workers,        \* goroutines that may be alive at the same time
    Faulty,         \* repository calls that may return an error
    MaxAttempts,    \* bound: a turn is asked again only below this attempt
    MaxRetries,     \* bound: retry requests in flight for one turn
    MaxCrashes,     \* bound: crashes of the process
    None            \* absence of a chat, a key, a turn

RepoCalls == {"create", "read", "running", "retry", "fail", "complete", "interrupt"}

ASSUME ChatTurnsAssumption ==
    /\ Owner \in [Chats -> Users]
    /\ Faulty \subseteq RepoCalls
    /\ MaxAttempts \in Nat /\ MaxRetries \in Nat /\ MaxCrashes \in Nat
    /\ None \notin Requests \cup Chats \cup ClientKeys

VARIABLES
    up,         \* the process is serving
    crashes,    \* crashes so far
    chats,      \* the chats that exist
    req,        \* [Requests -> [pc, chat, key]]: the create requests
    retries,    \* [Requests -> Nat]: retry requests past their checks, by turn
    turn,       \* [Requests -> Row]: table chat_turns, by turn id
    answers,    \* [Requests -> Nat]: assistant messages under the turn's question
    worker,     \* [Workers -> [pc, task]]: processChatTurn goroutines
    inFlight,   \* [Users -> BOOLEAN]: Handler.aiInFlight
    other,      \* [Users -> BOOLEAN]: a quiz, tutor or stream call holds the slot
    exhausted,  \* [Users -> BOOLEAN]: Quota.Exhausted
    calls,      \* [Requests -> Nat]: provider requests made for the turn (history)
    lost        \* turns whose last status write was lost (history)

turnVars   == <<turn, answers>>
clientVars == <<req, retries>>
slotVars   == <<inFlight, other>>
vars == <<up, crashes, chats, req, retries, turn, answers, worker, inFlight, other,
          exhausted, calls, lost>>

-----------------------------------------------------------------------------
NoRow    == [status |-> "none", attempt |-> 0]
Statuses == {"none", "queued", "running", "succeeded", "failed"}
Row      == [status : Statuses, attempt : Nat]

\* Where processChatTurn stands.  From "gate" to "release" it holds the AI slot.
RunPCs    == {"claim", "refuse", "gate", "study", "history", "call", "recall",
              "bill_ok", "bill_err", "complete", "fail"}
HoldPCs   == (RunPCs \ {"claim", "refuse"}) \cup {"release"}
WorkerPCs == {"idle", "start", "mark", "release"} \cup RunPCs

At(l, t) == [pc |-> l, task |-> IF l = "idle" THEN None ELSE t]
Idle     == At("idle", None)

UserOf(t) == Owner[req[t].chat]
Rows      == {t \in Requests : turn[t].status # "none"}
\* ByClientKey: the unique index (user_id, chat_id, client_key).
RowsFor(c, k) == {t \in Rows : req[t].chat = c /\ req[t].key = k}

TypeOK ==
    /\ up \in BOOLEAN
    /\ crashes \in Nat
    /\ chats \subseteq Chats
    /\ req \in [Requests -> [pc : {"idle", "insert", "done"},
                             chat : Chats \cup {None}, key : ClientKeys \cup {None}]]
    /\ retries \in [Requests -> Nat]
    /\ turn \in [Requests -> Row]
    /\ answers \in [Requests -> Nat]
    /\ worker \in [Workers -> [pc : WorkerPCs, task : Requests \cup {None}]]
    /\ \A w \in Workers : worker[w].pc = "idle" <=> worker[w].task = None
    /\ inFlight \in [Users -> BOOLEAN]
    /\ other \in [Users -> BOOLEAN]
    /\ exhausted \in [Users -> BOOLEAN]
    /\ calls \in [Requests -> Nat]
    /\ lost \subseteq Requests

Init ==
    /\ up = TRUE
    /\ crashes = 0
    /\ chats = Chats
    /\ req = [r \in Requests |-> [pc |-> "idle", chat |-> None, key |-> None]]
    /\ retries = [t \in Requests |-> 0]
    /\ turn = [t \in Requests |-> NoRow]
    /\ answers = [t \in Requests |-> 0]
    /\ worker = [w \in Workers |-> Idle]
    /\ inFlight = [u \in Users |-> FALSE]
    /\ other = [u \in Users |-> FALSE]
    /\ exhausted = [u \in Users |-> FALSE]
    /\ calls = [t \in Requests |-> 0]
    /\ lost = {}

\* UPDATE chat_turns SET status=s WHERE id=t.
WithStatus(row, s) == [status |-> s, attempt |-> row.attempt]
SetStatus(t, s)    == turn' = [turn EXCEPT ![t] = WithStatus(turn[t], s)]

-----------------------------------------------------------------------------
(* Requests *)

\* startChatTurn: a new goroutine for turn t, whether or not one is running.
Spawn(t) == \E w \in Workers : /\ worker[w] = Idle
                               /\ worker' = [worker EXCEPT ![w] = At("start", t)]

Over(q)   == [pc |-> "done", chat |-> q.chat, key |-> q.key]
Finish(r) == req' = [req EXCEPT ![r] = Over(req[r])]

\* ChatTurnCreate up to Create.  A turn that exists for the key is driven again
\* and returned, quota or no quota; otherwise an exhausted quota refuses.  A
\* failed lookup counts as not found, a quota that cannot be read as exhausted.
CreateBegin(r, c, k) ==
    /\ up /\ req[r].pc = "idle" /\ c \in chats
    /\ \/ \E t \in RowsFor(c, k) : Spawn(t) /\ Finish(r)
       \/ /\ RowsFor(c, k) = {} \/ "read" \in Faulty
          /\ ~exhausted[Owner[c]]
          /\ req' = [req EXCEPT ![r] = [pc |-> "insert", chat |-> c, key |-> k]]
          /\ UNCHANGED worker
       \/ /\ (RowsFor(c, k) = {} /\ exhausted[Owner[c]]) \/ "read" \in Faulty
          /\ Finish(r)
          /\ UNCHANGED worker
    /\ UNCHANGED <<up, crashes, chats, retries, turnVars, slotVars, exhausted, calls, lost>>

InsertRow(r) ==
    /\ turn' = [turn EXCEPT ![r] = [status |-> "queued", attempt |-> 1]]
    /\ Spawn(r)

\* ChatTurnRepo.Create and the spawn that follows it.  The transaction looks the
\* key up again, so a row that appeared since CreateBegin is adopted.
Create(r) ==
    /\ up /\ req[r].pc = "insert"
    /\ Finish(r)
    /\ LET found == RowsFor(req[r].chat, req[r].key) IN
       \/ /\ found # {}
          /\ \E t \in found : Spawn(t)
          /\ UNCHANGED turn
       \/ /\ found = {} /\ req[r].chat \in chats
          /\ InsertRow(r)
       \/ /\ req[r].chat \notin chats \/ "create" \in Faulty
          /\ UNCHANGED <<turn, worker>>
    /\ UNCHANGED <<up, crashes, chats, retries, answers, slotVars, exhausted, calls, lost>>

\* ChatTurnRetry: the status and quota checks.
RetryCheck(t) ==
    /\ up /\ turn[t].status = "failed" /\ ~exhausted[UserOf(t)]
    /\ retries[t] < MaxRetries /\ turn[t].attempt < MaxAttempts
    /\ retries' = [retries EXCEPT ![t] = @ + 1]
    /\ UNCHANGED <<up, crashes, chats, req, turnVars, worker, slotVars, exhausted, calls, lost>>

\* Mutant: the UPDATE forgets AND status='failed' and trusts RetryCheck.
RetryUnguarded(t) ==
    /\ up /\ retries[t] > 0 /\ t \in Rows
    /\ retries' = [retries EXCEPT ![t] = @ - 1]
    /\ turn' = [turn EXCEPT ![t] = [status |-> "queued", attempt |-> @.attempt + 1]]
    /\ Spawn(t)
    /\ UNCHANGED <<up, crashes, chats, req, answers, slotVars, exhausted, calls, lost>>

\* ChatTurnRepo.Retry, conditional on status='failed', and the spawn.
Retry(t) ==
    /\ up /\ retries[t] > 0
    /\ retries' = [retries EXCEPT ![t] = @ - 1]
    /\ \/ /\ turn[t].status = "failed"
          /\ turn' = [turn EXCEPT ![t] = [status |-> "queued", attempt |-> @.attempt + 1]]
          /\ lost' = lost \ {t}
          /\ Spawn(t)
       \/ /\ turn[t].status # "failed" \/ "retry" \in Faulty
          /\ UNCHANGED <<turn, worker, lost>>
    /\ UNCHANGED <<up, crashes, chats, req, answers, slotVars, exhausted, calls>>

-----------------------------------------------------------------------------
(* processChatTurn *)

Step(w, from, to) ==
    /\ worker[w].pc = from
    /\ worker' = [worker EXCEPT ![w] = At(to, worker[w].task)]

\* GetAny: a worker whose turn is missing or no longer queued has nothing to do.
GetAny(w) ==
    LET t == worker[w].task IN
    /\ \/ Step(w, "start", "mark") /\ turn[t].status = "queued" /\ UNCHANGED lost
       \/ Step(w, "start", "idle") /\ turn[t].status # "queued" /\ UNCHANGED lost
       \/ Step(w, "start", "idle") /\ "read" \in Faulty /\ lost' = lost \cup {t}
    /\ UNCHANGED <<up, crashes, chats, clientVars, turnVars, slotVars, exhausted, calls>>

\* Mutant: the UPDATE forgets AND status='queued'.
MarkRunningUnguarded(w) ==
    LET t == worker[w].task IN
    /\ Step(w, "mark", "claim")
    /\ IF t \in Rows THEN SetStatus(t, "running") ELSE UNCHANGED turn
    /\ UNCHANGED <<up, crashes, chats, clientVars, answers, slotVars, exhausted, calls, lost>>

\* MarkRunning, conditional on status='queued': of the workers of one turn, one wins.
MarkRunning(w) ==
    LET t == worker[w].task IN
    /\ \/ /\ Step(w, "mark", "claim") /\ turn[t].status = "queued"
          /\ SetStatus(t, "running")
          /\ lost' = lost \ {t}
       \/ /\ Step(w, "mark", "idle") /\ turn[t].status # "queued"
          /\ UNCHANGED <<turn, lost>>
       \/ /\ Step(w, "mark", "idle") /\ "running" \in Faulty
          /\ lost' = lost \cup {t}
          /\ UNCHANGED turn
    /\ UNCHANGED <<up, crashes, chats, clientVars, answers, slotVars, exhausted, calls>>

\* startAI under aiMu: a busy user fails the turn.
StartAI(w) ==
    LET u == UserOf(worker[w].task) IN
    /\ \/ Step(w, "claim", "gate") /\ ~inFlight[u] /\ inFlight' = [inFlight EXCEPT ![u] = TRUE]
       \/ Step(w, "claim", "refuse") /\ inFlight[u] /\ UNCHANGED inFlight
    /\ UNCHANGED <<up, crashes, chats, clientVars, turnVars, other, exhausted, calls, lost>>

\* The quota is read again, now that no other call of this user can spend it.
QuotaGate(w) ==
    /\ \/ Step(w, "gate", "study") /\ ~exhausted[UserOf(worker[w].task)]
       \/ /\ Step(w, "gate", "fail")
          /\ exhausted[UserOf(worker[w].task)] \/ "read" \in Faulty
    /\ UNCHANGED <<up, crashes, chats, clientVars, turnVars, slotVars, exhausted, calls, lost>>

\* studies.Get: a study goes only together with its chats; a read may fail.
LoadStudy(w) ==
    /\ \/ Step(w, "study", "history")
       \/ /\ Step(w, "study", "fail")
          /\ req[worker[w].task].chat \notin chats \/ "read" \in Faulty
    /\ UNCHANGED <<up, crashes, chats, clientVars, turnVars, slotVars, exhausted, calls, lost>>

\* executeChatTurn reads the chat's messages before it calls the provider.
ReadHistory(w) ==
    /\ \/ Step(w, "history", "call")
       \/ Step(w, "history", "bill_err") /\ "read" \in Faulty
    /\ UNCHANGED <<up, crashes, chats, clientVars, turnVars, slotVars, exhausted, calls, lost>>

\* Mutant: transient errors are retried without a limit.
CallProviderForever(w) ==
    LET t == worker[w].task IN
    /\ \/ Step(w, "call", "bill_ok") \/ Step(w, "call", "bill_err") \/ Step(w, "call", "call")
    /\ calls' = [calls EXCEPT ![t] = @ + 1]
    /\ calls[t] < 9
    /\ UNCHANGED <<up, crashes, chats, clientVars, turnVars, slotVars, exhausted, lost>>

\* StreamWithTools: an answer, an error, or on the first try a transient error
\* with nothing received, after which the loop of executeChatTurn tries once more.
CallProvider(w) ==
    LET t == worker[w].task IN
    /\ \/ \E from \in {"call", "recall"}, to \in {"bill_ok", "bill_err"} : Step(w, from, to)
       \/ Step(w, "call", "recall")
    /\ calls' = [calls EXCEPT ![t] = @ + 1]
    /\ UNCHANGED <<up, crashes, chats, clientVars, turnVars, slotVars, exhausted, lost>>

\* recordAIUsage: the tokens may use the quota up; an error is only logged.
Bill(w) ==
    /\ Step(w, "bill_ok", "complete") \/ Step(w, "bill_err", "fail")
    /\ \E spent \in BOOLEAN :
         exhausted' = [exhausted EXCEPT ![UserOf(worker[w].task)] = @ \/ spent]
    /\ UNCHANGED <<up, crashes, chats, clientVars, turnVars, slotVars, calls, lost>>

\* Mutant: the answer is inserted first, in no transaction with the status.
CompleteInTwoWrites(w) ==
    LET t == worker[w].task IN
    /\ \/ Step(w, "complete", "release") /\ SetStatus(t, "succeeded")
       \/ Step(w, "complete", "fail") /\ "complete" \in Faulty /\ UNCHANGED turn
    /\ turn[t].status = "running"
    /\ answers' = [answers EXCEPT ![t] = @ + 1]
    /\ UNCHANGED <<up, crashes, chats, clientVars, slotVars, exhausted, calls, lost>>

\* Complete: answer and status in one transaction, only for a running row; a row
\* that succeeded already is left as it is; anything else is an error.
Complete(w) ==
    LET t == worker[w].task IN
    /\ \/ /\ Step(w, "complete", "release") /\ turn[t].status = "running"
          /\ SetStatus(t, "succeeded")
          /\ answers' = [answers EXCEPT ![t] = @ + 1]
          /\ lost' = lost \ {t}
       \/ /\ Step(w, "complete", "release") /\ turn[t].status = "succeeded"
          /\ UNCHANGED <<turnVars, lost>>
       \/ /\ Step(w, "complete", "fail")
          /\ turn[t].status \notin {"running", "succeeded"} \/ "complete" \in Faulty
          /\ UNCHANGED <<turnVars, lost>>
    /\ UNCHANGED <<up, crashes, chats, clientVars, slotVars, exhausted, calls>>

\* Mutant: the error path of the worker returns without failing the turn.
FailForgotten(w) ==
    /\ Step(w, "refuse", "idle") \/ Step(w, "fail", "release")
    /\ UNCHANGED <<up, crashes, chats, clientVars, turnVars, slotVars, exhausted, calls, lost>>

\* Fail, conditional on status IN ('queued','running'); its error is ignored.
Fail(w) ==
    LET t == worker[w].task IN
    /\ Step(w, "refuse", "idle") \/ Step(w, "fail", "release")
    /\ \/ /\ turn[t].status \in {"queued", "running"}
          /\ SetStatus(t, "failed")
          /\ lost' = lost \ {t}
       \/ /\ turn[t].status \notin {"queued", "running"}
          /\ UNCHANGED <<turn, lost>>
       \/ /\ "fail" \in Faulty
          /\ lost' = lost \cup {t}
          /\ UNCHANGED turn
    /\ UNCHANGED <<up, crashes, chats, clientVars, answers, slotVars, exhausted, calls>>

\* Mutant: endAI is called on the success path only.
EndAIOnSuccessOnly(w) ==
    /\ Step(w, "release", "idle")
    /\ inFlight' = [inFlight EXCEPT ![UserOf(worker[w].task)] =
                      turn[worker[w].task].status # "succeeded"]
    /\ UNCHANGED <<up, crashes, chats, clientVars, turnVars, other, exhausted, calls, lost>>

\* The deferred endAI.
EndAI(w) ==
    /\ Step(w, "release", "idle")
    /\ inFlight' = [inFlight EXCEPT ![UserOf(worker[w].task)] = FALSE]
    /\ UNCHANGED <<up, crashes, chats, clientVars, turnVars, other, exhausted, calls, lost>>

-----------------------------------------------------------------------------
(* The rest of the program, as chat turns see it *)

\* Another handler's AI call of the same user, between its startAI and endAI.
OtherCall(u) ==
    /\ up /\ ~inFlight[u]
    /\ inFlight' = [inFlight EXCEPT ![u] = TRUE]
    /\ other' = [other EXCEPT ![u] = TRUE]
    /\ UNCHANGED <<up, crashes, chats, clientVars, turnVars, worker, exhausted, calls, lost>>

OtherDone(u) ==
    /\ other[u]
    /\ inFlight' = [inFlight EXCEPT ![u] = FALSE]
    /\ other' = [other EXCEPT ![u] = FALSE]
    /\ \E spent \in BOOLEAN : exhausted' = [exhausted EXCEPT ![u] = @ \/ spent]
    /\ UNCHANGED <<up, crashes, chats, clientVars, turnVars, worker, calls, lost>>

\* SetQuota or ResetUsage from the admin panel.
AdminQuota(u) ==
    /\ up
    /\ exhausted' = [exhausted EXCEPT ![u] = ~@]
    /\ UNCHANGED <<up, crashes, chats, clientVars, turnVars, worker, slotVars, calls, lost>>

\* A chat is deleted, alone or with its study or user: ON DELETE CASCADE takes
\* the messages and the turns, whatever the workers are doing.
DeleteChat(c) ==
    /\ up /\ c \in chats
    /\ chats' = chats \ {c}
    /\ turn' = [t \in Requests |-> IF req[t].chat = c THEN NoRow ELSE turn[t]]
    /\ answers' = [t \in Requests |-> IF req[t].chat = c THEN 0 ELSE answers[t]]
    /\ UNCHANGED <<up, crashes, clientVars, worker, slotVars, exhausted, calls, lost>>

\* The process dies; what is in memory is gone, requests in flight included.
Crash ==
    /\ up /\ crashes < MaxCrashes
    /\ up' = FALSE
    /\ crashes' = crashes + 1
    /\ req' = [r \in Requests |-> IF req[r].pc = "insert" THEN Over(req[r]) ELSE req[r]]
    /\ retries' = [t \in Requests |-> 0]
    /\ worker' = [w \in Workers |-> Idle]
    /\ inFlight' = [u \in Users |-> FALSE]
    /\ other' = [u \in Users |-> FALSE]
    /\ UNCHANGED <<chats, turnVars, exhausted, calls, lost>>

Unfinished == {t \in Requests : turn[t].status \in {"queued", "running"}}

\* Mutant: only running turns are recovered.
RestartRunningOnly ==
    /\ ~up /\ up' = TRUE
    /\ turn' = [t \in Requests |-> IF turn[t].status = "running"
                                   THEN WithStatus(turn[t], "failed") ELSE turn[t]]
    /\ UNCHANGED <<crashes, chats, clientVars, answers, worker, slotVars, exhausted, calls, lost>>

\* main: MarkInterrupted, whose error is only logged, and then ListenAndServe.
Restart ==
    /\ ~up /\ up' = TRUE
    /\ \/ /\ turn' = [t \in Requests |-> IF t \in Unfinished
                                         THEN WithStatus(turn[t], "failed") ELSE turn[t]]
          /\ lost' = lost \ Unfinished
       \/ /\ "interrupt" \in Faulty
          /\ lost' = lost \cup Unfinished
          /\ UNCHANGED turn
    /\ UNCHANGED <<crashes, chats, clientVars, answers, worker, slotVars, exhausted, calls>>

-----------------------------------------------------------------------------
Work(w) ==
    \/ GetAny(w) \/ MarkRunning(w) \/ StartAI(w) \/ QuotaGate(w) \/ LoadStudy(w)
    \/ ReadHistory(w) \/ CallProvider(w) \/ Bill(w) \/ Complete(w) \/ Fail(w) \/ EndAI(w)

Next ==
    \/ \E r \in Requests : \/ \E c \in Chats, k \in ClientKeys : CreateBegin(r, c, k)
                           \/ Create(r)
    \/ \E t \in Requests : RetryCheck(t) \/ Retry(t)
    \/ \E w \in Workers : Work(w)
    \/ \E u \in Users : OtherCall(u) \/ OtherDone(u) \/ AdminQuota(u)
    \/ \E c \in Chats : DeleteChat(c)
    \/ Crash
    \/ Restart

Spec == Init /\ [][Next]_vars

\* A goroutine that can run does: its statements return, and the provider's
\* HTTP client gives up after three minutes (src/internal/ai/ai.go).  The
\* supervisor restarts the process.  Nobody has to send a request.
Fairness ==
    /\ \A w \in Workers : WF_vars(Work(w))
    /\ \A u \in Users : WF_vars(OtherDone(u))
    /\ WF_vars(Restart)

FairSpec == Spec /\ Fairness

-----------------------------------------------------------------------------
(* Properties *)

\* However often, and however concurrently, a browser sends one client key for a
\* chat, at most one turn and so one question exists for it: "Create is
\* idempotent for (user, chat, clientKey)" (db/chat_turns.go:49).
OneTurnPerKey ==
    \A s, t \in Rows : req[s].chat = req[t].chat /\ req[s].key = req[t].key => s = t

\* Whatever duplicate workers, retries, crashes and failed writes do, a question
\* has one assistant message under it exactly when its turn succeeded, and none
\* otherwise (Complete writes both in one transaction).
AnswerIffSucceeded ==
    \A t \in Requests : answers[t] = IF turn[t].status = "succeeded" THEN 1 ELSE 0

Running(w, t) == worker[w].task = t /\ worker[w].pc \in RunPCs

\* Every create for an existing key starts another worker, yet at most one worker
\* is past MarkRunning for a turn, and while it is there nobody else moves the
\* row: it stays 'running' unless its chat is deleted.
ExclusiveRunner ==
    \A w \in Workers, t \in Requests : Running(w, t) =>
        /\ turn[t].status \in {"running", "none"}
        /\ \A v \in Workers : Running(v, t) => v = w

Holds(w, u) == worker[w].pc \in HoldPCs /\ UserOf(worker[w].task) = u

\* aiInFlight is set exactly while one AI call of the user is in flight, and
\* there is never a second one: the slot is neither leaked by an early return
\* nor released by somebody else ("one in-flight AI call per user",
\* handlers.go:51).
SingleFlight ==
    \A u \in Users :
        /\ inFlight[u] <=> (other[u] \/ \E w \in Workers : Holds(w, u))
        /\ \A w \in Workers : Holds(w, u) => ~other[u]
        /\ \A v, w \in Workers : Holds(v, u) /\ Holds(w, u) => v = w

\* Each attempt costs at most two provider requests (calls of StreamWithTools, each of
\* which has rounds of its own), so duplicate workers and duplicate retries never pay for
\* the same attempt again.
CallsPerAttempt ==
    \A t \in Rows : calls[t] <= 2 * turn[t].attempt

Driven(t) == \E w \in Workers :
    /\ worker[w].task = t
    /\ worker[w].pc \in (IF turn[t].status = "queued" THEN {"start", "mark"} ELSE RunPCs)

\* While the process serves, an unfinished turn has a live worker that will move
\* it, except where a status write of it was lost; the browser polls such a turn
\* for ever, and only 'failed' turns offer a retry.
NoOrphans ==
    up => \A t \in Unfinished : Driven(t) \/ t \in lost

\* Every turn that was accepted ends, or is deleted, when no write is lost.
EventuallySettled ==
    \A t \in Requests : (t \in Unfinished) ~> (t \notin Unfinished)

\* The user's slot is always given back, so the next request is not refused as
\* busy for ever.
SlotReleased ==
    \A u \in Users : inFlight[u] ~> ~inFlight[u]

-----------------------------------------------------------------------------
(* The lifecycle this implements *)

Phase(t) == IF turn[t].status # "none" THEN turn[t].status
            ELSE IF req[t].pc = "done" THEN "gone" ELSE "absent"

Lifecycle == INSTANCE TurnLifecycle WITH
    Ids     <- Requests,
    Idents  <- (Chats \cup {None}) \X (ClientKeys \cup {None}),
    phase   <- [t \in Requests |-> Phase(t)],
    attempt <- [t \in Requests |-> turn[t].attempt],
    answers <- answers,
    ident   <- [t \in Requests |-> <<req[t].chat, req[t].key>>]

\* Every step is a step of the turn lifecycle or changes none of it: a succeeded
\* turn never changes again, only a failed one is asked again, an attempt is
\* never repeated or skipped, a deleted turn does not come back.
ImplementsLifecycle == Lifecycle!Spec

=============================================================================
