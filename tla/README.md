# Learnix, verified

TLA+ specifications of Learnix (a Go server: chi, templ, SQLite), the TLC
configurations that check them on small instances and TLAPS proofs of what
holds for every instance. Paths are relative to the root of the repository;
`handlers/`, `db/` and the like are under `src/internal/`.

## 1. Inventory

One process serves HTTP; every request is a goroutine. State is in SQLite
(durable, one writer at a time) and in a few mutex-protected maps (lost with the
process). The AI provider and the web search are remote services.

| Part | State | Operations | Interacts with | Hard behaviour | What makes it correct |
|---|---|---|---|---|---|
| Chat turns: `handlers/chat_turns.go`, `db/chat_turns.go` | rows `chat_turns`, `chat_messages`; worker goroutines | create, status, retry, worker, recovery | AI slot, quota, chats, provider | duplicate requests and workers, retries, lost writes, crash, deletion under a worker | one turn per key, one runner, one answer, nothing orphaned, every turn ends |
| Test attempts, exam mode: `handlers/tests.go`, `handlers/exam.go`, `db/repo.go` | row `quizzes`; `ranked_results`, `user_stats`, `test_definitions.observations` | answer, reanswer, next, goto, flag, result, page, diagnostic, tutor | leaderboard, telemetry, AI slot | unversioned load-modify-save of a whole row; several writes to finish; deadline | no mixture of sheets, a public result is complete and immutable, graded once |
| AI slot, quota, billing: `handlers/handlers.go`, `db/quota.go`, `handlers/admin.go` | `aiInFlight` (memory), `user_quota`, `usage_log` | quotaFor, startAI, endAI, AddUsage, SetQuota, ResetUsage | every AI endpoint | check first, take the slot later; failing bills; the admin | one call per user, slot never leaked, bounded overdraft, tokens accounted |
| Study quiz: `handlers/handlers.go` | `studies.phase`, row `quizzes` | start, answer, next, result, reset, delete | quiz jobs, leaderboard | two rows written one after the other; reset while a job runs | study and quiz agree |
| Quiz jobs: `quizjobs/manager.go`, `static/app.js` | map of snapshots (memory); the browser's polling loop | start, get, update, report, heartbeat, prune | quiz generation, AI slot | late heartbeat, trimming, pruning against polling, restart | terminal states are final, unfinished jobs are kept, the browser is told the truth |
| Quiz generation: `quizgen/quizgen.go`, the jobs' work in `handlers/handlers.go`, `handlers/tests.go` | one generation's draft, usage and figures | research, author, review, review again, bill, save | tool loop, job manager, quota | replies of any shape, attempts that fail halfway, a deadline at any moment | it ends, a quiz honours its contract, what was spent is shown and billed |
| Tool loop, provider client: `ai/tools.go`, `ai/ai.go` | messages and usage of one call | rounds, tool calls, fallbacks | mind map, files, search | tools that fail, providers that refuse a feature, round limit | every call has its result, a provider that lacks a feature is served, it ends |
| Chats, highlights: `handlers/chats.go`, `handlers/highlights.go`, `db/repo.go` | `chats`, `chat_messages`, `highlights` | create, rename, branch, delete, stream, bookmark, excerpt | chat turns, quota | a question is written under what was read before | threads, answered in context; a branch reads like the original |
| Files and versions: `handlers/files.go`, `handlers/versions.go` | `files`, `file_versions` | create, rename, move, delete, edit, restore, branch | tutor's tools | moves that make cycles, folders removed under a request, restore across edits | nothing lies nowhere or vanishes unasked, every edit is in an append-only history |
| Mind maps: `mindmap/`, `handlers/mindmap.go`, `handlers/aitools.go`, `static/mind-map.js` | one JSON graph per study | load, save, add, update, remove, collapse | tool loop | load-mutate-save race of tools and editor, subtree removal | what is stored is one whole tree, a tool changes one branch |
| Accounts, sessions, profiles: `handlers/auth.go`, `auth/`, `handlers/profile.go`, `db/profile.go`, `db/analytics.go` | `users`, `user_profiles`, `sessions`, cookies | register, log in and out, middleware, change handle, admin, boot | quota | compensating deletion, check-then-insert of tags, session and user read apart | all rows of an account or none, nobody acts as somebody else |
| Leaderboard, telemetry, scoring: `handlers/leaderboard.go`, `db/analytics.go`, `db/profile.go`, `session/store.go` | `telemetry_events`, `user_stats`, `ranked_results`, `usage_log` | record, backfill, list, rank | quiz, chat, accounts | counters next to what they count; edges of months; rounding | sums add up, boards and ranks are exact |
| Elements, learning apps: `elements/`, `learningapps/` | none | validate, encode, decode | chat, quiz | nested JSON | pure validators |
| Rate limiter: `ratelimit/` | map of buckets | get | every expensive route | sweep past 10,000 visitors | nobody gains or loses by the sweep |
| Server, migrations: `main.go`, `db/db.go` | the schema and old rows | start, migrate, serve | all | a death between any two statements | nothing lost, nothing done twice |
| Web search, authentication helpers, templates | none | | | | I/O, cryptography, formatting |

The hazards of this code, each at its line and with the properties that would
catch it going wrong, are in `PROJECT.json`.

## 2. Plan

1. `TurnLifecycle`, `ChatTurns`: the durable chat turns, abstract and detailed. *Done.*
2. `QuizAttempt`: one test attempt. *Done.*
3. `AIGate`: the slot and the quota under all five kinds of call. *Done.*
4. `StudyQuiz`: the study's quiz, its two rows, the job that replaces it, reset
   and deletion. *Done.*
5. `JobLifecycle`, `QuizJobs`: the job manager, abstractly a job that is queued,
   runs and ends once; the manager implements it. *Done.*
6. `Files` (the folder tree and the versions), `MindMap` (the graph, the tools and
   the editor), and `Workspace`, which composes them. *Done.*
7. `ToolLoop`, `QuizGen` and `QuizPipeline`, which composes them with `QuizJobs`:
   what a job does. *Done.*
8. `Chats`, in `Workspace`: the threads of a chat and its branches. *Done.*
9. `Accounts`, `TokenBucket` and `RateLimit`, `Migrations`, `Standings`, and
   `Server`, which composes them. *Done.*

Left for a later extension: the creation of studies and of test definitions.

## 3. The modules

### ChatTurns

`processChatTurn` is cut at every statement it sends to SQLite and at the call
to the provider: `GetAny`, `MarkRunning`, `StartAI`, `QuotaGate`, `LoadStudy`,
`ReadHistory`, `CallProvider`, `Bill`, `Complete`, `Fail`, `EndAI` are its lines
in order, and `worker[w].pc` is the line a goroutine stands at. A request is two
steps, `CreateBegin` (the lookup and the quota) and `Create` (the transaction and
the new goroutine); a retry is `RetryCheck` and `Retry`. A transaction is one
step. `turn` is the table `chat_turns`, its id the request that minted it, its
chat and key those of `req`; `answers` counts the assistant messages under a
turn's question; `inFlight` is `Handler.aiInFlight` and `other` says that the
holder is a call of another endpoint. `Faulty` names the repository calls that
may return an error. `calls` and `lost` are history variables: the provider
requests of a turn, and the turns one of whose status writes was lost.

Not in the model: the text of messages, sources, learning elements, telemetry,
and the responses to the browser, which have no effect on the state.

`TurnLifecycle` is what a turn promises: asked once per key, queued, running,
succeeded or failed, asked again only from failed, an answer exactly with
success. `ChatTurns` maps a request that has not inserted its row to the phase
`absent` and one that gave up, or whose row was deleted, to `gone`.

### QuizAttempt

A request loads the row into its copy `op[t].s`, decides on the copy
(`Mutate`, `Result`, `Page`, `Diagnostic`, `Ask`), and writes the whole copy
back (`Save`, `FinishQuiz`), as `testMutationForAttempt` and its siblings do;
between its steps anything may happen. Finishing goes on with `Record`,
`Telemetry` and `Observe`. `Edits` are the rows a request may make of its copy:
exams navigate freely (`ExamEdits`), practice is linear (`PracticeEdits`).
`kind` says whether the attempt is an exam, ranked and owned by a test
definition, and whether its learner is `solo`, one request at a time: some
properties are promised to such a learner only. An answer is right or wrong:
which option was chosen is left out.

### AIGate

A call goes from its endpoint's look at the quota (`Gate`) to the slot
(`startAI`), for a chat turn to a second look (`Recheck`), to the provider, to
its bill and to `endAI`. The five kinds differ where the code does: what may
fail before the call goes out (`Send`), and which outcomes are billed
(`Answer`): an attempt that fails or is not saved (`handlers/tests.go:372`), and a
tutor whose reply fails or is blank (`tests.go:748`), return before the bill.
The admin raises, lowers and resets quotas and deletes users.

### StudyQuiz

Where the learner of a study stands is kept in `study` (the phase column of
`studies`) and in `quiz` (the study's rows of `quizzes`). A request is cut where
the code sends a statement: `Load` and `Latest` are the two reads of `loadStudy`;
`Mutate`, `Diagnostic`, `Result`, `Page` and `Reset` decide on the session;
`Save`, `Finish`, `Count`, `Turn` and `Clear` are the writes. The job of
`QuizStart` is `Generate`, `JobClear`, `JobTurn`, `JobInsert`. A sheet of answers
is full or not, since that is all these handlers ask of it; ids are never reused
(`AUTOINCREMENT`). The variable `setting`, which no step changes, names the statements that may fail, whose
errors are returned, dropped or logged as in the code, and says whether the learner
waits for the job, as the page that polls it does; a run takes several settings.

### QuizJobs

A job is two goroutines, the work (`Run`, `Report`, `Return`, `End`) and its
heartbeat (`BeatTick`, `BeatWrite`, `BeatDone`); all they share is the map, and
each critical section of its mutex is one step. `heartbeat`'s select is two
actions, since Go picks either of two ready cases. Anybody's request prunes
(`Pruned`): the owner's (`Poll`), any other (`Get`), and the next `Start`. Time
counts heartbeats; a ticker's channel holds one tick. `watch` is where
`watchQuizJob` stands in the browser: `Reaction` parses the answer before it
looks at the status, as the code does, so the text of a 404 is `unread`. A restart
empties the map. `said`, `ended` and `lost` are history variables. The figures a report carries are left out; a message is its
number, so that order and completeness of the list can be stated.

`JobLifecycle` is what a job promises to whoever polls it: queued, running, ended
once, forgotten only after it ended or with everything else in a restart.
`QuizJobs` maps a job that was never started to `absent` and one that is not in
the map any more to `gone`.

### Files, MindMap, Workspace

`Files` has the rows of a study: `file` is the table `files`, `history` each
file's rows of `file_versions`, `minted` the last id. What a request looks up
before it writes (the folder of `validParent`, the version of a restore) it keeps
in `req`, and anything may happen before it writes: `AskCreate`, `ToolCreate`,
`SaveToNote` and `AskBranch` end in `Insert`, `AskMove` in `Move`, `AskRestore` in
`Restore`, and every one of them may end in `Refused`. An edit looks up nothing
that can change (a file's kind is fixed) and is one step. Foreign keys are
enforced as `db.Open` asks, so `Insert` and `Move` need a parent that is there,
and a deletion takes what lies `Below`. The learner's requests look for a folder;
the tutor's `create_note` does not, as in the code. Names are left out.

`MindMap` has the one row of a study, `map`. `Validate`, `AddNode`, `UpdateNode`
and `RemoveNode` are the functions of the package, the last three as the set of
the graphs they may make. `caller` is a tool call or a page between its load and
its save: `loadOrCreateMindMap` is `Load` and `SaveBuilt`, `mutateMindMap` goes on
with `Mutate`, `MindMapPage` with `Open`. The editor's copy changes with
`AddToEditor`, `RemoveInEditor` and `Retell`, and `chosen` is the parent it asked
for; `Send` is a save, whose PUT arrives (`Update`) in any order, or never.
`IsTree` defines a tree by paths to the root, apart from `Validate`, which looks
for cycles and walks down as the code does.

`Chats` has the chats of the study and their messages. Here a durable turn is no
more than what it reads and writes, and so is a stream: what the tutor is told is
kept in `ask`, and others write between the read and the question, and between
the question and the answer. `Thread` is the walk of `BranchFrom` to the root. A
message is who speaks and which question it is (`text`), so that a copy can be told
from the original. An excerpt is what the browser sends, which may be a selection that
goes beyond the message it names: the handler checks only whose message that is
(`InsertHighlight`), and no property says more.

`Workspace` composes the three, which share the study and end with it
(`DeleteStudy`). What is between them besides is that the first opening of the map
reads the notes, for which `Outlines` stands, and that an answer may be saved as a
note; so a behaviour may be about one of them (`focus`).

### ToolLoop, QuizGen, QuizPipeline

`ToolLoop` is one call of `StreamWithTools`: `AskRound` is `streamRound`,
`AskAgain` its repetition without `stream_options`, `Exec` the next tool of the
answer, `StreamPlain` the fallback without tools. `provider` says which of the two
features it accepts and whether it fails for other reasons; an error may name any
feature it lacks. `QuizGen` is `GenerateWithTrace`: the research is a call of
`ToolLoop` whose tools find sources, `author`, `review` and `reviewAgain` are one
request of `Complete` each, and `NextAttempt` is the loop over the attempts.
`Parsed` and `preserveAuthorElements` are the functions of the package on
questions that are sound or not and carry elements that are valid or not. `seen` and
`figures` are the two metrics of the code, `metered` what the provider counted
(history). `QuizPipeline` adds what is around it: the deadline of the job
(`Expire`), the bill, and the save, in the order of either handler (`After`). The bill
is written with the job's context, so past the deadline it writes nothing (`Bill`). The
manager learns of the work only that it reports and how it ends, so a behaviour is
about the manager or about the work.

### Accounts, RateLimit, Migrations, Standings, Server

`Accounts` has the tables `users`, `user_profiles`, `user_quota` and `sessions`,
the cookies of the browsers and the requests between two statements. A
registration is `Find`, `Insert`, `Tag`, `InsertProfile`, `SetQuota`, `Open`, and
`Undo` where one of them fails; a page is `ReadSession`, `ReadUser` and what the
handler does as that user. Every statement may fail, and the process may die and
boot with another secret. `left` (history) says which accounts a request left half
made, `opener` (history) who opened a session. `AccountsWhole` says of an account that
it has all its rows (`Complete`), and of what was undone or deleted that nothing of it is
left (`NothingOutlives`). It does not say that no account is ever left half made: the
deletion in `Undo` may fail, its error is dropped, and a crash may cut a registration
short. Such an account has a profile again after the next boot, and a quota only if the
admin sets one.

`TokenBucket` is what a limiter promises, a bucket for each client whoever else
comes; `RateLimit` is the code, with its visitors and its sweep, and maps a client
it has forgotten to a full bucket (`Level`). `Migrations` is `Migrate` statement by
statement (`boot.at`), on any database an older version left; `touched` (history) says
whose chats a learner has changed since, of which nothing more is promised. `Standings` has the
counters of a learner with the tables they summarise, their backfill and the
telemetry that may fail, and the boards and ranks as operators (`list`,
`leaderboardJSON`, `RankFor`); the two logs are bags, since no query tells rows
apart that say the same; `tally` (history) is what really happened.

`Server` puts the four next to each other. They share no state, so a behaviour is
about one of them, or of the standings about the counters or the boards (`Focuses`).

## 4. The runs

| Run | Question | Bounds |
|---|---|---|
| `chat_turns_safety` | Is a turn run by one worker, answered once, affordable, never orphaned and within its life cycle, with every repository call failing at will? | 1 user, 2 chats, 1 key, 2 requests, 2 workers, 2 attempts, 1 crash |
| `chat_turns_liveness` | Does every turn end and every slot come back? | no failing writes, 1 crash, 1 retry |
| `quiz_attempt_finish` | Is finishing right through failures and crashes for a learner who waits, and what survives two overlapping requests? | 2 questions, 2 tabs, every kind of attempt |
| `quiz_attempt_twice` | Is a completion counted once when they overlap? **Violated.** | 2 questions, 2 tabs |
| `ai_gate_quota` | Is the slot held by exactly the calls under way, do turns respect the quota next to the other kinds, how far can it be overdrawn, and is every reported token of the kinds that bill their failures accounted for? | 1 user, 3 calls that cost 1 each, 5 tokens in all, allowances 1 and 2; either every kind, admin operation and fault, or what the bounds on the quota need |
| `ai_gate_race` | Does the slot close the quota race for the other kinds? **Violated.** | 1 user, 2 calls |
| `study_quiz_job` | What survives the job next to a request, failures and crashes, and do the study and its latest quiz agree for a learner who waits? | 1 tab, 3 quizzes, either every statement may fail, or none does and the learner waits |
| `study_quiz_opens` | Does a saved quiz open whatever the learner does meanwhile? **Violated.** | 1 tab, 2 quizzes |
| `quiz_jobs` | Is the browser told the truth, do job and heartbeat end, within the life cycle? Does the work end, with a quiz that honours its contract, its tokens shown and, in time, billed, in a conversation the API accepts? | 1 job, retention 2, 2 activities of 4 messages, clock to 7, 1 restart; 2 rounds of 2 tools, 3 attempts, a quiz of 1 question with 1 element, 4 shapes of reply, 5 providers |
| `quiz_jobs_watch` | Does the browser that waits learn that the job is over or gone? **Violated.** | 1 job, clock to 4, 1 restart |
| `workspace` | Does history survive overlapping requests, what makes a shown file vanish, do the stored and the edited map stay trees, and are chats threads the tutor answers in context? | 3 files, of which one has 3 versions, 1 request next to everybody's single writes; 3 nodes, depth 1, 1 tool or page, 2 saves under way; 2 chats, 4 messages, 2 askers, 1 mark |
| `server` | Has an account all its rows or none, unless a failed deletion or a crash left it; does nobody act as somebody else, does a migration cut short carry everything over once, do counters, boards and ranks add up, and does the limiter keep its promise? | 2 requests, 2 accounts, 1 session, 2 boots; 2 attempts and 1 study of old, 3 starts; 2 learners, 2 writers, 4 results on 2 days of different months; 3 clients, 1 of them kept |

Why the bounds are enough. The races are between two actors at a time: two
requests for one key, two workers of one turn, two retries, a worker and a
deletion. Two workers may belong to two turns, or to one; with two chats a
deletion leaves a turn and its worker behind. The second attempt
reaches what a third one would. A second user shares nothing in `ChatTurns` but
the pool of workers. In `QuizAttempt` two questions have a first, a last and a
next one, and `nextExamIndex` wraps round; every answer given is right, since a
blank tells the sheets apart already. In `AIGate` the third call makes the
difference between one call past the gate and two; the settings of `ai_gate_quota`
include some without the kinds `attempt` and `tutor`, which may return before their bill, and
without an admin who takes allowance away, for whom no bound holds. In `StudyQuiz` the second
quiz is the one that replaces, the third one replaces while the second is
history; two overlapping requests are left to the proof, which covers any number
of them. In `QuizJobs` jobs meet only in pruning, which looks at one at a time;
the clock passes the retention twice after a job ended, and the fourth message
drives the second out of a list of two. In `Workspace` three files are a folder, a
folder in it and something in that, the least that a cycle can take out of sight;
one request holds what it looked up while edits, deletions and the tools' updates, which
are single steps of nobody in particular, go on; the properties of overlapping
requests are also proved for any number of them. Three nodes are a root with two
branches, or a chain that is one level too deep; one tool and two saves under way
overwrite each other already. In the work of a job, two
rounds are a first one, where tools may still be given up, and a last one, after which
none are offered; two calls have an order; an element that is broken stands before one
that is not, and there may be one too many. In `Chats` four messages are two questions
and their answers in either order, or a question, its answer and a branch of both. In
`Accounts` two requests race for a tag, delete each other's account between two
statements, and log in meanwhile; with `Tags = 2` the second one is the tag of five
digits. In `RateLimit` three clients, of which one is one too many twice, and a clock
that passes `Kept` after the bucket is full. In `Migrations` one start dies in the
middle, the next one finishes, and the one after it finds nothing to do. In
`Standings` four ranked quizzes of two kinds give a mean that is not a whole number
next to a threshold. The proofs lift most of these bounds.
Where a bound leaves no room for a new row, nothing is begun that could only be refused
for want of it (`Begin` of `Accounts`, `Ask` of `Files`, `Takes` of `Chats`); what was
begun before still runs into the bound as it would into any failure.

The symmetry sets permute workers, requests, chats, tabs, calls and askers; runs with
liveness use none. Deadlock is checked in `chat_turns_safety`, `chat_turns_liveness`,
`quiz_attempt_finish`, `quiz_attempt_twice` and `ai_gate_race`. In the others nothing more happens at
last: once every user or the study is deleted, the jobs and their work are over and
the clock stands, or, in `server`, at the bounds.

### Fairness

In `chat_turns_liveness`, a goroutine that can run does: its
statements return, and the HTTP client of the provider gives up after three
minutes (`ai/ai.go:22`), so each worker is weakly fair, and so is the end of
another endpoint's call for the same reason. A supervisor restarts the process
(the container's restart policy, `docker-compose.yml`). No request, retry,
deletion or crash has to happen. The run has no failing writes: with them a turn
can be left running until the next restart, which `NoOrphans` states exactly
(`lost`).

In `QuizJobs` a goroutine that can run does, and its work returns, since its
context ends it after 15 minutes (`handlers.go:478`, `tests.go:352`). The
heartbeat's select is strongly fair for `done`: Go chooses among ready cases at
random, so a case that is ready again and again is taken at last. The browser
polls (every second, `app.js:766`). Nobody has to start a job, report, or
restart.

In `QuizPipeline` the work, which is one goroutine, goes on while it can: every request
to the provider returns within the three minutes of the client (`ai/ai.go:22`), every tool
of the research within its own timeout, and every statement returns. That it ends
(`WorkEnds`) then follows from its bounded rounds and attempts and not from the deadline,
which need not pass.

## 5. What the runs found

* **A completion counted twice.** `finishQuiz` runs its "one-time finish side
  effects" (`handlers/exam.go:38`) when its own copy of the row was not finished
  (`exam.go:46`). Two submissions that overlap each load the unfinished row and
  both run them: `quizzes_completed` grows by two (`CompletedOnce`). One request
  after the other it is counted once (`CompletedOnceAlone`). The ranked result is safe,
  `INSERT OR IGNORE` keeps the first (`RankedResultKept`), though it may then
  differ from the answers the row ends with.
* **The slot does not close the quota race.** "aiMu/aiInFlight enforce one
  in-flight AI call per user so concurrent requests cannot race the quota gate"
  (`handlers/handlers.go:51`). `ChatStream`, `QuizStart`, `TestAttemptStart` and
  the tutor read the quota before they take the slot; a call that bills in
  between is not seen. `processChatTurn` reads it again and is safe
  (`TurnsCannotRace`). The damage is bounded (`OverdraftBounded`).
* **A saved quiz that does not open.** The job moves the study to phase `quiz`
  (`handlers/handlers.go:534`), then inserts the quiz (`:537`) and reports "Quiz
  salvo. Abrindo suas questões..." (`:546`). A page loaded in between finds the
  phase without a quiz and writes phase `study` back (`handlers/studies.go:89`):
  the study stands at the chat, and no page leads to the quiz that was saved.
  A learner who waits for the job does not meet it (`SavedQuizOpensCalmly`).
* **A browser that polls for ever.** A poll answered 404 is meant to end the watch
  and to say that the generation was interrupted, "provavelmente por um reinício
  do servidor" (`static/app.js:750-753`). The loop parses every body as JSON first
  (`:742`), the handlers answer with the plain text of `http.NotFound`, the parse
  throws, and the error is taken for a lost connection (`:744`): after a restart
  every page the learner opens goes on polling for a job that is gone. What the
  browser does read is true (`Truthful`).

Observed in the models, where no document says otherwise. A folder can be moved
below itself: `Move` rejects only the folder itself (`db/repo.go:772`), and the
cycle is then no longer rendered; `NothingVanishes` has this as its exception, and
holds but for it and for what is moved out of sight. Two
savers of a mind map overwrite each other: the last one wins, and what is stored
is still one whole map.

Read in the code but outside the models: `chatProviderStatus`
(`handlers/chat_turns.go:355`) searches a lowercased error for a prefix with
capitals and so always returns 0.

## 6. What is proved

`tlapm` checks every theorem for any value of the constants that meets the
module's named assumption. Where an assumption asks for a finite set (the ids of a map, the
attempts of old, the learners and the writers), the code has a table's rows or a process's
goroutines.

**ChatTurnsProofs.** From `ChatTurnsAssumption`. The inductive invariant `IInv`
is the type invariant, four properties and two strengthenings. `Settled`
ties a request to its row: a row exists only for a request that is done, so the
requests still to insert one do not collide with themselves. `Quiet` says that
nothing runs and no slot is held while the process is down, without which a
restart could meet a worker of the time before. `OneTurnPerKey` is kept by the
lookup inside the transaction of `Create`; `ExclusiveRunner` by the conditions
of `MarkRunning`, `Retry` and `Fail`, and it is what makes `Complete` write one
answer (`AnswerIffSucceeded`); `SingleFlight` follows each holder to the
deferred `endAI`. Three theorems rest on it. `NoneLeftBehind`: a step that takes a
worker off its turn ends the turn or loses the write, and the worker that drives a
running turn is the only one, so no other step can. `NothingPaidAgain` counts ahead
(`Paid`): whoever may still call the provider has the requests of its attempt
before it. `Refines`: with `Blank`, nothing of a turn is left where its row is
gone, and every step is one of `TurnLifecycle` or moves no turn.

**QuizAttemptProofs.** From `QuizAttemptAssumption`. `OneSheet` is not inductive
by itself: a copy is written long after it was loaded. `AllSound` adds that every
copy a request carries is consistent, that the ones on their way to `FinishQuiz`
may be finished, and that the ones past it are complete; then every whole-row
write leaves a consistent row whatever it overwrites. `RankedResultKept` is an
action property and follows from `Record` alone. For a solo learner `AloneInv`
adds that the one request under way agrees with the row as far as it got
(`Faithful`), and that what was counted or ranked belongs to a finished row
(`Recorded`): `OnceAlone`, `RankedAgreesAlone` and `FinishedAlone`
follow, for any number of questions.

**AIGateProofs.** From `AIGateAssumption`. `SlotHeld` is inductive with the
types. The other three are theorems of every setting; the conditions under which a bound
can hold at all are part of the properties. `TurnGateHolds` speaks of settings whose
admin takes no allowance away: there a turn past `Recheck` still has the allowance it saw (`Allowed`), whatever other
kinds of call run, since a bill needs the slot, and the slot has one holder.
`Accounted` speaks of settings where no store fails, no user is deleted and the two kinds
that may return before their bill are left out (`NothingLost`); its invariant `Booked`
says that usage and log differ by the tokens of the one call about to bill.
`Overdraft` alone has an assumption, that there are finitely many calls
(`FewCalls`); `Covered`
counts the calls past the gate, each of which may still cost `MaxCost`, against
the bound.

**StudyQuizProofs.** From `StudyQuizAssumption`. `MaxIn` (a finite set of
numbers has a largest one, by well-foundedness) gives `Latest` its type.
`NeverBack` needs only the types: a save writes rows that are there, and an
insertion takes a new id. `OneQuizAtATime`, `CountedAlone` and `HistoryAlone` hold where requests do not overlap
(`Alone`); the job, the failures and the crashes stay free. Their invariant
`AloneInv` says of every copy that may still be saved that it knows whether its
quiz was finished and counted (`Faithful`), of every count that its quiz is
finished or removed (`Ledger`), and of a job about to insert that nothing is in
progress (`Cleanly`). `Kept` and `Inserted` are all a step can do to the rows.

The last two are about a learner who waits for the job and settings under which
no statement fails (`Calm`). `SavedOpens` rests on `Turns`: the job and the
requests take turns, and the study already stands at the quiz when the job
inserts it. `AgreeAtRest` also asks for one request at a time, and adds
`Waiting`: the study and its latest quiz agree whenever no request owes a write
(`Agrees`), and for a request under way, what its copy says of the two rows and
which write will make them agree again (`Calmly`).

**QuizJobsProofs.** From `QuizJobsAssumption`. For every job, `Stands` ties the
position of its goroutine to the status of its snapshot, `Ends` says that a job
that is not there was lost or ended longer than the retention ago (which a late
heartbeat only puts off, since it moves `updated` and nothing moves `ended`),
`Told` what the browser was told, and `Keeps` that the activities are the latest
messages (`TrimLatest`). `StillAgrees` covers a job that a step prunes or leaves
alone; one lemma per action covers the job it moves. `ToldTruth` and
`LatestActivities` follow, and `Refines`: every step is one of `JobLifecycle`, or
moves no phase.

**WorkspaceProofs.** From `FilesAssumption`, `ChatsAssumption` and
`MindMapAssumption`.

*Files.* The inductive invariant `FilesInv` is
the types, `Numbered` (ids are handed out in order, so the next one is free and
an insertion replaces nothing), `HistoryComplete` and `Homed`. There is a lemma per
kind of write: `InsertInv`, `WrittenInv` for edits and restores, `RemovedInv` for
what is closed under lying below (`BelowClosed`); and `FilesStep` shows that a step
of the workspace is a step of its files or none. `EditsKept` and
`NoStrays` follow, for any number of requests, and `HistoryAppends` from what
`StepInv` says of each history. `ShownUntilRemoved` sorts the steps by what they do
to the table (`FilesSame`, `FileMore`, `FilesLess`, `FileMoved`) and shows of each that
what was shown is still a set the new tree opens. It needs `FoldersMeant`: what a move
is about to go into was a folder when it was looked up, and still is one if it is there.

*Chats.* `MessagesInv` adds to the threads that copies hang as their originals do
(`AlikeAbove`), so that a branch of a branch still reads like the first chat
(`ReadingIsWell`); `BranchFrom`'s walk to the root is a recursive function, of which
`Upwards` gives what is needed: a message has a lower parent, so the walk ends.
`AskedWithContext` is about time: `Informed` says of every request under way that it was
told, with each message, the one above it, as long as its chat is there.

*Mind map.* `MapInv` says that everything stored, loaded or about to be saved is valid,
and the editor's copy a tree. The work is in `ValidTree`: what passes `Validate`, which walks
down from the root in rounds, is a tree by `IsTree`, which goes up by paths. A path that
meets no id twice is no longer than there are ids (`PathsShort`), and what the tools and the
editor do keeps the paths of what stays (`AddTree`, `RetellTree`, `RemoveTree`). `OneBranchOnly` follows from what `AddNode`, `UpdateNode` and `RemoveNode`
make of a valid graph.

**QuizPipelineProofs.** From `ToolLoopAssumption`, `QuizGenAssumption` and
`QuizPipelineAssumption`. The inductive invariant is `WorkInv`. `LoopInv` says of
the call of the provider why it stands where it stands: a request is repeated
without a feature only where the provider lacks it, so that a failure for lack of
one feature is not possible (`LackingOneAnswered`). `Counts` has the three sums of
tokens agree at every line (a round of the research is in the loop's sum until the
research returns, so the deadline must add it), and `Billing` what the log holds by
the line of the job, which is nothing where the deadline came first: with them `Billed`.
`ContractKept` follows from `Researched`
and from `FinalHonours`, which shows that what passes `validate` after the author's
elements were put back keeps the contract. Every step of author and reviewer goes
through one lemma, `SpentKeeps`. `CallsAnswered` follows the conversation: it is in
order up to the last message with calls, and the tools that ran since are the first
of these.

**ServerProofs.** From `RateLimitAssumption`, `AccountsAssumption`,
`MigrationsAssumption` and `StandingsAssumption`.

*The limiter.* `LimiterHonest` is a refinement: `SweptFull` shows that a client's bucket is full
by the time it is forgotten, since one is forgotten only after more than
`Kept`, which fills an empty bucket; hence what the code finds is what `TokenBucket` says is there
(`FoundIsLevel`), and a request touches the bucket of its own client only.

*Accounts.* `Themselves` rests on `IdentityInv`: ids are handed out once, so a session that
outlived its account can never name another one, and between its two reads a
request holds an id whose owner was fixed when it was minted. `WholeUnlessLeft` adds
`WholeInv`: while the server is up every account is named, unless it is being made or was
left just now; it has its quota even while the server is down, unless it was ever left; and
a request that is making one has got as far as its line says (`MadeSoFar`). A boot names the accounts without a profile one after the other, a
recursive function whose values `EnsuredNames` has by induction on the steps. Its other
half, `GoneInv`, says that an id without an account has no rows: a request that read the
account before it went finds at its write that it is gone (`GoneRequests`), since the
foreign keys are enforced, and a deletion takes all rows in one statement (`GoneDeleted`).

*Migrations.* `MigrationFinished` rests on `MigrationInv`: attempts of a kind are gathered
under one test of that kind, all of them in one statement (`Kinds`); what is done by the line
the start stands at (`Progress`), wherever a start before it died; each old conversation
is in its chats at most once (`CarriedOnce`), though chats come and go afterwards; and in the
studies whose chats nobody has changed since it is there, in full (`CarryInv`, for `CarriedOver`).

*Standings.* `CountersAddUp` rests on `Balanced`, which relates one learner's row of
counters to what was created and spent, what is about to be recorded and what was lost.
With the row it is a pair of inequalities; without it, every token so far is early, and
so is every study, unless the process is down and they are from before there were counters. Only in that form is it kept by a backfill
between any two writes. `Unseen` says that nothing of an account is there before it is.
`BoardsExact` needs no more of the state than its types, and is about the queries:
each row is in exactly one month (`MonthIs`), so the months partition a table and their
sums add up (`SumOfClasses`); finitely many entries can be sorted (`Sorted`), so that
everyone on a board has one place (`BoardIsPlaced`), and as many learners as there are
places before it have not done worse (`FirstPlaces`); and the rank by the sum is never above
the rounded mean (`RankIs`).

The sums are the library's folds over finite sets. The section "Sums over finite sets"
has what the proofs need of them (`SumApart`, `SumChanged`, `SumWithin`, `SumAtLeast`,
`SumOfClasses`). The theorems of induction in the library take an operator as
a parameter, which the installed provers cannot instantiate; instead the proofs take a
least counterexample, the least number that fails (`LeastIn`) or a set that fails
while none with one element less does (`LeastSet`). That a recursive function exists at all
comes from `StepsExist`, a sequence of steps of any finite length.

## 7. Only model-checked, and why

* Liveness (`EventuallySettled`, `SlotReleased`, `JobSettles`, `WorkEnds`): outside
  the prover's reach.

Every invariant and action property that a run checks is stated by a theorem. Where the
theorem asks for more than the specification, it says so: `FewCalls` (there are finitely
many calls), and `Alone` (no learner's requests overlap) for three properties of a study's quiz.

The other way round, some theorems are about properties no run checks, because
another property of the run covers them: `OneTurnPerKey` (the life cycle has one
turn per key), `SingleFlight` (`SlotHeld` is more), `RankedResultKept` and
`CompletedOnceAlone` (`RankedResultAgrees`, `FinishedForGood`), `HistoryKept`
(`OneInProgress`, `CountedOnce`), `LatestActivities`, `Homed`, `HistoryGrows`, and
the type invariants.

## 8. Not modelled

* The validators of learning elements and learning apps (`elements/`,
  `learningapps/`): pure functions on
  nested JSON without state, better tested on examples than enumerated.
* Web search (`websearch/`): an HTTP client and a text reducer. `QuizGen` knows that
  a search finds some number of sources or fails.
* Templates, pages and wording (`components/`, most of `handlers/studies.go`): they
  render state and change none. The one page that does (`StudyPage`, which sets the
  phase) is in `StudyQuiz`.
* Passwords, signatures and CSRF tokens: a verdict (`Accounts`), as is the cookie of
  an older host name.
* The fields of a profile and their visibility, names of files and titles of chats, excerpts of notes:
  data no decision of the modelled code depends on.
* The creation of a study or of a test definition: insertions of validated input.
* Responses to the browser, but for the job's polling (`QuizJobs`) and the editor of
  the mind map (`MindMap`), which keep state of their own.
