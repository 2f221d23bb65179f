------------------------------- MODULE QuizJobs -------------------------------
(***************************************************************************)
(* The manager of background jobs, src/internal/quizjobs/manager.go, and   *)
(* the browser that polls one (watchQuizJob of src/static/app.js).  A job  *)
(* is two goroutines, the work and its heartbeat; everything they share is *)
(* the map under the manager's mutex, so a critical section is one step.   *)
(* Time is counted in heartbeats.  The progress figures of a report are    *)
(* left out: they are shown and decide nothing.                            *)
(***************************************************************************)
EXTENDS Naturals, Sequences

CONSTANTS
    Jobs,         \* job ids: newID is random, so an id is used once
    Retention,    \* Manager.retention
    Limit,        \* Manager.activityLimit
    MaxTime,      \* bound: the clock stops here
    MaxReports,   \* bound: messages one job reports
    MaxRestarts,  \* bound: restarts of the process
    None

ASSUME QuizJobsAssumption ==
    /\ Retention \in Nat \ {0} /\ Limit \in Nat \ {0}
    /\ MaxTime \in Nat /\ MaxReports \in Nat /\ MaxRestarts \in Nat
    /\ None \notin Nat

VARIABLES
    now,       \* the clock
    jobs,      \* [Jobs -> Snapshot]: Manager.jobs
    work,      \* [Jobs -> WorkPCs]: where the goroutine of Start stands
    outcome,   \* [Jobs -> ...]: what work returned
    beat,      \* [Jobs -> {off, wait, write}]: where heartbeat stands
    ticked,    \* [Jobs -> BOOLEAN]: a tick waits in the ticker's channel
    watch,     \* [Jobs -> Watches]: where watchQuizJob stands, in the browser that started the job
    restarts,  \* restarts so far
    said,      \* [Jobs -> Nat]: messages the job reported (history)
    ended,     \* [Jobs -> Nat or None]: when its outcome was recorded (history)
    lost       \* jobs a restart took away (history)

goroutines == <<work, outcome, beat, ticked>>
histories  == <<said, ended, lost>>
vars == <<now, jobs, work, outcome, beat, ticked, watch, restarts, said, ended, lost>>

Terminal == {"succeeded", "failed"}
NoJob    == [status |-> "none", updated |-> 0, heartbeat |-> 0, activities |-> <<>>]
Snapshot == [status : {"none", "queued", "running"} \cup Terminal, updated : Nat,
             heartbeat : Nat, activities : Seq(Nat)]
WorkPCs  == {"none", "spawned", "working", "returned", "over"}
Polling  == {"queued", "running", "unread"}
Watches  == {"none", "interrupted"} \cup Polling \cup Terminal
Known    == {j \in Jobs : jobs[j].status # "none"}

TypeOK ==
    /\ now \in 0..MaxTime
    /\ jobs \in [Jobs -> Snapshot]
    /\ \A j \in Jobs : /\ Len(jobs[j].activities) <= Limit
                       /\ jobs[j].heartbeat <= jobs[j].updated /\ jobs[j].updated <= now
    /\ work \in [Jobs -> WorkPCs]
    /\ outcome \in [Jobs -> Terminal \cup {None}]
    /\ beat \in [Jobs -> {"off", "wait", "write"}]
    /\ ticked \in [Jobs -> BOOLEAN]
    /\ watch \in [Jobs -> Watches]
    /\ restarts \in 0..MaxRestarts
    /\ said \in [Jobs -> Nat]
    /\ ended \in [Jobs -> Nat \cup {None}]
    /\ lost \subseteq Jobs

Init ==
    /\ now = 0
    /\ jobs = [j \in Jobs |-> NoJob]
    /\ work = [j \in Jobs |-> "none"]
    /\ outcome = [j \in Jobs |-> None]
    /\ beat = [j \in Jobs |-> "off"]
    /\ ticked = [j \in Jobs |-> FALSE]
    /\ watch = [j \in Jobs |-> "none"]
    /\ restarts = 0
    /\ said = [j \in Jobs |-> 0]
    /\ ended = [j \in Jobs |-> None]
    /\ lost = {}

-----------------------------------------------------------------------------
(* The map *)

\* Mutant: a job without a recent heartbeat is deleted, whatever its status.
StaleByHeartbeat(s) == s.status # "none" /\ now - s.heartbeat > Retention

\* What pruneLocked deletes.
Stale(s) == s.status \in Terminal /\ now - s.updated > Retention

Pruned == [j \in Jobs |-> IF Stale(jobs[j]) THEN NoJob ELSE jobs[j]]

\* Mutant: an update of a job that is not there makes one.
UpdatedAnyway(j, st, hb, a) ==
    [jobs EXCEPT ![j] = [status |-> IF st = "none" THEN "running" ELSE st, updated |-> now,
                         heartbeat |-> hb, activities |-> a]]

\* update: job j as it is now; a job that is not there stays away.
Updated(j, st, hb, a) ==
    IF j \in Known
    THEN [jobs EXCEPT ![j] = [status |-> st, updated |-> now, heartbeat |-> hb, activities |-> a]]
    ELSE jobs

\* Start: the caller of quizJobs.Start holds the browser's request.
Start(j) ==
    /\ work[j] = "none"
    /\ jobs' = [Pruned EXCEPT ![j] = [status |-> "queued", updated |-> now,
                                      heartbeat |-> now, activities |-> <<>>]]
    /\ work' = [work EXCEPT ![j] = "spawned"]
    /\ watch' = [watch EXCEPT ![j] = "queued"]
    /\ UNCHANGED <<now, outcome, beat, ticked, restarts>>
    /\ UNCHANGED histories

\* The body of the answer about a job of status s: writeJSON, or the plain text of
\* http.NotFound.
Body(s) == IF s = "none" THEN "text" ELSE "json"

\* watchQuizJob parses the body before it looks at the status code: a body it cannot
\* parse is taken for a lost connection, and asked for again.
Reaction(s) ==
    IF Body(s) # "json" THEN "unread" ELSE IF s = "none" THEN "interrupted" ELSE s

\* Get by the owner: watchQuizJob polls until it is told an end.
Poll(j) ==
    /\ watch[j] \in Polling
    /\ jobs' = Pruned
    /\ watch' = [watch EXCEPT ![j] = Reaction(Pruned[j].status)]
    /\ UNCHANGED <<now, goroutines, restarts, histories>>

\* Get by anyone else prunes too, and finds nothing.
Get ==
    /\ jobs' = Pruned
    /\ UNCHANGED <<now, goroutines, watch, restarts, histories>>

-----------------------------------------------------------------------------
(* The goroutine of Start *)

Run(j) ==
    /\ work[j] = "spawned"
    /\ jobs' = Updated(j, "running", jobs[j].heartbeat, jobs[j].activities)
    /\ work' = [work EXCEPT ![j] = "working"]
    /\ beat' = [beat EXCEPT ![j] = "wait"]
    /\ UNCHANGED <<now, outcome, ticked, watch, restarts, histories>>

\* The latest activityLimit activities.
Trim(a) == IF Len(a) > Limit THEN SubSeq(a, Len(a) - Limit + 1, Len(a)) ELSE a

\* report, with a message or without one.
Report(j) ==
    /\ work[j] = "working" /\ said[j] < MaxReports
    /\ \/ /\ jobs' = Updated(j, jobs[j].status, now,
                             Trim(Append(jobs[j].activities, said[j] + 1)))
          /\ said' = [said EXCEPT ![j] = @ + 1]
       \/ /\ jobs' = Updated(j, jobs[j].status, jobs[j].heartbeat, jobs[j].activities)
          /\ UNCHANGED said
    /\ UNCHANGED <<now, goroutines, watch, restarts, ended, lost>>

\* work returns, and the channel done is closed.
Return(j, o) ==
    /\ work[j] = "working"
    /\ outcome' = [outcome EXCEPT ![j] = o]
    /\ work' = [work EXCEPT ![j] = "returned"]
    /\ UNCHANGED <<now, jobs, beat, ticked, watch, restarts, histories>>

\* Mutant: an error is not recorded.
EndUnfailed(j) ==
    /\ work[j] = "returned"
    /\ jobs' = IF outcome[j] = "failed" THEN jobs
               ELSE Updated(j, outcome[j], jobs[j].heartbeat, jobs[j].activities)
    /\ work' = [work EXCEPT ![j] = "over"]
    /\ ended' = [ended EXCEPT ![j] = now]
    /\ UNCHANGED <<now, outcome, beat, ticked, watch, restarts, said, lost>>

\* The outcome is recorded.
End(j) ==
    /\ work[j] = "returned"
    /\ jobs' = Updated(j, outcome[j], jobs[j].heartbeat, jobs[j].activities)
    /\ work' = [work EXCEPT ![j] = "over"]
    /\ ended' = [ended EXCEPT ![j] = now]
    /\ UNCHANGED <<now, outcome, beat, ticked, watch, restarts, said, lost>>

-----------------------------------------------------------------------------
(* The goroutine of heartbeat *)

Closed(j) == work[j] \in {"returned", "over"}

\* The select takes the tick, even where done is closed as well.
BeatTick(j) ==
    /\ beat[j] = "wait" /\ ticked[j]
    /\ beat' = [beat EXCEPT ![j] = "write"]
    /\ ticked' = [ticked EXCEPT ![j] = FALSE]
    /\ UNCHANGED <<now, jobs, work, outcome, watch, restarts, histories>>

BeatWrite(j) ==
    /\ beat[j] = "write"
    /\ jobs' = Updated(j, jobs[j].status, now, jobs[j].activities)
    /\ beat' = [beat EXCEPT ![j] = "wait"]
    /\ UNCHANGED <<now, work, outcome, ticked, watch, restarts, histories>>

\* The select takes done, even where a tick waits as well.
BeatDone(j) ==
    /\ beat[j] = "wait" /\ Closed(j)
    /\ beat' = [beat EXCEPT ![j] = "off"]
    /\ ticked' = [ticked EXCEPT ![j] = FALSE]
    /\ UNCHANGED <<now, jobs, work, outcome, watch, restarts, histories>>

-----------------------------------------------------------------------------
(* The clock, and the process *)

\* A ticker's channel holds one tick.
Tick ==
    /\ now < MaxTime
    /\ now' = now + 1
    /\ ticked' = [j \in Jobs |-> beat[j] # "off"]
    /\ UNCHANGED <<jobs, work, outcome, beat, watch, restarts, histories>>

Restart ==
    /\ restarts < MaxRestarts
    /\ restarts' = restarts + 1
    /\ lost' = lost \cup Known
    /\ jobs' = [j \in Jobs |-> NoJob]
    /\ work' = [j \in Jobs |-> IF work[j] = "none" THEN "none" ELSE "over"]
    /\ beat' = [j \in Jobs |-> "off"]
    /\ ticked' = [j \in Jobs |-> FALSE]
    /\ UNCHANGED <<now, outcome, watch, said, ended>>

Work(j)      == Run(j) \/ (\E o \in Terminal : Return(j, o)) \/ End(j)
Heartbeat(j) == BeatTick(j) \/ BeatWrite(j) \/ BeatDone(j)

Next ==
    \/ \E j \in Jobs : Start(j) \/ Poll(j) \/ Work(j) \/ Report(j) \/ Heartbeat(j)
    \/ Get \/ Tick \/ Restart

\* A goroutine that can run does; the work of a job returns (its context ends it after
\* 15 minutes); a select that may take done again and again takes it at last; the loop
\* of the browser polls.
Fairness ==
    \A j \in Jobs : /\ WF_vars(Work(j)) /\ WF_vars(Poll(j))
                    /\ WF_vars(BeatWrite(j)) /\ SF_vars(BeatDone(j))

Spec == Init /\ [][Next]_vars /\ Fairness

-----------------------------------------------------------------------------
(* Properties *)

\* What the browser is told is true: an end is the one the work came to; and a 404
\* means that a restart took the job, or that it ended longer than the retention ago.
\* No late heartbeat and no pruning takes away a job before.
ToldTruth ==
    \A j \in Jobs :
        /\ watch[j] \in Terminal => watch[j] = outcome[j]
        /\ watch[j] \in {"unread", "interrupted"} =>
              j \in lost \/ (ended[j] # None /\ now - ended[j] > Retention)

\* The explanation of a job is its latest messages, in the order they were reported.
LatestActivities ==
    \A j \in Known :
        LET a == jobs[j].activities IN
        /\ Len(a) = IF said[j] < Limit THEN said[j] ELSE Limit
        /\ \A k \in DOMAIN a : a[k] = said[j] - Len(a) + k

\* A job that was accepted comes to an end, or the process does; and its heartbeat
\* stops after it, even where its select prefers ticks: a late tick is written, but the
\* goroutine does not go on for ever.
JobSettles ==
    \A j \in Jobs :
        /\ jobs[j].status \in {"queued", "running"} ~> jobs[j].status \in Terminal \/ j \in lost
        /\ work[j] = "over" ~> beat[j] = "off"

\* The browser that waits for a job is told an end, or that the job was interrupted:
\* what the branch for a 404 in watchQuizJob is there for (app.js:750-753).
WatchEnds == \A j \in Jobs : watch[j] \in Polling ~> watch[j] \in Terminal \cup {"interrupted"}

\* A job as JobLifecycle sees it.
Phase(j) ==
    CASE j \in Known -> jobs[j].status
      [] j \notin Known /\ work[j] = "none" -> "absent"
      [] OTHER -> "gone"

Lifecycle == INSTANCE JobLifecycle WITH Ids <- Jobs, phase <- [j \in Jobs |-> Phase(j)]

\* However the two goroutines, the polls and the clock interleave: an end is final, an
\* unfinished job is never forgotten while the process lives, and none comes back.
ImplementsLifecycle == Lifecycle!Spec

=============================================================================
