--------------------------- MODULE QuizJobsProofs ---------------------------
(* Theorems about QuizJobs, for any number of jobs, any retention and any     *)
(* limit of activities.                                                       *)
EXTENDS QuizJobs, SequenceTheorems, TLAPS

-----------------------------------------------------------------------------
(* Snapshots *)

\* A step that writes the snapshot of job j, if it is still there.
Wrote(j, st, hb, a) ==
    /\ jobs' \in [Jobs -> Snapshot]
    /\ \A k \in Jobs \ {j} : jobs'[k] = jobs[k]
    /\ j \in Known => /\ jobs'[j].status = st /\ jobs'[j].updated = now
                      /\ jobs'[j].heartbeat = hb /\ jobs'[j].activities = a
    /\ j \notin Known => jobs'[j] = jobs[j]

LEMMA UpdatedWrites ==
    ASSUME TypeOK, NEW j \in Jobs, NEW st \in {"none", "queued", "running"} \cup Terminal,
           NEW hb \in Nat, NEW a \in Seq(Nat), jobs' = Updated(j, st, hb, a)
    PROVE  Wrote(j, st, hb, a)
<1>1. now \in Nat /\ jobs \in [Jobs -> Snapshot]
  BY DEF TypeOK
<1> DEFINE r == [status |-> st, updated |-> now, heartbeat |-> hb, activities |-> a]
<1>2. /\ r \in Snapshot /\ r.status = st /\ r.updated = now /\ r.heartbeat = hb
      /\ r.activities = a
  BY <1>1 DEF Snapshot
<1>3. jobs' = IF j \in Known THEN [jobs EXCEPT ![j] = r] ELSE jobs
  BY DEF Updated
<1> HIDE DEF r
<1>4. QED
  BY <1>1, <1>2, <1>3 DEF Wrote

-----------------------------------------------------------------------------
(* The activities *)

\* The latest activities of a job that reported n messages.
Latest(a, n) ==
    /\ Len(a) = IF n < Limit THEN n ELSE Limit
    /\ \A k \in 1..Len(a) : a[k] = n - Len(a) + k

\* Appending the next message and trimming keeps the latest.
LEMMA TrimLatest ==
    ASSUME NEW a \in Seq(Nat), NEW n \in Nat, Latest(a, n)
    PROVE  LET b == Trim(Append(a, n + 1)) IN b \in Seq(Nat) /\ Latest(b, n + 1)
<1> DEFINE c == Append(a, n + 1)
           b == Trim(c)
<1>1. /\ c \in Seq(Nat) /\ Len(c) = Len(a) + 1 /\ c[Len(a) + 1] = n + 1
      /\ \A k \in 1..Len(a) : c[k] = a[k]
  BY AppendProperties
<1>2. Len(a) \in Nat /\ Limit \in Nat /\ Limit > 0 /\ Len(a) <= Limit
  BY QuizJobsAssumption DEF Latest
<1> HIDE DEF c
<1>3. \A k \in 1..Len(c) : c[k] = n - Len(a) + k
  <2> SUFFICES ASSUME NEW k \in 1..Len(c) PROVE c[k] = n - Len(a) + k
    OBVIOUS
  <2>1. CASE k \in 1..Len(a)
    BY <1>1, <2>1 DEF Latest
  <2>2. CASE k = Len(a) + 1
    BY <1>1, <1>2, <2>2
  <2>3. QED
    BY <1>1, <1>2, <2>1, <2>2
<1>4. CASE Len(c) <= Limit
  <2>1. b = c /\ Len(a) = n /\ Len(c) = n + 1
    BY <1>1, <1>2, <1>4 DEF Latest, Trim
  <2> HIDE DEF b
  <2>2. \A k \in 1..Len(b) : b[k] = (n + 1) - Len(b) + k
    BY <1>3, <2>1
  <2>3. Len(b) = IF n + 1 < Limit THEN n + 1 ELSE Limit
    BY <1>2, <1>4, <2>1
  <2>4. QED
    BY <1>1, <2>1, <2>2, <2>3 DEF b, c, Latest
<1>5. CASE Len(c) > Limit
  <2>1. Len(a) = Limit /\ Len(c) = Limit + 1 /\ n >= Limit
    BY <1>1, <1>2, <1>5 DEF Latest
  <2>2. b = SubSeq(c, 2, Limit + 1)
    BY <1>2, <1>5, <2>1 DEF Trim
  <2>3. \A i \in 2..(Limit + 1) : c[i] \in Nat
    BY <1>1, <1>2, <2>1
  <2>4. /\ b \in Seq(Nat) /\ Len(b) = Limit
        /\ \A k \in 1..Limit : b[k] = c[k + 1]
    <3> HIDE DEF b
    <3>1. /\ b \in Seq(Nat) /\ Len(b) = IF 2 <= Limit + 1 THEN (Limit + 1) - 2 + 1 ELSE 0
          /\ \A k \in 1..((Limit + 1) - 2 + 1) : b[k] = c[2 + k - 1]
      BY <1>2, <2>2, <2>3, SubSeqProperties
    <3>2. Len(b) = Limit /\ (Limit + 1) - 2 + 1 = Limit
      BY <1>2, <3>1
    <3>3. \A k \in 1..Limit : b[k] = c[k + 1]
      <4> SUFFICES ASSUME NEW k \in 1..Limit PROVE b[k] = c[k + 1]
        OBVIOUS
      <4>1. b[k] = c[2 + k - 1] /\ 2 + k - 1 = k + 1
        BY <1>2, <3>1, <3>2
      <4>2. QED
        BY <4>1
    <3>4. QED
      BY <3>1, <3>2, <3>3
  <2> HIDE DEF b
  <2>5. \A k \in 1..Limit : b[k] = (n + 1) - Limit + k
    <3> SUFFICES ASSUME NEW k \in 1..Limit PROVE b[k] = (n + 1) - Limit + k
      OBVIOUS
    <3>1. k + 1 \in 1..Len(c) /\ b[k] = c[k + 1]
      BY <1>2, <2>1, <2>4
    <3>2. c[k + 1] = n - Limit + (k + 1)
      BY <1>3, <2>1, <3>1
    <3>3. QED
      BY <1>2, <3>1, <3>2
  <2>6. Len(b) = IF n + 1 < Limit THEN n + 1 ELSE Limit
    BY <1>2, <2>1, <2>4
  <2>7. QED
    BY <2>4, <2>5, <2>6 DEF b, c, Latest
<1>6. QED
  BY <1>1, <1>2, <1>4, <1>5

-----------------------------------------------------------------------------
(* The inductive invariant *)

\* A job that is not there any more went with a restart, or ended long ago.
Gone(j) == j \in lost \/ (ended[j] # None /\ now - ended[j] > Retention)

\* Where the goroutine of job j stands, and what its snapshot says.
Stands(j) ==
    /\ work[j] = "none" => jobs[j].status = "none" /\ said[j] = 0 /\ ended[j] = None
    /\ work[j] = "spawned" => jobs[j].status = "queued"
    /\ work[j] \in {"working", "returned"} => jobs[j].status = "running"
    /\ work[j] = "returned" => outcome[j] \in Terminal
    /\ work[j] = "over" /\ jobs[j].status # "none" =>
          jobs[j].status = outcome[j] /\ outcome[j] \in Terminal /\ ended[j] # None

\* A job that is not there has ended, and the clock went on since a job ended.
Ends(j) ==
    /\ work[j] # "none" /\ jobs[j].status = "none" => Gone(j)
    /\ work[j] = "over" /\ jobs[j].status # "none" => ended[j] <= jobs[j].updated
    /\ ended[j] # None => ended[j] <= now

\* What the browser was told.
Told(j) ==
    /\ work[j] = "none" => watch[j] = "none"
    /\ watch[j] \in Terminal => watch[j] = outcome[j] /\ work[j] = "over"
    /\ watch[j] \in {"unread", "interrupted"} => Gone(j) /\ work[j] = "over"

\* What the snapshot keeps of the messages.
Keeps(j) == jobs[j].status # "none" => Latest(jobs[j].activities, said[j])

\* The bounds of the types.
Bounded(j) ==
    /\ Len(jobs[j].activities) <= Limit
    /\ jobs[j].heartbeat <= jobs[j].updated /\ jobs[j].updated <= now

Agrees(j) == Stands(j) /\ Ends(j) /\ Told(j) /\ Keeps(j)

JobInv == \A j \in Jobs : Agrees(j)

IInv == TypeOK /\ JobInv

\* The types of one job, as the steps use them.
LEMMA JobTypes ==
    ASSUME TypeOK, NEW j \in Jobs
    PROVE  /\ now \in Nat /\ jobs[j] \in Snapshot
           /\ jobs[j].status \in {"none", "queued", "running"} \cup Terminal
           /\ jobs[j].updated \in Nat /\ jobs[j].heartbeat \in Nat
           /\ jobs[j].activities \in Seq(Nat) /\ Len(jobs[j].activities) \in Nat
           /\ Len(jobs[j].activities) <= Limit
           /\ jobs[j].heartbeat <= jobs[j].updated /\ jobs[j].updated <= now
           /\ said[j] \in Nat /\ ended[j] \in Nat \cup {None}
           /\ outcome[j] \in Terminal \cup {None}
           /\ Limit \in Nat /\ Retention \in Nat /\ None \notin Nat
BY QuizJobsAssumption DEF TypeOK, Snapshot

LEMMA InitIInv == Init => IInv
<1> SUFFICES ASSUME Init PROVE IInv
  OBVIOUS
<1>1. Limit \in Nat /\ Retention \in Nat /\ MaxTime \in Nat /\ MaxRestarts \in Nat
  BY QuizJobsAssumption
<1>2. /\ NoJob \in Snapshot /\ NoJob.status = "none" /\ NoJob.heartbeat = 0
      /\ NoJob.updated = 0 /\ NoJob.activities = <<>> /\ Len(<<>>) = 0
  BY DEF NoJob, Snapshot
<1>3. TypeOK
  BY <1>1, <1>2 DEF Init, TypeOK, WorkPCs, Watches
<1>4. JobInv
  BY <1>2 DEF Init, JobInv, Agrees, Stands, Ends, Told, Keeps, Terminal
<1>5. QED
  BY <1>3, <1>4 DEF IInv

\* Pruning takes jobs that ended long ago, and touches no other.
LEMMA PrunedJobs ==
    ASSUME IInv
    PROVE  /\ Pruned \in [Jobs -> Snapshot]
           /\ \A j \in Jobs : \/ Pruned[j] = jobs[j]
                              \/ /\ Pruned[j] = NoJob /\ jobs[j].status \in Terminal
                                 /\ Gone(j)
<1>1. NoJob \in Snapshot
  BY DEF NoJob, Snapshot
<1>2. Pruned \in [Jobs -> Snapshot]
  BY <1>1 DEF Pruned, IInv, TypeOK
<1>3. ASSUME NEW j \in Jobs, Stale(jobs[j]) PROVE jobs[j].status \in Terminal /\ Gone(j)
  <2>1. jobs[j].status \in Terminal /\ now - jobs[j].updated > Retention
    BY <1>3 DEF Stale
  <2>2. work[j] = "over" /\ jobs[j].status # "none"
    BY <2>1 DEF IInv, TypeOK, WorkPCs, JobInv, Agrees, Stands, Terminal
  <2>3. ended[j] # None /\ ended[j] <= jobs[j].updated
    BY <2>2 DEF IInv, JobInv, Agrees, Stands, Ends
  <2>4. /\ ended[j] \in Nat /\ jobs[j].updated \in Nat /\ now \in Nat /\ Retention \in Nat
    BY <2>3, JobTypes DEF IInv
  <2>5. now - ended[j] > Retention
    BY <2>1, <2>3, <2>4
  <2>6. QED
    BY <2>1, <2>3, <2>5 DEF Gone
<1>4. QED
  BY <1>2, <1>3 DEF Pruned

\* A job that is pruned or left alone still agrees, where nothing else of it moves.
LEMMA StillAgrees ==
    ASSUME IInv, NEW j \in Jobs, jobs'[j] \in {jobs[j], Pruned[j]}, now' = now,
           work'[j] = work[j], outcome'[j] = outcome[j], said'[j] = said[j],
           ended'[j] = ended[j], lost' = lost,
           \/ watch'[j] = watch[j]
           \/ watch[j] \in Polling /\ jobs'[j] = Pruned[j] /\ watch'[j] = Reaction(Pruned[j].status)
    PROVE  Agrees(j)' /\ Bounded(j)'
<1>1. Stands(j) /\ Ends(j) /\ Told(j) /\ Keeps(j) /\ work[j] \in WorkPCs
  BY DEF IInv, JobInv, Agrees, TypeOK
<1>2. Gone(j)' <=> Gone(j)
  BY DEF Gone
<1>3. NoJob.status = "none" /\ NoJob.heartbeat = 0 /\ NoJob.updated = 0 /\ NoJob.activities = <<>>
  BY DEF NoJob
<1>4. \/ jobs'[j] = jobs[j]
      \/ jobs'[j] = NoJob /\ jobs[j].status \in Terminal /\ Gone(j)
  BY PrunedJobs
<1>5. Bounded(j)' /\ Stands(j)' /\ Ends(j)' /\ Keeps(j)'
  <2>1. CASE jobs'[j] = jobs[j]
    BY <1>1, <1>2, <2>1, JobTypes DEF IInv, Bounded, Stands, Ends, Keeps
  <2>2. CASE jobs'[j] = NoJob /\ jobs[j].status \in Terminal /\ Gone(j)
    <3>1. work[j] = "over" /\ jobs'[j].status = "none"
      BY <1>1, <1>3, <2>2 DEF Stands, WorkPCs, Terminal
    <3>2. Stands(j)' /\ Keeps(j)'
      BY <3>1 DEF Stands, Keeps
    <3>3. Ends(j)'
      BY <1>1, <1>2, <2>2, <3>1 DEF Ends
    <3>4. Len(<<>>) = 0 /\ Limit \in Nat /\ now \in Nat
      BY JobTypes DEF IInv
    <3>5. Bounded(j)'
      BY <1>3, <2>2, <3>4 DEF Bounded
    <3>6. QED
      BY <3>2, <3>3, <3>5
  <2>3. QED
    BY <1>4, <2>1, <2>2
<1>6. Told(j)'
  <2>1. CASE watch'[j] = watch[j]
    BY <1>1, <1>2, <2>1 DEF Told
  <2>2. CASE /\ watch[j] \in Polling /\ jobs'[j] = Pruned[j]
             /\ watch'[j] = Reaction(Pruned[j].status)
    <3>0. watch'[j] = IF jobs'[j].status = "none" THEN "unread" ELSE jobs'[j].status
      BY <2>2 DEF Reaction, Body
    <3>1. work[j] # "none"
      BY <1>1, <2>2 DEF Told, Polling
    <3>2. watch'[j] \in {"unread", "interrupted"} => Gone(j)' /\ work'[j] = "over"
      <4>1. jobs'[j].status \notin {"unread", "interrupted"}
        BY <1>3, <1>4, JobTypes DEF IInv, Terminal
      <4>2. watch'[j] \in {"unread", "interrupted"} => jobs'[j].status = "none"
        BY <3>0, <4>1
      <4>3. QED
        BY <1>1, <1>5, <3>1, <4>2 DEF Stands, Ends, WorkPCs
    <3>3. watch'[j] \in Terminal => watch'[j] = outcome'[j] /\ work'[j] = "over"
      <4>1. SUFFICES ASSUME watch'[j] \in Terminal
                     PROVE  watch'[j] = outcome'[j] /\ work'[j] = "over"
        OBVIOUS
      <4>2. jobs'[j].status = watch'[j] /\ jobs'[j].status \in Terminal
        BY <3>0, <4>1 DEF Terminal
      <4>3. work'[j] = "over"
        BY <1>1, <1>5, <4>2 DEF Stands, WorkPCs, Terminal
      <4>4. jobs'[j].status = outcome'[j]
        BY <1>5, <4>2, <4>3 DEF Stands, Terminal
      <4>5. QED
        BY <4>2, <4>3, <4>4
    <3>4. QED
      BY <3>1, <3>2, <3>3 DEF Told
  <2>3. QED
    BY <2>1, <2>2
<1>7. QED
  BY <1>5, <1>6 DEF Agrees

-----------------------------------------------------------------------------
(* The steps *)

\* The types of everything but the snapshots.
Shapes ==
    /\ now \in 0..MaxTime
    /\ work \in [Jobs -> WorkPCs]
    /\ outcome \in [Jobs -> Terminal \cup {None}]
    /\ beat \in [Jobs -> {"off", "wait", "write"}]
    /\ ticked \in [Jobs -> BOOLEAN]
    /\ watch \in [Jobs -> Watches]
    /\ restarts \in 0..MaxRestarts
    /\ said \in [Jobs -> Nat]
    /\ ended \in [Jobs -> Nat \cup {None}]
    /\ lost \subseteq Jobs

\* A step that moves job j only.
OnlyMoves(j) ==
    /\ now' = now /\ lost' = lost
    /\ \A k \in Jobs \ {j} :
          /\ jobs'[k] \in {jobs[k], Pruned[k]} /\ work'[k] = work[k] /\ watch'[k] = watch[k]
          /\ outcome'[k] = outcome[k] /\ said'[k] = said[k] /\ ended'[k] = ended[k]

\* The invariant is kept where the snapshots, the bounds and that job keep it.
LEMMA OneJob ==
    ASSUME IInv, NEW j \in Jobs, Shapes', jobs' \in [Jobs -> Snapshot], OnlyMoves(j),
           Agrees(j)', Bounded(j)'
    PROVE  IInv'
<1>1. ASSUME NEW k \in Jobs \ {j} PROVE Agrees(k)' /\ Bounded(k)'
  BY StillAgrees DEF OnlyMoves
<1>2. \A k \in Jobs : Agrees(k)' /\ Bounded(k)'
  BY <1>1
<1>3. QED
  BY <1>2 DEF IInv, TypeOK, JobInv, Shapes, Bounded

LEMMA ShapesKept == IInv /\ [Next]_vars => Shapes'
<1> SUFFICES ASSUME IInv, [Next]_vars PROVE Shapes'
  OBVIOUS
<1>1. Shapes /\ QuizJobsAssumption
  BY QuizJobsAssumption DEF IInv, TypeOK, Shapes
<1> USE DEF Shapes, Terminal, Watches, Polling
<1>2. ASSUME NEW j \in Jobs, Start(j) PROVE Shapes'
  BY <1>1, <1>2 DEF Start, histories, WorkPCs
<1>3. ASSUME NEW j \in Jobs, Poll(j) PROVE Shapes'
  <2>1. Pruned \in [Jobs -> Snapshot]
    BY PrunedJobs
  <2>2. Pruned[j].status \in {"none", "queued", "running", "succeeded", "failed"}
    BY <2>1 DEF Snapshot
  <2> DEFINE w == Reaction(Pruned[j].status)
  <2>3. w \in Watches
    BY <2>2 DEF Reaction, Body, Watches, Polling
  <2>4. watch' = [watch EXCEPT ![j] = w]
    BY <1>3 DEF Poll
  <2> HIDE DEF w
  <2>5. watch' \in [Jobs -> Watches]
    BY <1>1, <2>3, <2>4
  <2>6. QED
    BY <1>1, <1>3, <2>5 DEF Poll, goroutines, histories
<1>4. CASE Get
  BY <1>1, <1>4 DEF Get, goroutines, histories
<1>5. ASSUME NEW j \in Jobs, Run(j) PROVE Shapes'
  BY <1>1, <1>5 DEF Run, histories, WorkPCs
<1>6. ASSUME NEW j \in Jobs, Report(j) PROVE Shapes'
  BY <1>1, <1>6 DEF Report, goroutines
<1>7. ASSUME NEW j \in Jobs, NEW o \in Terminal, Return(j, o) PROVE Shapes'
  BY <1>1, <1>7 DEF Return, histories, WorkPCs
<1>8. ASSUME NEW j \in Jobs, End(j) PROVE Shapes'
  BY <1>1, <1>8, QuizJobsAssumption DEF End, WorkPCs
<1>9. ASSUME NEW j \in Jobs, Heartbeat(j) PROVE Shapes'
  BY <1>1, <1>9 DEF Heartbeat, BeatTick, BeatWrite, BeatDone, histories
<1>10. CASE Tick
  BY <1>1, <1>10, QuizJobsAssumption DEF Tick, histories
<1>11. CASE Restart
  BY <1>1, <1>11, QuizJobsAssumption DEF Restart, WorkPCs, Known
<1>12. CASE UNCHANGED vars
  BY <1>1, <1>12 DEF vars
<1>13. QED
  BY <1>2, <1>3, <1>4, <1>5, <1>6, <1>7, <1>8, <1>9, <1>10, <1>11, <1>12 DEF Next, Work

-----------------------------------------------------------------------------
(* One lemma per action that moves a job *)

LEMMA StartKeeps == ASSUME IInv, Shapes', NEW j \in Jobs, Start(j) PROVE IInv'
<1> DEFINE r == [status |-> "queued", updated |-> now, heartbeat |-> now, activities |-> <<>>]
<1>1. /\ r \in Snapshot /\ r.status = "queued" /\ r.updated = now /\ r.heartbeat = now
      /\ r.activities = <<>> /\ Len(<<>>) = 0
  BY DEF IInv, TypeOK, Snapshot
<1>2. jobs' = [Pruned EXCEPT ![j] = r]
  BY DEF Start
<1> HIDE DEF r
<1>3. jobs' \in [Jobs -> Snapshot] /\ jobs'[j] = r /\ \A k \in Jobs \ {j} : jobs'[k] = Pruned[k]
  BY <1>1, <1>2, PrunedJobs
<1>4. OnlyMoves(j)
  BY <1>3 DEF Start, histories, OnlyMoves, IInv, TypeOK
<1>5. Limit \in Nat /\ Limit > 0 /\ now \in Nat
  BY QuizJobsAssumption, JobTypes DEF IInv
<1>6. Bounded(j)'
  BY <1>1, <1>3, <1>5 DEF Bounded, Start
<1>7. /\ work'[j] = "spawned" /\ watch'[j] = "queued" /\ said'[j] = 0 /\ ended'[j] = None
  BY DEF Start, histories, IInv, TypeOK, JobInv, Agrees, Stands
<1>8. Latest(<<>>, 0)
  BY <1>1, <1>5 DEF Latest
<1>9. Agrees(j)'
  BY <1>1, <1>3, <1>7, <1>8 DEF Agrees, Stands, Ends, Told, Keeps, Terminal
<1>10. QED
  BY <1>3, <1>4, <1>6, <1>9, OneJob

LEMMA RunKeeps == ASSUME IInv, Shapes', NEW j \in Jobs, Run(j) PROVE IInv'
<1>1. Wrote(j, "running", jobs[j].heartbeat, jobs[j].activities)
  BY UpdatedWrites, JobTypes DEF Run, IInv
<1>2. Stands(j) /\ Ends(j) /\ Told(j) /\ Keeps(j) /\ Bounded(j)
  BY DEF IInv, TypeOK, JobInv, Agrees, Bounded
<1>3. j \in Known
  BY <1>2 DEF Run, Stands, Known
<1>4. /\ jobs'[j].status = "running" /\ jobs'[j].updated = now
      /\ jobs'[j].heartbeat = jobs[j].heartbeat /\ jobs'[j].activities = jobs[j].activities
  BY <1>1, <1>3 DEF Wrote
<1>5. OnlyMoves(j)
  BY <1>1 DEF Wrote, Run, histories, OnlyMoves, IInv, TypeOK
<1>6. Bounded(j)'
  BY <1>2, <1>4, JobTypes DEF Run, Bounded, IInv
<1>7. /\ work[j] = "spawned" /\ work'[j] = "working" /\ watch'[j] = watch[j] /\ now' = now
      /\ said'[j] = said[j] /\ ended'[j] = ended[j] /\ lost' = lost /\ outcome'[j] = outcome[j]
  BY DEF Run, histories, IInv, TypeOK
<1>8. Gone(j)' <=> Gone(j)
  BY <1>7 DEF Gone
<1>9. Stands(j)' /\ Ends(j)'
  BY <1>2, <1>4, <1>7 DEF Stands, Ends
<1>10. Told(j)'
  BY <1>2, <1>7, <1>8 DEF Told
<1>11. Keeps(j)'
  BY <1>2, <1>3, <1>4, <1>7 DEF Keeps, Known
<1>12. QED
  BY <1>1, <1>5, <1>6, <1>9, <1>10, <1>11, OneJob DEF Wrote, Agrees

\* The two branches of report.
LEMMA ReportKeeps == ASSUME IInv, Shapes', NEW j \in Jobs, Report(j) PROVE IInv'
<1>1. Stands(j) /\ Ends(j) /\ Told(j) /\ Keeps(j) /\ Bounded(j)
  BY DEF IInv, TypeOK, JobInv, Agrees, Bounded
<1>2. /\ work[j] = "working" /\ work'[j] = work[j] /\ watch'[j] = watch[j] /\ now' = now
      /\ ended'[j] = ended[j] /\ lost' = lost /\ outcome'[j] = outcome[j]
  BY DEF Report, goroutines
<1>3. j \in Known /\ jobs[j].status = "running"
  BY <1>1, <1>2 DEF Stands, Known
<1>4. Gone(j)' <=> Gone(j)
  BY <1>2 DEF Gone
<1>5. ASSUME NEW hb \in {now, jobs[j].heartbeat}, NEW a \in Seq(Nat), Wrote(j, "running", hb, a),
             Len(a) <= Limit, Latest(a, said'[j]),
             \A k \in Jobs \ {j} : said'[k] = said[k]
      PROVE  IInv'
  <2>1. /\ jobs'[j].status = "running" /\ jobs'[j].updated = now
        /\ jobs'[j].heartbeat = hb /\ jobs'[j].activities = a
    BY <1>3, <1>5 DEF Wrote
  <2>2. OnlyMoves(j)
    BY <1>5 DEF Wrote, Report, goroutines, OnlyMoves
  <2>3. Bounded(j)'
    BY <1>2, <1>5, <2>1, JobTypes DEF Bounded, IInv
  <2>4. Stands(j)' /\ Ends(j)'
    BY <1>1, <1>2, <2>1 DEF Stands, Ends
  <2>5. Told(j)'
    BY <1>1, <1>2, <1>4 DEF Told
  <2>6. Keeps(j)'
    BY <1>5, <2>1 DEF Keeps
  <2>7. QED
    BY <1>5, <2>2, <2>3, <2>4, <2>5, <2>6, OneJob DEF Wrote, Agrees
<1>6. CASE /\ jobs' = Updated(j, jobs[j].status, now, Trim(Append(jobs[j].activities, said[j] + 1)))
           /\ said' = [said EXCEPT ![j] = @ + 1]
  <2>1. Latest(jobs[j].activities, said[j]) /\ jobs[j].activities \in Seq(Nat) /\ said[j] \in Nat
        /\ now \in Nat /\ Limit \in Nat
    BY <1>1, <1>3, JobTypes DEF Keeps, IInv
  <2>2. PICK a : a = Trim(Append(jobs[j].activities, said[j] + 1))
    OBVIOUS
  <2>3. a \in Seq(Nat) /\ Latest(a, said[j] + 1)
    BY <2>1, <2>2, TrimLatest
  <2>4. Len(a) <= Limit
    BY <2>1, <2>3 DEF Latest
  <2>5. Wrote(j, "running", now, a)
    BY <1>3, <1>6, <2>1, <2>2, <2>3, UpdatedWrites DEF IInv
  <2>6. said'[j] = said[j] + 1 /\ \A k \in Jobs \ {j} : said'[k] = said[k]
    BY <1>6 DEF IInv, TypeOK
  <2>7. QED
    BY <1>5, <2>3, <2>4, <2>5, <2>6
<1>7. CASE /\ jobs' = Updated(j, jobs[j].status, jobs[j].heartbeat, jobs[j].activities)
           /\ UNCHANGED said
  <2>1. Latest(jobs[j].activities, said'[j]) /\ jobs[j].activities \in Seq(Nat)
        /\ jobs[j].heartbeat \in Nat /\ Len(jobs[j].activities) <= Limit
    BY <1>1, <1>3, <1>7, JobTypes DEF Keeps, IInv
  <2>2. Wrote(j, "running", jobs[j].heartbeat, jobs[j].activities)
    BY <1>3, <1>7, <2>1, UpdatedWrites DEF IInv
  <2>3. QED
    BY <1>5, <1>7, <2>1, <2>2
<1>8. QED
  BY <1>6, <1>7 DEF Report

LEMMA ReturnKeeps ==
    ASSUME IInv, Shapes', NEW j \in Jobs, NEW o \in Terminal, Return(j, o) PROVE IInv'
<1>1. Stands(j) /\ Ends(j) /\ Told(j) /\ Keeps(j) /\ Bounded(j)
  BY DEF IInv, TypeOK, JobInv, Agrees, Bounded
<1>2. /\ work[j] = "working" /\ work'[j] = "returned" /\ outcome'[j] = o
      /\ jobs' = jobs /\ now' = now /\ watch' = watch /\ said' = said /\ ended' = ended
      /\ lost' = lost
  BY DEF Return, histories, IInv, TypeOK
<1>3. OnlyMoves(j)
  BY DEF Return, histories, OnlyMoves, IInv, TypeOK
<1>4. Gone(j)' <=> Gone(j)
  BY <1>2 DEF Gone
<1>5. Stands(j)' /\ Ends(j)' /\ Keeps(j)' /\ Bounded(j)'
  BY <1>1, <1>2 DEF Stands, Ends, Keeps, Bounded
<1>6. Told(j)'
  BY <1>1, <1>2, <1>4 DEF Told
<1>7. jobs' \in [Jobs -> Snapshot]
  BY <1>2 DEF IInv, TypeOK
<1>8. QED
  BY <1>3, <1>5, <1>6, <1>7, OneJob DEF Agrees

LEMMA EndKeeps == ASSUME IInv, Shapes', NEW j \in Jobs, End(j) PROVE IInv'
<1>1. Stands(j) /\ Ends(j) /\ Told(j) /\ Keeps(j) /\ Bounded(j)
  BY DEF IInv, TypeOK, JobInv, Agrees, Bounded
<1>2. /\ work[j] = "returned" /\ work'[j] = "over" /\ watch'[j] = watch[j] /\ now' = now
      /\ said'[j] = said[j] /\ ended'[j] = now /\ lost' = lost /\ outcome'[j] = outcome[j]
  BY DEF End, IInv, TypeOK
<1>3. j \in Known /\ outcome[j] \in Terminal
  BY <1>1, <1>2 DEF Stands, Known
<1>4. Wrote(j, outcome[j], jobs[j].heartbeat, jobs[j].activities)
  BY <1>3, UpdatedWrites, JobTypes DEF End, IInv
<1>5. /\ jobs'[j].status = outcome[j] /\ jobs'[j].updated = now
      /\ jobs'[j].heartbeat = jobs[j].heartbeat /\ jobs'[j].activities = jobs[j].activities
  BY <1>3, <1>4 DEF Wrote
<1>6. OnlyMoves(j)
  BY <1>4 DEF Wrote, End, OnlyMoves, IInv, TypeOK
<1>7. now \in Nat /\ now # None
  BY JobTypes DEF IInv
<1>8. Bounded(j)'
  BY <1>1, <1>2, <1>5, JobTypes DEF Bounded, IInv
<1>9. Stands(j)' /\ Ends(j)'
  BY <1>2, <1>3, <1>5, <1>7 DEF Stands, Ends, Terminal
<1>10. Told(j)'
  BY <1>1, <1>2 DEF Told
<1>11. Keeps(j)'
  BY <1>1, <1>2, <1>3, <1>5 DEF Keeps, Known
<1>12. QED
  BY <1>4, <1>6, <1>8, <1>9, <1>10, <1>11, OneJob DEF Wrote, Agrees

\* The write of a heartbeat, whatever became of the job meanwhile.
LEMMA BeatKeeps == ASSUME IInv, Shapes', NEW j \in Jobs, BeatWrite(j) PROVE IInv'
<1>1. Stands(j) /\ Ends(j) /\ Told(j) /\ Keeps(j) /\ Bounded(j)
  BY DEF IInv, TypeOK, JobInv, Agrees, Bounded
<1>2. /\ work' = work /\ watch' = watch /\ now' = now /\ said' = said /\ ended' = ended
      /\ lost' = lost /\ outcome' = outcome
  BY DEF BeatWrite, histories
<1>3. Wrote(j, jobs[j].status, now, jobs[j].activities)
  BY UpdatedWrites, JobTypes DEF BeatWrite, IInv
<1>4. OnlyMoves(j)
  BY <1>2, <1>3 DEF Wrote, OnlyMoves
<1>5. CASE j \notin Known
  <2>1. jobs'[j] = jobs[j]
    BY <1>3, <1>5 DEF Wrote
  <2>2. Agrees(j)' /\ Bounded(j)'
    BY <1>2, <2>1, StillAgrees
  <2>3. QED
    BY <1>3, <1>4, <2>2, OneJob DEF Wrote
<1>6. CASE j \in Known
  <2>1. /\ jobs'[j].status = jobs[j].status /\ jobs'[j].updated = now
        /\ jobs'[j].heartbeat = now /\ jobs'[j].activities = jobs[j].activities
    BY <1>3, <1>6 DEF Wrote
  <2>2. Gone(j)' <=> Gone(j)
    BY <1>2 DEF Gone
  <2>3. Bounded(j)'
    BY <1>1, <1>2, <2>1, JobTypes DEF Bounded, IInv
  <2>4. Stands(j)' /\ Told(j)' /\ Keeps(j)'
    BY <1>1, <1>2, <2>1, <2>2 DEF Stands, Told, Keeps
  <2>5. Ends(j)'
    BY <1>1, <1>2, <2>1, <2>2 DEF Stands, Ends
  <2>6. QED
    BY <1>3, <1>4, <2>3, <2>4, <2>5, OneJob DEF Wrote, Agrees
<1>7. QED
  BY <1>5, <1>6

\* Polling, and everybody else's Get.
LEMMA GetKeeps == ASSUME IInv, Shapes', Get \/ \E j \in Jobs : Poll(j) PROVE IInv'
<1>1. jobs' = Pruned /\ jobs' \in [Jobs -> Snapshot]
  BY PrunedJobs DEF Get, Poll
<1>2. ASSUME NEW k \in Jobs PROVE Agrees(k)' /\ Bounded(k)'
  <2>1. /\ jobs'[k] = Pruned[k] /\ work'[k] = work[k] /\ outcome'[k] = outcome[k]
        /\ said'[k] = said[k] /\ ended'[k] = ended[k] /\ lost' = lost /\ now' = now
    BY <1>1 DEF Get, Poll, goroutines, histories
  <2>2. \/ watch'[k] = watch[k]
        \/ watch[k] \in Polling /\ jobs'[k] = Pruned[k] /\ watch'[k] = Reaction(Pruned[k].status)
    BY <1>1 DEF Get, Poll, IInv, TypeOK
  <2>3. QED
    BY <2>1, <2>2, StillAgrees
<1>3. QED
  BY <1>1, <1>2 DEF IInv, TypeOK, JobInv, Shapes, Bounded

\* The clock makes what is long ago longer ago.
LEMMA TickKeeps == ASSUME IInv, Shapes', Tick PROVE IInv'
<1>1. /\ jobs' = jobs /\ work' = work /\ watch' = watch /\ now' = now + 1 /\ said' = said
      /\ ended' = ended /\ lost' = lost /\ outcome' = outcome
  BY DEF Tick, histories
<1>2. ASSUME NEW k \in Jobs PROVE Agrees(k)' /\ Bounded(k)'
  <2>1. Stands(k) /\ Ends(k) /\ Told(k) /\ Keeps(k) /\ Bounded(k)
    BY DEF IInv, TypeOK, JobInv, Agrees, Bounded
  <2>2. /\ now \in Nat /\ Retention \in Nat /\ ended[k] \in Nat \cup {None}
        /\ jobs[k].updated \in Nat
    BY JobTypes DEF IInv
  <2>3. Gone(k) => Gone(k)'
    <3>1. ASSUME ended[k] # None, now - ended[k] > Retention PROVE now' - ended'[k] > Retention
      BY <1>1, <2>2, <3>1
    <3>2. QED
      BY <1>1, <3>1 DEF Gone
  <2>4. Bounded(k)'
    BY <1>1, <2>1, <2>2 DEF Bounded
  <2>5. Stands(k)' /\ Told(k)' /\ Keeps(k)'
    BY <1>1, <2>1, <2>3 DEF Stands, Told, Keeps
  <2>6. Ends(k)'
    <3>1. ended[k] # None => ended[k] <= now + 1
      BY <2>1, <2>2 DEF Ends
    <3>2. QED
      BY <1>1, <2>1, <2>3, <3>1 DEF Ends
  <2>7. QED
    BY <2>4, <2>5, <2>6 DEF Agrees
<1>3. QED
  BY <1>1, <1>2 DEF IInv, TypeOK, JobInv, Shapes, Bounded

LEMMA RestartKeeps == ASSUME IInv, Shapes', Restart PROVE IInv'
<1>1. NoJob \in Snapshot /\ NoJob.status = "none" /\ NoJob.heartbeat = 0 /\ NoJob.updated = 0
      /\ NoJob.activities = <<>> /\ Len(<<>>) = 0
  BY DEF NoJob, Snapshot
<1>2. /\ watch' = watch /\ now' = now /\ said' = said /\ ended' = ended
      /\ lost' = lost \cup Known /\ outcome' = outcome
      /\ jobs' \in [Jobs -> Snapshot]
  BY <1>1 DEF Restart
<1>3. ASSUME NEW k \in Jobs PROVE Agrees(k)' /\ Bounded(k)'
  <2>1. Stands(k) /\ Ends(k) /\ Told(k) /\ Keeps(k) /\ Bounded(k)
    BY DEF IInv, TypeOK, JobInv, Agrees, Bounded
  <2>2. jobs'[k] = NoJob /\ work'[k] = (IF work[k] = "none" THEN "none" ELSE "over")
    BY DEF Restart
  <2>3. Gone(k) => Gone(k)'
    BY <1>2 DEF Gone
  <2>4. work[k] # "none" => Gone(k)'
    <3>1. CASE k \in Known
      BY <1>2, <3>1 DEF Gone
    <3>2. CASE k \notin Known
      BY <2>1, <2>3, <3>2 DEF Known, Ends
    <3>3. QED
      BY <3>1, <3>2
  <2>5. Bounded(k)'
    <3>1. Limit \in Nat /\ now \in Nat
      BY JobTypes DEF IInv
    <3>2. QED
      BY <1>1, <1>2, <2>2, <3>1 DEF Bounded
  <2>6. Stands(k)' /\ Keeps(k)'
    BY <1>1, <1>2, <2>1, <2>2 DEF Stands, Keeps
  <2>7. Ends(k)' /\ Told(k)'
    BY <1>1, <1>2, <2>1, <2>2, <2>3, <2>4 DEF Ends, Told
  <2>8. QED
    BY <2>5, <2>6, <2>7 DEF Agrees
<1>4. QED
  BY <1>2, <1>3 DEF IInv, TypeOK, JobInv, Shapes, Bounded

\* Steps of the select move no job.
LEMMA SelectKeeps ==
    ASSUME IInv, Shapes', jobs' = jobs, work' = work, watch' = watch, now' = now,
           said' = said, ended' = ended, lost' = lost, outcome' = outcome
    PROVE  IInv'
<1>1. \A k \in Jobs : Agrees(k)' /\ Bounded(k)'
  BY StillAgrees
<1>2. QED
  BY <1>1 DEF IInv, TypeOK, JobInv, Shapes, Bounded

-----------------------------------------------------------------------------
(* The theorems *)

LEMMA StepKeeps == IInv /\ [Next]_vars => IInv'
<1> SUFFICES ASSUME IInv, [Next]_vars PROVE IInv'
  OBVIOUS
<1>1. Shapes'
  BY ShapesKept
<1>2. ASSUME NEW j \in Jobs, Start(j) PROVE IInv'
  BY <1>1, <1>2, StartKeeps
<1>3. ASSUME NEW j \in Jobs, Poll(j) PROVE IInv'
  BY <1>1, <1>3, GetKeeps
<1>4. ASSUME NEW j \in Jobs, Run(j) PROVE IInv'
  BY <1>1, <1>4, RunKeeps
<1>5. ASSUME NEW j \in Jobs, NEW o \in Terminal, Return(j, o) PROVE IInv'
  BY <1>1, <1>5, ReturnKeeps
<1>6. ASSUME NEW j \in Jobs, End(j) PROVE IInv'
  BY <1>1, <1>6, EndKeeps
<1>7. ASSUME NEW j \in Jobs, Report(j) PROVE IInv'
  BY <1>1, <1>7, ReportKeeps
<1>8. ASSUME NEW j \in Jobs, Heartbeat(j) PROVE IInv'
  <2>1. CASE BeatTick(j)
    BY <1>1, <2>1, SelectKeeps DEF BeatTick, histories
  <2>2. CASE BeatWrite(j)
    BY <1>1, <2>2, BeatKeeps
  <2>3. CASE BeatDone(j)
    BY <1>1, <2>3, SelectKeeps DEF BeatDone, histories
  <2>4. QED
    BY <1>8, <2>1, <2>2, <2>3 DEF Heartbeat
<1>9. CASE Get
  BY <1>1, <1>9, GetKeeps
<1>10. CASE Tick
  BY <1>1, <1>10, TickKeeps
<1>11. CASE Restart
  BY <1>1, <1>11, RestartKeeps
<1>12. CASE UNCHANGED vars
  BY <1>1, <1>12, SelectKeeps DEF vars
<1>13. QED
  BY <1>2, <1>3, <1>4, <1>5, <1>6, <1>7, <1>8, <1>9, <1>10, <1>11, <1>12 DEF Next, Work

LEMMA Invariance == Spec => []IInv
<1>1. QED
  BY InitIInv, StepKeeps, PTL DEF Spec

\* The types, and with them the limit of the activities kept, for any number of jobs.
THEOREM TypeCorrect == Spec => []TypeOK
<1>1. IInv => TypeOK
  BY DEF IInv
<1>2. QED
  BY <1>1, Invariance, PTL

\* Whatever the browser is told of its job is true: an end is the one the work came to,
\* and a 404 means a restart or a job that ended longer than the retention ago.
THEOREM Truthful == Spec => []ToldTruth
<1>1. IInv => ToldTruth
  BY DEF IInv, JobInv, Agrees, Told, Gone, ToldTruth
<1>2. QED
  BY <1>1, Invariance, PTL

\* A job shows its latest messages in the order they were reported, for any limit.
THEOREM LatestKept == Spec => []LatestActivities
<1>1. ASSUME IInv, NEW j \in Known
      PROVE  Latest(jobs[j].activities, said[j]) /\ jobs[j].activities \in Seq(Nat)
  BY <1>1, JobTypes DEF IInv, JobInv, Agrees, Keeps, Known
<1>2. ASSUME NEW a \in Seq(Nat) PROVE DOMAIN a = 1..Len(a)
  OBVIOUS
<1>3. IInv => LatestActivities
  BY <1>1, <1>2 DEF LatestActivities, Latest
<1>4. QED
  BY <1>3, Invariance, PTL

-----------------------------------------------------------------------------
(* The refinement *)

\* What one job looks like to JobLifecycle, by where its goroutine stands.
LEMMA PhaseIs ==
    ASSUME NEW j \in Jobs
    PROVE  /\ jobs[j].status # "none" => Phase(j) = jobs[j].status
           /\ jobs[j].status = "none" => Phase(j) = IF work[j] = "none" THEN "absent" ELSE "gone"
BY DEF Phase, Known

LEMMA PhaseIsNext ==
    ASSUME NEW j \in Jobs
    PROVE  /\ jobs'[j].status # "none" => Phase(j)' = jobs'[j].status
           /\ jobs'[j].status = "none" => Phase(j)' = IF work'[j] = "none" THEN "absent" ELSE "gone"
BY DEF Phase, Known

\* A job that is pruned or left alone keeps its phase, or is forgotten after it ended.
LEMMA PhaseStays ==
    ASSUME IInv, NEW j \in Jobs, jobs'[j] \in {jobs[j], Pruned[j]}, work'[j] = work[j]
    PROVE  \/ Phase(j)' = Phase(j)
           \/ Phase(j) \in {"succeeded", "failed"} /\ Phase(j)' = "gone"
<1>1. CASE jobs'[j] = jobs[j]
  BY <1>1, PhaseIs, PhaseIsNext
<1>2. CASE jobs'[j] = NoJob /\ jobs[j].status \in Terminal
  <2>1. jobs'[j].status = "none" /\ work[j] # "none"
    BY <1>2 DEF NoJob, IInv, JobInv, Agrees, Stands, Terminal
  <2>2. QED
    BY <1>2, <2>1, PhaseIs, PhaseIsNext DEF Terminal
<1>3. QED
  BY <1>1, <1>2, PrunedJobs

Phases == [j \in Jobs |-> Phase(j)]

\* A step that moves at most job j, and lets only jobs that ended be forgotten.
LEMMA PhasesAround ==
    ASSUME IInv, NEW S \in SUBSET Jobs,
           \A k \in Jobs \ S : jobs'[k] \in {jobs[k], Pruned[k]} /\ work'[k] = work[k]
    PROVE  \E gone \in SUBSET Lifecycle!Settled :
              \A k \in Jobs \ S : Phase(k)' = IF k \in gone THEN "gone" ELSE Phase(k)
<1> DEFINE gone == {k \in Jobs \ S : Phase(k) \in {"succeeded", "failed"} /\ Phase(k)' = "gone"}
<1>1. gone \in SUBSET Lifecycle!Settled
  BY DEF Lifecycle!Settled
<1>2. \A k \in Jobs \ S : Phase(k)' = IF k \in gone THEN "gone" ELSE Phase(k)
  BY PhaseStays
<1>3. QED
  BY <1>1, <1>2

LEMMA NobodyMoves ==
    ASSUME IInv, \A k \in Jobs : jobs'[k] \in {jobs[k], Pruned[k]} /\ work'[k] = work[k]
    PROVE  Lifecycle!Forget
<1>1. PICK gone \in SUBSET Lifecycle!Settled :
          \A k \in Jobs : Phase(k)' = IF k \in gone THEN "gone" ELSE Phase(k)
  BY PhasesAround, {} \in SUBSET Jobs, Jobs \ {} = Jobs
<1>2. Phases' = [k \in Jobs |-> IF k \in gone THEN "gone" ELSE Phase(k)]
  BY <1>1 DEF Phases
<1>3. QED
  BY <1>2 DEF Phases, Lifecycle!Forget, Lifecycle!Without

\* Job j alone goes from one phase to another.
LEMMA OneMoves ==
    ASSUME NEW j \in Jobs, NEW to,
           Phase(j)' = to, \A k \in Jobs \ {j} : Phase(k)' = Phase(k)
    PROVE  Phases' = [Phases EXCEPT ![j] = to]
BY DEF Phases

LEMMA StepRefines ==
    ASSUME IInv, IInv', [Next]_vars
    PROVE  [Lifecycle!Next]_Phases
<1> USE DEF Terminal
<1>1. ASSUME NEW j \in Jobs, Start(j) PROVE Lifecycle!Accept(j)
  <2>1. work[j] = "none" /\ work'[j] = "spawned" /\ \A k \in Jobs \ {j} : work'[k] = work[k]
    BY <1>1 DEF Start, IInv, TypeOK
  <2>2. Phase(j) = "absent" /\ Phase(j)' = "queued"
    BY <2>1, PhaseIs, PhaseIsNext DEF IInv, JobInv, Agrees, Stands
  <2>3. \A k \in Jobs \ {j} : jobs'[k] = Pruned[k]
    BY <1>1, PrunedJobs DEF Start
  <2>4. PICK gone \in SUBSET Lifecycle!Settled :
           \A k \in Jobs \ {j} : Phase(k)' = IF k \in gone THEN "gone" ELSE Phase(k)
    BY <2>1, <2>3, PhasesAround, {j} \in SUBSET Jobs
  <2>5. Phases' = [Lifecycle!Without(gone) EXCEPT ![j] = "queued"]
    BY <2>2, <2>4 DEF Phases, Lifecycle!Without
  <2>6. QED
    BY <2>2, <2>5 DEF Phases, Lifecycle!Accept
<1>2. ASSUME NEW j \in Jobs, Run(j) PROVE Lifecycle!Begin(j)
  <2>1. work[j] = "spawned" /\ work'[j] = "working" /\ \A k \in Jobs \ {j} : work'[k] = work[k]
    BY <1>2 DEF Run, IInv, TypeOK
  <2>2. Phase(j) = "queued" /\ Phase(j)' = "running"
    BY <2>1, PhaseIs, PhaseIsNext DEF IInv, JobInv, Agrees, Stands
  <2>3. \A k \in Jobs \ {j} : Phase(k)' = Phase(k)
    <3>1. Wrote(j, "running", jobs[j].heartbeat, jobs[j].activities)
      BY <1>2, UpdatedWrites, JobTypes DEF Run, IInv
    <3>2. QED
      BY <2>1, <3>1, PhaseIs, PhaseIsNext DEF Wrote
  <2>4. QED
    BY <2>2, <2>3, OneMoves DEF Lifecycle!Begin, Phases
<1>3. ASSUME NEW j \in Jobs, End(j) PROVE Lifecycle!Settle(j)
  <2>1. work[j] = "returned" /\ work'[j] = "over" /\ \A k \in Jobs \ {j} : work'[k] = work[k]
    BY <1>3 DEF End, IInv, TypeOK
  <2>2. outcome[j] \in Terminal /\ outcome' = outcome /\ jobs[j].status = "running"
    BY <1>3, <2>1 DEF End, IInv, JobInv, Agrees, Stands
  <2>3. Wrote(j, outcome[j], jobs[j].heartbeat, jobs[j].activities)
    BY <1>3, <2>2, UpdatedWrites, JobTypes DEF End, IInv
  <2>4. Phase(j) = "running" /\ Phase(j)' = outcome[j]
    BY <2>2, <2>3, PhaseIs, PhaseIsNext DEF Wrote, Known
  <2>5. \A k \in Jobs \ {j} : Phase(k)' = Phase(k)
    BY <2>1, <2>3, PhaseIs, PhaseIsNext DEF Wrote
  <2>6. Phases[j] = "running" /\ Phases' = [Phases EXCEPT ![j] = outcome[j]]
    BY <2>4, <2>5, OneMoves DEF Phases
  <2>7. QED
    BY <2>2, <2>6 DEF Lifecycle!Settle, Phases
<1>4. CASE Restart
  <2>1. ASSUME NEW k \in Jobs
        PROVE  Phase(k)' = IF k \in Lifecycle!Known THEN "gone" ELSE Phase(k)
    <3>1. jobs'[k].status = "none" /\ work'[k] = (IF work[k] = "none" THEN "none" ELSE "over")
      BY <1>4 DEF Restart, NoJob
    <3>2. work[k] = "none" => jobs[k].status = "none"
      BY DEF IInv, JobInv, Agrees, Stands
    <3>3. jobs[k].status \in {"none", "queued", "running", "succeeded", "failed"}
      BY JobTypes DEF IInv
    <3>4. Phase(k)' = IF Phase(k) \notin {"absent", "gone"} THEN "gone" ELSE Phase(k)
      BY <3>1, <3>2, <3>3, PhaseIs, PhaseIsNext
    <3>5. QED
      BY <3>4 DEF Lifecycle!Known
  <2>2. Phases' = [k \in Jobs |-> IF k \in Lifecycle!Known THEN "gone" ELSE Phase(k)]
    BY <2>1 DEF Phases
  <2>3. QED
    BY <2>2 DEF Phases, Lifecycle!Next, Lifecycle!Lose, Lifecycle!Without
<1>5. CASE Get \/ \E j \in Jobs : Poll(j)
  <2>1. \A k \in Jobs : jobs'[k] \in {jobs[k], Pruned[k]} /\ work'[k] = work[k]
    BY <1>5 DEF Get, Poll, goroutines
  <2>2. QED
    BY <2>1, NobodyMoves DEF Lifecycle!Next
<1>6. ASSUME NEW j \in Jobs, Report(j) \/ BeatWrite(j) PROVE Phases' = Phases
  <2>1. work' = work
    BY <1>6 DEF Report, BeatWrite, goroutines
  <2>2. PICK hb \in Nat, a \in Seq(Nat) : jobs' = Updated(j, jobs[j].status, hb, a)
    <3>1. now \in Nat /\ jobs[j].heartbeat \in Nat /\ jobs[j].activities \in Seq(Nat)
          /\ said[j] \in Nat
      BY JobTypes DEF IInv
    <3>2. CASE BeatWrite(j) \/ jobs' = Updated(j, jobs[j].status, jobs[j].heartbeat, jobs[j].activities)
      BY <3>1, <3>2 DEF BeatWrite
    <3>3. CASE /\ work[j] = "working"
               /\ jobs' = Updated(j, jobs[j].status, now, Trim(Append(jobs[j].activities, said[j] + 1)))
      <4>1. Latest(jobs[j].activities, said[j])
        BY <3>3 DEF IInv, JobInv, Agrees, Stands, Keeps
      <4>2. Trim(Append(jobs[j].activities, said[j] + 1)) \in Seq(Nat)
        BY <3>1, <4>1, TrimLatest
      <4>3. QED
        BY <3>1, <3>3, <4>2
    <3>4. QED
      BY <1>6, <3>2, <3>3 DEF Report
  <2>3. Wrote(j, jobs[j].status, hb, a)
    BY <2>2, UpdatedWrites, JobTypes DEF IInv
  <2>4. \A k \in Jobs : jobs'[k].status = jobs[k].status
    BY <2>3 DEF Wrote
  <2>5. \A k \in Jobs : Phase(k)' = Phase(k)
    BY <2>1, <2>4, PhaseIs, PhaseIsNext
  <2>6. QED
    BY <2>5 DEF Phases
<1>7. ASSUME NEW j \in Jobs, NEW o \in Terminal, Return(j, o) PROVE Phases' = Phases
  <2>1. /\ jobs' = jobs /\ \A k \in Jobs : work'[k] = "none" <=> work[k] = "none"
    BY <1>7 DEF Return, IInv, TypeOK
  <2>2. \A k \in Jobs : Phase(k)' = Phase(k)
    BY <2>1, PhaseIs, PhaseIsNext
  <2>3. QED
    BY <2>2 DEF Phases
<1>8. ASSUME jobs' = jobs, work' = work PROVE Phases' = Phases
  BY <1>8 DEF Phases, Phase, Known
<1>9. ASSUME NEW j \in Jobs, BeatTick(j) \/ BeatDone(j) PROVE Phases' = Phases
  BY <1>8, <1>9 DEF BeatTick, BeatDone
<1>10. CASE Tick \/ UNCHANGED vars
  BY <1>8, <1>10 DEF Tick, vars
<1>11. QED
  BY <1>1, <1>2, <1>3, <1>4, <1>5, <1>6, <1>7, <1>9, <1>10
  DEF Next, Work, Heartbeat, Lifecycle!Next

\* However the goroutines, the polls, the clock and the restarts interleave, the manager
\* does what JobLifecycle promises: an end is final, and nothing is forgotten before it.
THEOREM Refines == Spec => ImplementsLifecycle
<1>1. Init => Lifecycle!Init
  BY DEF Init, NoJob, Phase, Known, Lifecycle!Init
<1>2. IInv /\ IInv' /\ [Next]_vars => [Lifecycle!Next]_Phases
  BY StepRefines
<1>3. QED
  BY <1>1, <1>2, Invariance, PTL DEF Spec, ImplementsLifecycle, Lifecycle!Spec, Phases

=============================================================================
