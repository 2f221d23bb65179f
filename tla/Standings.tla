------------------------------ MODULE Standings ------------------------------
(***************************************************************************)
(* What learnix shows of its learners: the counters of a profile page, and *)
(* the leaderboards (src/internal/db/analytics.go, profile.go and quota.go,*)
(* handlers/leaderboard.go).                                               *)
(*                                                                         *)
(* The boards are queries over two logs, usage_log and ranked_results.  The*)
(* counters are a row of their own, user_stats, written by a statement of  *)
(* its own after the one that created a study or logged a call: it may     *)
(* fail, which is only printed.  An account without the row gets one that  *)
(* counts what is there, when it is made or when the server boots.  Of the *)
(* counters, studies and tokens are modelled; those of a finished quiz are *)
(* in QuizAttempt.                                                         *)
(***************************************************************************)
EXTENDS Naturals, Sequences, FiniteSets, FiniteSetsExt, SequencesExt

CONSTANTS
    Learners,              \* numbers, in the order of their public handles
    Writers,               \* requests and jobs that write at the same time
    Papers,                \* what they may come to: [preset, correct]
    Calls,                 \* tokens a call may cost
    MonthLength,           \* time a month lasts
    MinimumRankedQuizzes,  \* 5
    Limit,                 \* entries a board shows
    MaxStudies,            \* bound: studies a learner ever creates
    MaxCalls,              \* bound: calls logged
    MaxResults,            \* bound: results of ranked quizzes
    MaxToday               \* bound: the clock

ASSUME StandingsAssumption ==
    /\ IsFiniteSet(Learners) /\ IsFiniteSet(Writers)
    /\ Learners \subseteq Nat /\ Calls \subseteq Nat \ {0}
    /\ Papers \subseteq [preset : {"moderate", "fast", "long"}, correct : 0..15]
    /\ {MonthLength, MinimumRankedQuizzes, Limit} \subseteq Nat \ {0}
    /\ {MaxStudies, MaxCalls, MaxResults, MaxToday} \subseteq Nat

VARIABLES
    account,  \* [Learners -> "none", "row", "shown" once it has a profile, "gone"]
    making,   \* the learners whose registration is at work
    kept,     \* [Learners -> how many studies they have]
    log,      \* usage_log, a bag: which call a row is of makes no difference here
    ranked,   \* ranked_results, a bag: nor which quiz
    stats,    \* [Learners -> the row of user_stats]
    writer,   \* [Writers -> [of, delta]]: the telemetry it has yet to record
    today,
    serving,  \* whether the server is up
    tally     \* [Learners -> [ever, early, lost]]: studies they ever created; what was
              \* written while they had no row in user_stats; telemetry that was lost

standingVars == <<account, making, kept, log, ranked, stats, writer, today, serving, tally>>

Delta   == [studies : Nat, tokens : Nat]
Nothing == [studies |-> 0, tokens |-> 0]
AStudy  == [studies |-> 1, tokens |-> 0]
Plus(d, e) == [studies |-> d.studies + e.studies, tokens |-> d.tokens + e.tokens]

NoStats  == [studies |-> 0, tokens |-> 0, row |-> FALSE]
Resting  == [of |-> {}, delta |-> Nothing]
NewTally == [ever |-> 0, early |-> Nothing, lost |-> Nothing]

Is(l, phases) == account[l] \in phases
Exists(l)     == Is(l, {"row", "shown"})

StandingsTypeOK ==
    /\ account \in [Learners -> {"none", "row", "shown", "gone"}]
    /\ making \subseteq {l \in Learners : Exists(l)}
    /\ kept \in [Learners -> 0..MaxStudies]
    /\ IsABag(log) /\ DOMAIN log \subseteq [user : Learners, tokens : Calls, at : 0..today]
    /\ IsABag(ranked) /\ DOMAIN ranked \subseteq [user : Learners, score : 0..1000, weighted : 0..2000, at : 0..today]
    /\ stats \in [Learners -> [studies : Nat, tokens : Nat, row : BOOLEAN]]
    /\ writer \in [Writers -> [of : SUBSET Learners, delta : Delta]]
    /\ today \in 0..MaxToday /\ serving \in BOOLEAN
    /\ tally \in [Learners -> [ever : 0..MaxStudies, early : Delta, lost : Delta]]

\* A database from before there were counters, in which a learner may have a study, or have
\* been deleted.
StandingsInit ==
    /\ account \in [Learners -> {"none", "row", "gone"}]
    /\ kept = [l \in Learners |-> IF Exists(l) /\ MaxStudies > 0 THEN 1 ELSE 0]
    /\ making = {} /\ log = EmptyBag /\ ranked = EmptyBag /\ today = 0 /\ serving = FALSE
    /\ stats = [l \in Learners |-> NoStats]
    /\ writer = [w \in Writers |-> Resting]
    /\ tally = [l \in Learners |-> [NewTally EXCEPT !.ever = kept[l]]]

-----------------------------------------------------------------------------
(* The grade of a quiz *)

quizPreset(name) == CASE name = "fast"     -> [count |-> 5,  weight |-> 50]
                      [] name = "moderate" -> [count |-> 10, weight |-> 100]
                      [] name = "long"     -> [count |-> 15, weight |-> 200]

\* Nobody has more answers right than there were questions.
ASSUME PapersAssumption == \A p \in Papers : p.correct <= quizPreset(p.preset).count

ScoreCents(p) ==
    LET total == quizPreset(p.preset).count
    IN  (p.correct * 1000 + total \div 2) \div total

WeightedScoreCents(p) == (ScoreCents(p) * quizPreset(p.preset).weight + 50) \div 100

-----------------------------------------------------------------------------
(* What is shown *)

\* periodWhere: of all time, or from the first moment of a month to the first of the next.
AllTime   == <<>>
Months    == 0..MaxToday \div MonthLength
MonthOf(m) == <<m * MonthLength, (m + 1) * MonthLength>>

\* Mutant: a month takes in the first moment of the next one.
InBoth(row, period) == period = AllTime \/ (period[1] <= row.at /\ row.at <= period[2])

In(row, period) == period = AllTime \/ (period[1] <= row.at /\ row.at < period[2])

Rows(table, l, period) == [r \in {r \in DOMAIN table : r.user = l /\ In(r, period)} |-> table[r]]
Logged(l, period)      == Rows(log, l, period)
Results(l, period)     == Rows(ranked, l, period)

Count(rows)  == SumFunction(rows)
Score(rows)  == SumFunction([r \in DOMAIN rows |-> r.score * rows[r]])
Points(rows) == SumFunction([r \in DOMAIN rows |-> r.weighted * rows[r]])
Tokens(rows) == SumFunction([r \in DOMAIN rows |-> r.tokens * rows[r]])

\* What ListScore, ListQuizzes and ListTokens make of a learner's rows.
Value(metric, l, period) ==
    CASE metric = "nota"    -> Points(Results(l, period))
      [] metric = "quizzes" -> Count(Results(l, period))
      [] metric = "tokens"  -> Tokens(Logged(l, period))

Listed(metric, l, period) ==
    account[l] = "shown" /\ IF metric = "tokens" THEN Logged(l, period) # EmptyBag ELSE Results(l, period) # EmptyBag

\* The highest values first, and handles in order among equals; cut at Limit.
Before(a, b) == a.value > b.value \/ (a.value = b.value /\ a.user < b.user)

list(metric, period) ==
    LET entries == {[user |-> l, value |-> Value(metric, l, period)] :
                        l \in {k \in Learners : Listed(metric, k, period)}}
        sorted  == CHOOSE s \in [1..Cardinality(entries) -> entries] :
                        \A i, j \in DOMAIN s : i < j => Before(s[i], s[j])
    IN  SubSeq(sorted, 1, Min({Limit, Cardinality(entries)}))

profileRanks == <<950, 900, 850, 750, 600, 0>>

Average(sum, n) == IF n > 0 THEN (sum + n \div 2) \div n ELSE 0

\* The rank, by the least mean it asks for.
RankFor(sum, n) ==
    IF n < MinimumRankedQuizzes THEN 0
    ELSE LET met == {i \in DOMAIN profileRanks : sum >= profileRanks[i] * n} IN profileRanks[Min(met)]

\* ViewByUser; a missing row of user_stats shows as zeros.
View(l) ==
    LET rows == Results(l, AllTime)
    IN  [studies |-> stats[l].studies, tokens |-> stats[l].tokens,
         average |-> Average(Score(rows), Count(rows)),
         rank    |-> RankFor(Score(rows), Count(rows))]

\* The answer to a request for a board: an entry's place is its position, and beside it goes
\* the rank of the learner's profile.
leaderboardJSON(metric, period) ==
    LET entries == list(metric, period)
    IN  [i \in DOMAIN entries |-> [rank |-> i, user |-> entries[i].user, value |-> entries[i].value,
                                   key |-> View(entries[i].user).rank]]

-----------------------------------------------------------------------------
(* Writers *)

\* INSERT OR IGNORE of a row that counts what is there.
Counted(l) ==
    IF stats[l].row THEN stats[l]
    ELSE [row |-> TRUE, studies |-> kept[l], tokens |-> Tokens(Logged(l, AllTime))]

Writes(w, l, delta) ==
    /\ serving /\ writer[w] = Resting /\ Exists(l)
    /\ writer' = [writer EXCEPT ![w] = [of |-> {l}, delta |-> delta]]

Early(l, delta) == IF stats[l].row THEN tally[l].early ELSE Plus(tally[l].early, delta)

CreateStudy(w, l) ==
    /\ Writes(w, l, AStudy)
    /\ tally[l].ever < MaxStudies
    /\ kept' = [kept EXCEPT ![l] = @ + 1]
    /\ tally' = [tally EXCEPT ![l].ever = @ + 1, ![l].early = Early(l, AStudy)]
    /\ UNCHANGED <<account, making, log, ranked, stats, today, serving>>

\* recordAIUsage: quota and log in one transaction, telemetry afterwards.
AddUsage(w, l, tokens) ==
    /\ Writes(w, l, [studies |-> 0, tokens |-> tokens])
    /\ BagCardinality(log) < MaxCalls
    /\ log' = log (+) SetToBag({[user |-> l, tokens |-> tokens, at |-> today]})
    /\ tally' = [tally EXCEPT ![l].early = Early(l, [studies |-> 0, tokens |-> tokens])]
    /\ UNCHANGED <<account, making, kept, ranked, stats, today, serving>>

\* Record of the telemetry, in one transaction.
Record(w) ==
    /\ serving
    /\ \E l \in writer[w].of :
          /\ Exists(l)
          /\ stats' = [stats EXCEPT ![l] = [row     |-> TRUE,
                                            studies |-> @.studies + writer[w].delta.studies,
                                            tokens  |-> @.tokens + writer[w].delta.tokens]]
    /\ writer' = [writer EXCEPT ![w] = Resting]
    /\ UNCHANGED <<account, making, kept, log, ranked, today, serving, tally>>

\* What some writers have yet to record of a learner.
Unrecorded(l, ws) ==
    LET due(w) == IF l \in writer[w].of THEN writer[w].delta ELSE Nothing
    IN  [studies |-> SumFunction([w \in ws |-> due(w).studies]),
         tokens  |-> SumFunction([w \in ws |-> due(w).tokens])]

Lost(ws) ==
    /\ writer' = [w \in Writers |-> IF w \in ws THEN Resting ELSE writer[w]]
    /\ tally' = [l \in Learners |-> [tally[l] EXCEPT !.lost = Plus(@, Unrecorded(l, ws))]]

\* The telemetry cannot be recorded, which is printed, or its context has ended.
RecordFails(w) ==
    /\ serving /\ writer[w] # Resting
    /\ Lost({w})
    /\ UNCHANGED <<account, making, kept, log, ranked, stats, today, serving>>

\* finishQuiz records the result of a ranked quiz; a second one of the quiz is ignored.
RecordRanked(l, p) ==
    /\ serving /\ Exists(l) /\ BagCardinality(ranked) < MaxResults
    /\ ranked' = ranked (+) SetToBag({[user |-> l, score |-> ScoreCents(p), weighted |-> WeightedScoreCents(p),
                                        at |-> today]})
    /\ UNCHANGED <<account, making, kept, log, stats, writer, today, serving, tally>>

\* ON DELETE CASCADE does not reach ranked_results.
DeleteStudy(l) ==
    /\ serving /\ Exists(l) /\ kept[l] > 0
    /\ kept' = [kept EXCEPT ![l] = @ - 1]
    /\ UNCHANGED <<account, making, log, ranked, stats, writer, today, serving, tally>>

-----------------------------------------------------------------------------
(* Accounts *)

Register(l) ==
    /\ serving /\ account[l] = "none"
    /\ account' = [account EXCEPT ![l] = "row"]
    /\ making' = making \cup {l}
    /\ UNCHANGED <<kept, log, ranked, stats, writer, today, serving, tally>>

\* ensureUserMetadata inserts the profile.
InsertIdentity(l) ==
    /\ l \in making /\ account[l] = "row"
    /\ account' = [account EXCEPT ![l] = "shown"]
    /\ UNCHANGED <<making, kept, log, ranked, stats, writer, today, serving, tally>>

\* And then the row of counters.
InsertStats(l) ==
    /\ l \in making /\ account[l] = "shown"
    /\ stats' = [stats EXCEPT ![l] = Counted(l)]
    /\ making' = making \ {l}
    /\ UNCHANGED <<account, kept, log, ranked, writer, today, serving, tally>>

Without(table, l) == [r \in {r \in DOMAIN table : r.user # l} |-> table[r]]

\* ON DELETE CASCADE reaches whatever is a learner's own.
Forgotten(l) ==
    /\ account' = [account EXCEPT ![l] = "gone"]
    /\ making' = making \ {l}
    /\ kept' = [kept EXCEPT ![l] = 0]
    /\ log' = Without(log, l) /\ ranked' = Without(ranked, l)
    /\ stats' = [stats EXCEPT ![l] = NoStats]
    /\ tally' = [tally EXCEPT ![l] = NewTally]
    /\ UNCHANGED <<writer, today, serving>>

\* An admin deletes an account, or a failed registration its own, unless that fails too.
DeleteLearner(l) == serving /\ Exists(l) /\ Forgotten(l)

GiveUp(l) ==
    /\ l \in making
    /\ making' = making \ {l}
    /\ UNCHANGED <<account, kept, log, ranked, stats, writer, today, serving, tally>>

Stop ==
    /\ serving /\ serving' = FALSE
    /\ making' = {}
    /\ Lost(Writers)
    /\ UNCHANGED <<account, kept, log, ranked, stats, today>>

\* Mutant: INSERT OR REPLACE.
EnsuredAnew(l) == [row |-> TRUE, studies |-> kept[l], tokens |-> Tokens(Logged(l, AllTime))]

\* What ensureExistingUserMetadata leaves of an account.
EnsuredStats(l) == Counted(l)

Restart ==
    /\ ~serving /\ serving' = TRUE
    /\ account' = [l \in Learners |-> IF account[l] = "row" THEN "shown" ELSE account[l]]
    /\ stats' = [l \in Learners |-> IF Exists(l) THEN EnsuredStats(l) ELSE stats[l]]
    /\ UNCHANGED <<making, kept, log, ranked, writer, today, tally>>

NextDay == today < MaxToday /\ today' = today + 1
           /\ UNCHANGED <<account, making, kept, log, ranked, stats, writer, serving, tally>>

LearnersNext ==
    \/ \E l \in Learners : Register(l) \/ InsertIdentity(l) \/ InsertStats(l) \/ DeleteLearner(l) \/ GiveUp(l)
    \/ Stop \/ Restart \/ NextDay

WritersNext ==
    \/ \E w \in Writers : \/ \E l \in Learners : CreateStudy(w, l) \/ \E tokens \in Calls : AddUsage(w, l, tokens)
                          \/ Record(w) \/ RecordFails(w)
    \/ \E l \in Learners : DeleteStudy(l)

BoardsNext == \E l \in Learners, p \in Papers : RecordRanked(l, p)

-----------------------------------------------------------------------------
(* Properties *)

\* A learner's counters and the tables they summarise add up: whatever was created or
\* spent is counted, is about to be, or was lost by a telemetry write that failed; and it
\* is counted once, unless it came before the learner had a row of counters, which the
\* row may have counted as well.
StatsAddUp ==
    serving => \A l \in Learners : Exists(l) =>
        LET ever    == [studies |-> tally[l].ever, tokens |-> Tokens(Logged(l, AllTime))]
            written == Plus(Plus(View(l), tally[l].lost), Unrecorded(l, Writers))
            most    == Plus(ever, tally[l].early)
        IN  /\ ever.studies <= written.studies /\ written.studies <= most.studies
            /\ ever.tokens <= written.tokens /\ written.tokens <= most.tokens

\* The months add up to all time, whatever the metric: nothing finished or spent on the
\* edge of a month is in two of them or in none.
MonthsAddUp ==
    \A l \in {row.user : row \in DOMAIN log \cup DOMAIN ranked}, metric \in {"nota", "quizzes", "tokens"} :
        Value(metric, l, AllTime) = SumFunction([m \in Months |-> Value(metric, l, MonthOf(m))])

\* A learner's place on a board is after everyone who did better and with nobody who did worse
\* before; whom a board leaves out has no more than the last it shows.
BoardsFair ==
    \A metric \in {"nota", "quizzes", "tokens"}, period \in {AllTime} \cup {MonthOf(m) : m \in Months} :
        LET board    == leaderboardJSON(metric, period)
            shown    == {l \in Learners : Listed(metric, l, period)}
            Better(l) == {k \in shown : Value(metric, k, period) > Value(metric, l, period)}
            Worse(l)  == {k \in shown : Value(metric, k, period) < Value(metric, l, period)}
        IN  shown # {} =>
                /\ \A l \in shown : (\A i \in DOMAIN board : board[i].user # l)
                                    => Len(board) = Limit /\ Cardinality(shown \ Worse(l)) > Limit
                /\ \A i \in DOMAIN board :
                      /\ Cardinality(Better(board[i].user)) < board[i].rank
                      /\ board[i].rank <= Cardinality(shown \ Worse(board[i].user))
                      /\ board[i].key <= View(board[i].user).average

\* A rank is earned by the results themselves and not by the average shown: it asks no
\* more than their mean, and whoever did as well in every one of them has it.
RanksEarned ==
    \A l \in Learners :
        LET rows == Results(l, AllTime)
        IN  Count(rows) >= MinimumRankedQuizzes =>
                /\ View(l).rank * Count(rows) <= Score(rows)
                /\ View(l).rank <= View(l).average
                /\ \A i \in DOMAIN profileRanks :
                      (\A r \in DOMAIN rows : r.score >= profileRanks[i]) => View(l).rank >= profileRanks[i]

StandingsExact == MonthsAddUp /\ BoardsFair /\ RanksEarned
=============================================================================
