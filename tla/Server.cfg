\* Two requests of one browser, two accounts and two starts; three addresses of which the
\* limiter wants to keep one; two attempts of old, a study of old and three starts;
\* two learners and four ranked quizzes, a rank taking four instead of five.
SPECIFICATION Spec
CONSTANTS
    Requests = {r1, r2}
    Browsers = {b1}
    Emails = {"admin", "other"}
    Admin = "admin"
    Names = {"ana"}
    Tags = 2
    SessionTTL = 1
    Month = 2
    MaxUsers = 2
    MaxSessions = 1
    MaxTime = 1
    MaxBoots = 2
    NoOne = NoOne
    Clients = {"x", "y", "z"}
    Hops <- SomeHops
    Burst = 2
    Cost = 2
    Kept = 3
    MaxVisitors = 1
    MaxNow = 6
    Attempts = {a1, a2}
    Tests = {"t", "u"}
    Studies = {s1}
    Talks <- OldTalks
    MaxTests = 4
    MaxStarts = 3
    Learners = {1, 2}
    Writers = {w1, w2}
    Papers <- SomePapers
    Calls = {2}
    MonthLength = 1
    MinimumRankedQuizzes = 4
    Limit = 1
    MaxStudies = 2
    MaxCalls = 2
    MaxResults = 4
    MaxToday = 1
    Focuses = {"accounts", "limits", "migration", "counters", "boards"}
SYMMETRY Symmetry
INVARIANTS
    AccountsWhole
    ServedAsThemselves
    Migrated
    StatsAddUp
    StandingsExact
PROPERTY
    KeepsPromise
\* At the bounds nothing more happens.
CHECK_DEADLOCK FALSE
