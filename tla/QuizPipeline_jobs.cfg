\* The manager: a job, its heartbeat, the browser that polls it, other requests and a
\* restart; the clock passes the retention after the job has ended.  The work: every
\* kind of provider, two rounds of tools with two calls each, two attempts.
SPECIFICATION PipelineSpec
CONSTANTS
    Jobs = {j1}
    Retention = 2
    Limit = 2
    MaxTime = 7
    MaxReports = 4
    MaxRestarts = 1
    None = None
    MaxToolRounds = 2
    MaxCalls = 2
    Reports = {0, 2}
    Estimate = 1
    Providers <- AnyProvider
    Count = 1
    MaxAttempts = 3
    Web = {TRUE, FALSE}
    MaxElements = 1
    Elements = {"e", "f", "broken"}
    ValidElements = {"e", "f"}
    Replies <- SomeReplies
    MaxFound = 2
    Paths = {"study", "test"}
INVARIANTS
    ToldTruth
    EveryCallAnswered
    LackingOneServed
    QuizHonoursContract
    TokensBilled
PROPERTIES
    ImplementsLifecycle
    JobSettles
    WorkEnds
\* Once every job is over and the clock stands, nothing more happens.
CHECK_DEADLOCK FALSE
