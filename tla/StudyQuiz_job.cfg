\* One request at a time: a learner who waits, or one who does not and every statement
\* may fail, and the process.
SPECIFICATION Spec
CONSTANTS
    Tabs = {t1}
    MaxQuizzes = 3
    MaxCounted = 2
    Settings <- WaitsOrSuffers
INVARIANTS
    OneInProgress
    CountedOnce
    PhasesAgree
PROPERTIES
    RemovedForGood
    SavedQuizOpensCalmly
\* Once the study is deleted nothing more happens.
CHECK_DEADLOCK FALSE
