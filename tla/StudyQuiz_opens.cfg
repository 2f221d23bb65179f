\* Does the quiz a job has saved open, whatever the learner does meanwhile?
SPECIFICATION Spec
CONSTANTS
    Tabs = {t1}
    MaxQuizzes = 2
    MaxCounted = 1
    Settings <- OnlyRoams
PROPERTIES
    SavedQuizOpens
CHECK_DEADLOCK FALSE
