\* Two tabs, one request at a time or overlapping; every write may fail and the
\* process may crash.
SPECIFICATION Spec
CONSTANTS
    N = 2
    Given = {"right"}
    Kinds <- Attempts
    Tabs = {t1, t2}
    Faulty <- AllWrites
    MaxCompletions = 2
    None = None
SYMMETRY TabOrder
INVARIANTS
    OneSheet
    RankedSheetComplete
    RankedResultAgrees
PROPERTIES
    FinishedForGood
