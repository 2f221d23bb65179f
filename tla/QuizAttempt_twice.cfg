\* Two requests at the same time: is the attempt completed once?
SPECIFICATION Spec
CONSTANTS
    N = 2
    Given = {"right"}
    Kinds <- Hasty
    Tabs = {t1, t2}
    Faulty <- OnlySave
    MaxCompletions = 2
    None = None
SYMMETRY TabOrder
INVARIANTS
    CompletedOnce
