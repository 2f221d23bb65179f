\* The files of a study, one of which is edited, next to its mind map with three nodes.
SPECIFICATION Spec
CONSTANTS
    Requests = {r1}
    MaxFiles = 3
    MaxVersions <- ThreeFiles
    Texts = {"", "text"}
    root = root
    a = a
    b = b
    Ids = {root, a, b}
    Root = root
    Says <- TwoFaces
    MaxNodes = 3
    MaxDepth = 1
    Outlines <- NotesOrNot
    Callers = {c1}
    MaxSends = 2
    Askers = {a1, a2}
    MaxChats = 2
    MaxMessages = 4
    MaxMarks = 1
    None = None
    Gone = Gone
    Focuses <- OneOrOther
SYMMETRY Symmetry
INVARIANTS
    HistoryComplete
    MapsAreTrees
    AskedInContext
    ReadsWell
PROPERTIES
    NothingVanishes
    OneBranch
\* Once the study is deleted and the page closed nothing more happens.
CHECK_DEADLOCK FALSE
