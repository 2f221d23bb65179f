\* Every kind of call, every admin operation, failing bills and crashes; or the kinds
\* that bill their failures, where no bill fails and no allowance is taken away.
SPECIFICATION Spec
CONSTANTS
    Users = {alice}
    Calls = {c1, c2, c3}
    MaxCost = 1
    Allowances = {1, 2}
    Settings <- Both
    MaxMetered = 5
    None = None
SYMMETRY Interchangeable
INVARIANTS
    SlotHeld
    TurnGateHolds
    OverdraftBounded
    Accounted
\* Once every user is deleted nothing more happens.
CHECK_DEADLOCK FALSE
