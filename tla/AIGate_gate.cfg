\* Does one call at a time close the quota race for the calls that look first?
SPECIFICATION Spec
CONSTANTS
    Users = {alice}
    Calls = {c1, c2}
    MaxCost = 1
    Allowances = {1}
    Settings <- CheckFirst
    MaxMetered = 4
    None = None
SYMMETRY Interchangeable
INVARIANTS
    GateHolds
