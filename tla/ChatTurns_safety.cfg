\* Two chats of one user, so that a deletion leaves another chat with its worker;
\* two requests and two workers at once, one crash; every repository call may fail.
SPECIFICATION Spec
CONSTANTS
    alice = alice
    c1 = c1
    c2 = c2
    Users <- OneUser
    Chats <- TwoChats
    Owner <- AllAlice2
    ClientKeys = {k1}
    Requests = {r1, r2}
    Workers = {w1, w2}
    Faulty <- AllFaults
    MaxAttempts = 2
    MaxRetries = 2
    MaxCrashes = 1
    None = None
SYMMETRY Interchangeable
INVARIANTS
    AnswerIffSucceeded
    ExclusiveRunner
    CallsPerAttempt
    NoOrphans
PROPERTIES
    ImplementsLifecycle
