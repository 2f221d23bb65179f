\* No lost writes: every accepted turn settles.
SPECIFICATION FairSpec
CONSTANTS
    alice = alice
    c1 = c1
    c2 = c2
    Users <- OneUser
    Chats <- OneChat
    Owner <- AllAlice1
    ClientKeys = {k1, k2}
    Requests = {r1, r2}
    Workers = {w1, w2}
    Faulty <- NoFaults
    MaxAttempts = 2
    MaxRetries = 1
    MaxCrashes = 1
    None = None
PROPERTIES
    EventuallySettled
    SlotReleased
