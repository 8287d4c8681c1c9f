\* Two devices write to each other, a fetch may fail: inits cross, and each
\* drops the other's session.
\* The bounds stop the users, so behaviours end in states without a successor.
CONSTANTS
    alice = alice
    bob = bob
    a = a
    a2 = a2
    b = b
    Users = {alice, bob}
    Devices = {a, b}
    UserOf <- OwnerOf
    DevicesOf <- OneEach
    MaxTexts <- TwoAndOneBack
    MAX_SKIP = 2
    MaxFails = 1
    MaxDrops = 0
    MaxReloads = 0
    MaxResets = 0
SPECIFICATION FairSpec
CHECK_DEADLOCK FALSE
INVARIANTS
    PersistedIsKnown
PROPERTIES
    SentIsOpened
