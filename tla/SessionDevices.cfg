\* Alice has two devices: copies to the other device and frames for another
\* device; a socket is lost half way, a session is reset.
\* The bounds stop the users, so behaviours end in states without a successor.
CONSTANTS
    alice = alice
    bob = bob
    a = a
    a2 = a2
    b = b
    Users = {alice, bob}
    Devices = {a, a2, b}
    UserOf <- OwnerOf
    DevicesOf <- TwoAndOne
    MaxTexts <- TwoAndNone
    MAX_SKIP = 2
    MaxFails = 0
    MaxDrops = 1
    MaxReloads = 0
    MaxResets = 1
SPECIFICATION Spec
CHECK_DEADLOCK FALSE
INVARIANTS
    TypeOK
    NoKeyReuse
    ResetIsFinal
