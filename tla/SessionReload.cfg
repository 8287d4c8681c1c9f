\* A socket is lost, whose frames come late or never, and a page reloaded, with
\* writes that had not committed.  Of three messages the receiver can step over
\* one, which is all that MAX_SKIP allows.
\* The bounds stop the users, so behaviours end in states without a successor.
CONSTANTS
    alice = alice
    bob = bob
    a = a
    a2 = a2
    b = b
    Users = {alice, bob}
    Devices = {a, b}
    UserOf <- OwnerOf
    DevicesOf <- OneEach
    MaxTexts <- ThreeAndNone
    MAX_SKIP = 1
    MaxFails = 0
    MaxDrops = 1
    MaxReloads = 1
    MaxResets = 0
SPECIFICATION Spec
CHECK_DEADLOCK FALSE
INVARIANTS
    PersistedNotAhead
    NoKeyDropped
    InStep
