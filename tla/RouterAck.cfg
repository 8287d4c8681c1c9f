\* One server whose Postgres may fail: is what was acknowledged stored?
CONSTANTS
    s1 = s1
    s2 = s2
    alice = alice
    bob = bob
    kAlice = kAlice
    kBob = kBob
    m1 = m1
    m2 = m2
    Servers = {s1}
    Mailboxes = {alice, bob}
    Clients = {kAlice, kBob}
    Messages = {m1}
    MailboxOf <- TwoUsers
    From <- FromAlice
    To <- ToBob
    NoMailbox = NoMailbox
    NoServer = NoServer
    NoSocket = NoSocket
    Faults = {"db"}
    MaxConn = 1
    MaxSends = 1
    MaxTyping = 0
    MaxDrops = 0
    MaxCrashes = 0
SPECIFICATION Spec
CHECK_DEADLOCK FALSE
INVARIANTS
    AckedIsStored
