\* Two servers, no fault at all, fair: does every device get what is stored?
CONSTANTS
    s1 = s1
    s2 = s2
    alice = alice
    bob = bob
    kAlice = kAlice
    kBob = kBob
    m1 = m1
    m2 = m2
    Servers = {s1, s2}
    Mailboxes = {alice, bob}
    Clients = {kAlice, kBob}
    Messages = {m1}
    MailboxOf <- TwoUsers
    From <- FromAlice
    To <- ToBob
    NoMailbox = NoMailbox
    NoServer = NoServer
    NoSocket = NoSocket
    Faults = {}
    MaxConn = 1
    MaxSends = 1
    MaxTyping = 0
    MaxDrops = 0
    MaxCrashes = 0
SPECIFICATION FairSpec
CHECK_DEADLOCK FALSE
PROPERTIES
    StoredIsReceived
