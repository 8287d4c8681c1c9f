\* One server that may crash, fair: the promise of module Mailbox, to a device
\* that is sent its own user's messages, loses its socket and reconnects.  The
\* bounds stop it, so behaviours end in states without a successor.
CONSTANTS
    s1 = s1
    s2 = s2
    alice = alice
    bob = bob
    kAlice = kAlice
    kBob = kBob
    m1 = m1
    m2 = m2
    Servers = {s1}
    Mailboxes = {alice, bob}
    Clients = {kBob}
    Messages = {m1, m2}
    MailboxOf <- TwoUsers
    From <- FromBob
    To <- ToBob
    NoMailbox = NoMailbox
    NoServer = NoServer
    NoSocket = NoSocket
    Faults = {}
    MaxConn = 2
    MaxSends = 1
    MaxTyping = 0
    MaxDrops = 1
    MaxCrashes = 1
SPECIFICATION FairSpec
CHECK_DEADLOCK FALSE
INVARIANTS
    TypeOK
    LocalTablesAgree
    CursorHasNoGap
    DeliveriesAscend
    RegistryComplete
PROPERTIES
    ImplementsMailbox
    StoredIsReceived
