\* Two servers route over Redis, one crashes, and everything outside them
\* fails: Postgres, Redis, tokens; keys expire.  The bounds stop the
\* clients, so behaviours end in states without a successor.
CONSTANTS
    s1 = s1
    s2 = s2
    alice = alice
    bob = bob
    kAlice = kAlice
    kBob = kBob
    m1 = m1
    m2 = m2
    Servers = {s1, s2}
    Mailboxes = {alice, bob}
    Clients = {kAlice, kBob}
    Messages = {m1}
    MailboxOf <- TwoUsers
    From <- FromAlice
    To <- ToBob
    NoMailbox = NoMailbox
    NoServer = NoServer
    NoSocket = NoSocket
    Faults = {"db", "redis", "expiry", "token"}
    MaxConn = 1
    MaxSends = 1
    MaxTyping = 1
    MaxDrops = 0
    MaxCrashes = 1
SPECIFICATION Spec
CHECK_DEADLOCK FALSE
INVARIANTS
    CarriedSeqIsTheRows
    OnlyToItsMailbox
    CursorIsARow
