\* Two visits of the page under two logins; sockets close without bound.
\* A logged-in user may stay away from the page, so behaviours may end.
CONSTANTS
    FirstDelay = 1
    MaxDelay = 3
    MaxLogins = 2
    MaxMounts = 2
SPECIFICATION FairSpec
CHECK_DEADLOCK FALSE
INVARIANTS
    TypeOK
    OneContinuation
    QuietAfterUnmount
PROPERTIES
    RetriesUntilExpired
