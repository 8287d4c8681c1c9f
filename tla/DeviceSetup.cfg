\* Two tabs of one browser, two accounts, every failure.
\* The bounds stop the users, so behaviours end in states without a successor.
CONSTANTS
    Nobody = Nobody
    Tabs = {"t1", "t2"}
    Users = {"alice", "bob"}
    Names = {"laptop"}
    MaxSubmits = 2
    MaxFailures = 1
    MaxReloads = 1
    MaxLogins = 2
SPECIFICATION FairSpec
CHECK_DEADLOCK FALSE
INVARIANTS
    TypeOK
    NoSilentOrphan
    OneDevicePerBrowser
PROPERTIES
    SkipsToChat
