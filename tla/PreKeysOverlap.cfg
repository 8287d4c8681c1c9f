\* Calls of replenish, which may overlap and fail, a reload, and senders that
\* fetch.
\* Calls and requests are bounded, so behaviours end in states without a successor.
CONSTANTS
    c1 = c1
    c2 = c2
    f1 = f1
    f2 = f2
    Setup = Setup
    Calls = {c1, c2}
    Fetchers = {f1, f2}
    InitialKeys = 2
    OPK_LOW_WATERMARK = 2
    OPK_REPLENISH_COUNT = 2
    MaxFailures = 2
    MaxReloads = 1
SPECIFICATION Spec
CHECK_DEADLOCK FALSE
INVARIANTS
    TypeOK
    GivenOnce
    OpensUnlessLost
    IdsCollideOnlyInOverlap
    SavedUnlessFailed
