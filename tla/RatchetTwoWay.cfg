\* Both parties send; the network loses, reorders and repeats messages.
\* The bound stops the users, so behaviours end in states without a successor.
CONSTANTS
    MAX_SKIP = 2
    MaxSent = 4
SPECIFICATION Spec
CHECK_DEADLOCK FALSE
INVARIANTS
    LateMessagesOpen
    UsedKeysAreGone
    KeysAreFresh
