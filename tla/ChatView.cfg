\* A contact with a history and a new one, two texts; the connection comes and
\* goes without bound.
CONSTANTS
    Contacts = {"bob", "carol"}
    Watched = {"carol"}
    Known = {"bob"}
    None = None
    MaxTexts = 2
SPECIFICATION FairSpec
INVARIANTS
    TypeOK
    ShownIsTheConversation
    NoFlicker
PROPERTIES
    IndicatorGoesOff
