SPECIFICATION Spec
CONSTANTS
    Alphabet <- Characters
    Letters = {"C"}
    PlatformIds = {40, 100}
    LINUX = 100
    Entry <- EntryName
    Marker = "m"
    MaxLength = 7
CHECK_DEADLOCK FALSE
INVARIANTS
    PathsAreCanonical
PROPERTIES
    ClimbEnds
