\* insert() with an emoji: the indices move by UTF-16 units.
SPECIFICATION TextSpec
CHECK_DEADLOCK FALSE
CONSTANTS
    None = None
    Sources <- MCSources
    Inserts <- MCInserts
    MaxEdits = 2
    MaxDetects = 2
INVARIANT FacetsAreUtf8
