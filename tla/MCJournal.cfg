SPECIFICATION JournalSpec
CONSTANTS
    w1 = w1
    w2 = w2
    Writers = {w1, w2}
    MaxEntries = 2
    MaxAppends = 4
    MaxStops = 1
    MaxFaults = 1
    MaxChanges = 1
    MaxOverlaps = 1
    MaxMishaps = 2
    Edits = {"alter", "damage", "remove", "reorder", "set aside", "delete", "lose archive"}
    NoFile = NoFile
    NoState = NoState
    Junk = Junk
SYMMETRY Symmetric
INVARIANTS
    JournalInvariant
    VerifiedIsAsWritten
PROPERTIES
    AppendOnly
CHECK_DEADLOCK FALSE
