SPECIFICATION Spec
CONSTANTS
    a = a
    b = b
    t = t
    o = o
    s1 = s1
    r1 = r1
    r2 = r2
    r3 = r3
    NoFile = NoFile
    NoSession = NoSession
    Requests = {r1, r2, r3}
    Sessions = {s1}
    Names <- MCNames
    Texts <- MCTexts
    Paths <- MCPaths
    TwinPaths <- NoTwins
    TwinOf <- TwinSelf
    Outside <- NoneOutside
    NewFiles <- NoForeign
    ForeignHunks <- NoForeign
    Calls <- CallsTwoFiles
    MaxPending = 2
    MaxToggles = 0
    MaxEdits = 0
    MaxHunkKeys = 4
SYMMETRY Symmetric
INVARIANTS
    CoveredWasAccepted
CHECK_DEADLOCK FALSE
