SPECIFICATION Spec
CONSTANTS
    a = a
    b = b
    t = t
    o = o
    s1 = s1
    r1 = r1
    r2 = r2
    r3 = r3
    NoFile = NoFile
    NoSession = NoSession
    Requests = {r1, r2}
    Sessions = {s1}
    Names <- MCNames
    Texts <- MCTexts
    Paths <- MCPathsMixed
    TwinPaths <- MCTwins
    TwinOf <- TwinSelf
    Outside <- MCOutside
    NewFiles <- NewB
    ForeignHunks <- NoForeign
    Calls <- CallsCore
    MaxPending = 1
    MaxToggles = 0
    MaxEdits = 0
    MaxHunkKeys = 4
SYMMETRY Symmetric
INVARIANTS
    AllowNeedsHuman
    AllowIsUndoable
    GateInvariant
PROPERTIES
    ShutdownAnswersAsk
    RejectedStaysOut
CHECK_DEADLOCK FALSE
