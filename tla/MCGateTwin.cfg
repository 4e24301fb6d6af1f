SPECIFICATION FairSpec
CONSTANTS
    a = a
    b = b
    t = t
    o = o
    s1 = s1
    r1 = r1
    r2 = r2
    r3 = r3
    NoFile = NoFile
    NoSession = NoSession
    Requests = {r1, r2}
    Sessions = {s1}
    Names <- MCNames
    Texts <- MCTexts
    Paths <- MCPathsTwin
    TwinPaths <- MCTwins
    TwinOf <- TwinOfA
    Outside <- NoneOutside
    NewFiles <- NoForeign
    ForeignHunks <- ForeignA
    Calls <- CallsTwinAndCode
    MaxPending = 2
    MaxToggles = 1
    MaxEdits = 1
    MaxHunkKeys = 4
INVARIANTS
    AppliedWasDecided
PROPERTIES
    ImplementsHumanCheckpoint EveryCallAnswered ExpectationsSettle
CHECK_DEADLOCK FALSE
