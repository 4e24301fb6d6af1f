SPECIFICATION Spec
CONSTANTS
    c1 = c1
    c2 = c2
    Calls = {c1, c2}
    MaxInFlight = 2
    FastPath = 1
    LongPoll = 2
    DoneTTL = 1
    MaxRequests = 4
    MaxTroubles = 2
    CommandLines <- Installed
    Results = {"allow", "error"}
    Watchdog = 3
    ReportWait = 1
INVARIANTS
    AnswerIsTheDecision
    NothingPassesUnchecked
    WithinBounds
PROPERTIES
    EveryCallEnds
CHECK_DEADLOCK FALSE
