SPECIFICATION FairSpec
CONSTANTS
    j1 = j1
    j2 = j2
    Jobs = {j1, j2}
    NoJob = NoJob
    CardsOf <- CardsTwo
    PathsOf <- PathsTwo
    AllowSession = TRUE
    MaxInFlight = 1
    MaxRetries = 1
    MaxMail = 1
INVARIANTS
    PanelInvariant
    AcceptedWasExplained
    DecisionLoosensLittle
PROPERTIES
    EveryReviewDecided
CHECK_DEADLOCK FALSE
