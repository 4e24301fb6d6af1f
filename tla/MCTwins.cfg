SPECIFICATION Spec
CONSTANTS
  Texts <- SomeTexts
  FirstText <- FirstOne
  Forms = {"stem", "full"}
  FirstForm = "stem"
  None = None
  Kinds = {"auto", "force"}
  MaxEdits = 2
  MaxAsks = 2
  MaxTroubles = 2
  MaxEvents = 3
INVARIANTS SidecarTellsTruth NoWordsLost
PROPERTIES MarksCatchUp
CHECK_DEADLOCK FALSE
