SPECIFICATION Spec
CONSTANTS
  r1 = r1
  h1 = h1
  h2 = h2
  h3 = h3
  Requests = {r1}
  FunctionsOf <- Functions
  NameOf <- Names
  Oversized = {}
  ChunkSize = 2
  MaxEntries = 2
  Clis = {"claude"}
  ChannelOrder <- Order
  Pins = {"auto", "claude"}
  OnPath = {"claude"}
  Bundled = {}
  None = None
  MaxToggles = 2
  MaxFailures = 2
  MaxCancels = 1
  MaxEvents = 3
INVARIANTS AnswersAreCurrent NoChildLeft SpendIsBounded WordsFindTheirFunction
PROPERTIES RequestsEnd
CHECK_DEADLOCK FALSE
