SPECIFICATION Spec
CONSTANTS
  w1 = w1
  w2 = w2
  Windows = {w1, w2}
  Version <- Versions
  Runtime <- Runtimes
  Claude = Claude
  Codex = Codex
  Watchdogs = {"120", "300"}
  FirstWatchdog = "120"
  Persons = {"p"}
  FirstHooks <- OwnHook
  None = None
  Torn = Torn
  Foreign = Foreign
  MaxStarts = 2
  MaxEvents = 2
INVARIANTS QuietStartupArms PersonsHooksKept TrustOutlivesUpdates
CHECK_DEADLOCK FALSE
