SPECIFICATION Spec
CONSTANTS
  w1 = w1
  w2 = w2
  small = small
  large = large
  Windows <- MCWindows
  Viewers = {w1}
  Files = {"f"}
  Scratch = "scratch"
  Contents <- MCContents
  First = small
  None = None
  Torn = Torn
  Damaged = Damaged
  Size <- MCSize
  MaxPerFile = 2
  MaxTotal = 4
  MaxSaves = 3
  MaxEdits = 1
  MaxTroubles = 1
INVARIANTS IndexedIsRestorable
PROPERTIES RestoresAreSafe ViewCatchesUp
