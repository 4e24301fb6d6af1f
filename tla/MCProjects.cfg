SPECIFICATION Spec
CONSTANTS
  Order <- OneFolder
  Files <- OneFiles
  FolderOf <- OneFolderOf
  Notes <- OneNotes
  FirstNotes <- OneFirst
  TwinPattern = "*_explain.txt"
  OwnLines = {"*.swp"}
  j1 = j1
  j2 = j2
  Jobs = {j1, j2}
  t1 = t1
  t2 = t2
  Threads = {t1, t2}
  Cleaner = Cleaner
  None = None
  MaxEvents = 3
SYMMETRY Symmetric
INVARIANTS PersonsFilesStay ExcludeIsWhole ProgressIsTrue
CHECK_DEADLOCK FALSE
