SPECIFICATION Spec
CONSTANTS
  Lines <- MCLines
  Indent <- MCIndent
  Defines <- MCDefines
  Closes = {"}"}
  Braces <- MCBraces
  Trimmed <- MCTrimmed
  Signs <- MCSigns
  Styles <- MCStyles
  Blank = ""
  NoName = ""
  Texts <- MCTexts
  EditLists <- MCEditLists
  Patches <- MCPatches
  Symbols <- MCSymbols
  Trees <- MCTrees
  BatchTrivial = TRUE
  None = None
INVARIANTS MergeIsExact TrivialKeepsCode PatchIsPlayedWhereItFits
CHECK_DEADLOCK FALSE
