SPECIFICATION Spec
CONSTANTS
  Typed = {"char", "space", "wide", "mark", "null", "newline"}
  Pastes <- SmallPastes
  MaxLine = 8
  MaxFolds = 2
  FoldThreshold = 4
  FoldContext = 1
  SwapBytes = 4
  MaxHistory = 2
  Marker = 2
  PromptWidth = 1
  Cols = 4
  MaxKeys = 5
INVARIANTS FoldsSound CursorShown HistoryFaithful
