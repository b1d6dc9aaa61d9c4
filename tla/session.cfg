SPECIFICATION Spec
CONSTANTS
  a = a
  b = b
  Tokens = {a, b}
  Eos = eos
  Ctx = 3
  UBatch = 2
  MaxTokens = 2
  Opening <- OpeningPrompts
  Continuation <- ContinuationPrompts
  Ops = 3
  Recurrent = {2}
  Clients = {"server", "chat"}
INVARIANTS NeverRefused MemoryIsHistory LogitsFresh HistoryIsTranscript
PROPERTIES RequestEnds
CHECK_DEADLOCK FALSE
