\* All bytes, all pairs of twelve atoms, and all texts of three or four of four atoms.
SPECIFICATION Spec
CONSTANTS
  BpeVocab <- mcBpeVocab
  Merges <- mcMerges
  SpmScore <- mcSpmScore
  Conversations <- mcConversations
  Lines <- mcLines
  Draws <- mcDraws
  Clients <- mcClients
  Piece <- mcPiece
  Weight <- mcWeight
  SystemPrompt <- mcSystemPrompt
  USER_MAX = 12
  SYS_MAX = 6
  CHUNK_MAX = 5
  SPECIAL_MAX = 6
  SYMBOLS_MAX = 6
  MAX_PROMPT = 24
  CAP = 1
  Eos = 5
  MAX_TOKENS = 2
  RESP_MAX = 6
  ESCAPED_MAX = 18
  WRAPPER = 8
  BODY_MAX = 21
INVARIANTS PromptFaithful MergesByRank OnlyValidLines StreamExact SampledAllowed
CHECK_DEADLOCK FALSE
