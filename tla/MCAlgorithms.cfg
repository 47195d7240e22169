SPECIFICATION AlgorithmsSpec
CONSTANTS
  PerChunk = 4
  Block = 2
  FragBlocks = 2
  WeightChunk = 4
  UBatch = 4
  TraceUBatch = 2
  MaxVecBatch = 1
  RowPadding = 4
  PrefixLen = 2
  PromptBytes = 1
  AnswerBytes = 3
  TokenBytes = 4
  PromptMargin = 1
  SeqChunk = 3
  BlockBudget = 8
  RecurRows = 1

  MaxTokens = 3
  PieceBytes = {1, 6}
  Contexts = {4, 6, 9}

  HashChunk = 2
  CountValues = 4
  MaxRequest = 18
  MaxBody = 3
  MaxRecipients = 2
  MaxLeaves = 9
  MaxForged = 4

  MaxClaimBatch = 3
  Windows = {1, 2}
  Escrows <- MCEscrows
  MaxQueue = 4

  Space = 64
  Sizes = {8, 16}
  Extranonces = {0, 1, 3, 9}
  Batch = 3
INVARIANT HonestAccepted
INVARIANT ReplayCovers
INVARIANT NothingUnaudited
INVARIANT CommitsItsShape
INVARIANT ProofsExact
INVARIANT BodiesExact
INVARIANT PayloadsExact
INVARIANT PrivateExact
INVARIANT BatchesSpendable
INVARIANT NothingWaits
INVARIANT RunInRange
PROPERTY RunsTile
CHECK_DEADLOCK FALSE
