SPECIFICATION FairSpec
CONSTANTS
  Request = {r1, r2}
  LayerId = {1, 2, 3, 4}
  MaxLayers = 1
  HistoryMaxTurns = 1
  RetryOnToolError = 1
  RateLimit = 2
  Minute = 1
  Replies <- AnyReply
  MaxTurns = 2
  MaxEpoch = 1
INVARIANTS
  TypeOK
  AcceptableHistory
  MemoryMatchesTranscript
  RateLimited
  PromptIsCurrent
PROPERTIES
  IsConversation
  ChatEnds
