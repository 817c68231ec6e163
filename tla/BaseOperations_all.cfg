SPECIFICATION Spec
CONSTANTS
  Clients = {"openai", "ollama", "deepseek", "anthropic", "gemini", "plain"}
  Histories <- MCHistories
  Names = {"search", "guess", ""}
  KnownTools = {"search"}
  Settings <- MCSettings
  VendorErrors <- MCVendorErrors
  MaxChunks = 3
  ChanCap = 2
  Backends = {"pgvector", "weaviate", "inmem"}
  Workers = {w1, w2}
  Contexts <- MCContexts
  ExtraKeys = {}
  SubAgents = {"helper"}
  Talks <- MCTalks
  Topic <- MCTopic
  Replies <- MCReplies
  Filters <- MCFilters
  Kinds = {"note", "preference"}
  TTL <- MCTTL
  Allowed = {}
  HookIDs <- MCHookIDs
  MaxIds = 4
  MaxClock = 2
  MaxOps = 3
  Limit = 1
  Retrievers <- MCRetrievers
  StoreOf <- MCStoreOf
  Kind <- MCKind
  Turns <- MCTurns
  MaxAttempts = 2
  Adders = {w1, w2}
  MaxSize = 2
  ReadLimit = 2
  MaxAdds = 4
  MaxDrops = 1
INVARIANT DeliveredIsResult
INVARIANT ExchangeKept
INVARIANT OwnMemoriesKept
INVARIANT PromptIsolated
INVARIANT EffectOnce
INVARIANT HistoryWindow
SYMMETRY WorkerSymmetry
CHECK_DEADLOCK FALSE
