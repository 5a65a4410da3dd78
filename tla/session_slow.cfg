CONSTANTS
  Turns = {t1, t2}
  NULL = NULL
  MaxChunks = 2
  DeployChat = TRUE
  DeployTool = FALSE
  Vllm = TRUE
  FlushBuffering = TRUE
  SendsSuspend = TRUE
  LegacyAsyncio = FALSE
  UnclassifiedErrors = TRUE
SPECIFICATION Spec
SYMMETRY Symmetry
CHECK_DEADLOCK FALSE
INVARIANTS EngineIsOwned HistoryMatchesWire
