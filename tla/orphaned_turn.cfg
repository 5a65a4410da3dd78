CONSTANTS
  Turns = {t1}
  NULL = NULL
  MaxChunks = 1
  DeployChat = TRUE
  DeployTool = FALSE
  Vllm = TRUE
  FlushBuffering = FALSE
  SendsSuspend = FALSE
  LegacyAsyncio = FALSE
  UnclassifiedErrors = TRUE
SPECIFICATION Spec
CHECK_DEADLOCK FALSE
INVARIANT ClosedLeavesNoLiveTurn
