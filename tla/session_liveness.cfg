CONSTANTS
  Turns = {t1, t2}
  NULL = NULL
  MaxChunks = 1
  DeployChat = TRUE
  DeployTool = TRUE
  Vllm = FALSE
  FlushBuffering = FALSE
  SendsSuspend = FALSE
  LegacyAsyncio = FALSE
  UnclassifiedErrors = FALSE
SPECIFICATION FairSpec
CHECK_DEADLOCK FALSE
PROPERTIES EveryTurnEnds LostClientIsFinalized
