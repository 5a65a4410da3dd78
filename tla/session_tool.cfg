CONSTANTS
  Turns = {t1, t2}
  NULL = NULL
  MaxChunks = 1
  DeployChat = FALSE
  DeployTool = TRUE
  Vllm = FALSE
  FlushBuffering = FALSE
  SendsSuspend = TRUE
  LegacyAsyncio = TRUE
  UnclassifiedErrors = TRUE
SPECIFICATION Spec
SYMMETRY Symmetry
CHECK_DEADLOCK FALSE
INVARIANT TurnsAreAnswered
