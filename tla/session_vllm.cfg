CONSTANTS
  Turns = {t1, t2, t3}
  NULL = NULL
  MaxChunks = 1
  DeployChat = TRUE
  DeployTool = TRUE
  Vllm = TRUE
  FlushBuffering = FALSE
  SendsSuspend = FALSE
  LegacyAsyncio = FALSE
  UnclassifiedErrors = FALSE
SPECIFICATION Spec
SYMMETRY Symmetry
CONSTRAINT Explored
CHECK_DEADLOCK FALSE
INVARIANTS LiveIsTracked TurnsAreAnswered
PROPERTIES SilentAfterAbort ImplementsProtocol FollowupMatches
