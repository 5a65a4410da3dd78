CONSTANTS
  None = None
  NaN = NaN
  ProtocolVersion = 1
  DeployChat = TRUE
  Hosts = {h1, h2}
  MaxFailures = 2
  MessageLimit = 2
  CancelLimit = 1
  Window = 2
  KeyIsSet = TRUE
  OriginsListed = TRUE
  Frames <- ClientFrames
  MaxTime = 3
SPECIFICATION Spec
INVARIANTS ThrottleMatchesFailures OverridesMeanWhatWasSent LimitsHold
PROPERTY CancelsAreNotStarved
CHECK_DEADLOCK FALSE
