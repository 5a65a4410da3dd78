CONSTANTS
  NULL = NULL
  NameMarks <- MCNameMarks
  Sources <- MCSources
  Jobs <- MCJobs
  MaxLaunches = 2
  LogTexts <- MCTexts
  MaxLogWrites = 2
  Envs <- MCEnvs
  Hosts <- MCHosts
  ErrorClasses = {"EngineDeadError", "RuntimeError"}
  Machines = {m1, m2}
  MaxRuns = 3
  EngineBatch = 16
SPECIFICATION Spec
CONSTRAINT Explored
CHECK_DEADLOCK FALSE
INVARIANTS MarkerMeansWhole ServedKeepsItsProfile EngineFailureIsSeen ShutdownIsComplete WindowIsExact PrebuiltEngineFits
PROPERTY ImplementsOneFilter
