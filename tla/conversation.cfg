CONSTANTS
  SpecialTokens = 2
  Null = Null
  ChatMaxLen = 18
  UserMax = 4
  Deployments = {"both", "chat", "tool"}
  ChatTrigger = 14
  ChatTarget = 9
  ToolStoreBudget = 7
  ToolInputBudget = 6
  DefaultCheck <- Check
  DefaultChecked <- Checked
  StartPayloads <- MCPayloads
  Utterances <- MCUtterances
  AnswerLengths = {0, 2}
  Samplings = {Null}
  MaxTurns = 3
SPECIFICATION Spec
INVARIANTS StoresAreBounded ChatIsRecent ToolTurnsInOrder NoPrefixRemembered PromptsAreSound
CHECK_DEADLOCK FALSE
