\* One turn of two requests: every permission mode, a prompter or none, hooks, two tool uses in a reply.
SPECIFICATION Spec
CONSTANTS
  Tools <- TwoTools
  Requirements <- WriterOnly
  Tokens = {3}
  NoUsage = NoUsage
  CounterModulus = 5
  PreserveRecent = 2
  ActiveModes = {"ReadOnly", "WorkspaceWrite", "DangerFullAccess", "Prompt", "Allow"}
  Prompters = {TRUE, FALSE}
  HookDenials = {TRUE, FALSE}
  MaxIterations = 2
  Threshold = 3
  MaxUses = 2
  MaxTurns = 1
  MaxRequests = 2
INVARIANTS
  TypeOK
  EveryUseIsFollowedUp
  ToolsRunOnceInOrder
  RefusedNeverRuns
  OnlyPermittedRuns
PROPERTIES
  CancelledLearnsNothing
