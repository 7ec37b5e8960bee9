\* Two turns of up to three replies with one tool use each, compaction in reach.
SPECIFICATION FairSpec
CONSTANTS
  Tools <- OneTool
  Requirements <- NoRequirements
  Tokens = {2, 4}
  NoUsage = NoUsage
  CounterModulus = 5
  PreserveRecent = 2
  ActiveModes = {"DangerFullAccess"}
  Prompters = {FALSE}
  HookDenials = {FALSE}
  MaxIterations = 2
  Threshold = 3
  MaxUses = 1
  MaxTurns = 2
  MaxRequests = 4
INVARIANTS
  LastWordSurvives
  UsageSurvivesResume
  RequestBudget
PROPERTIES
  HistoryGrowsOrCompacts
  TurnEnds
