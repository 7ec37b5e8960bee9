\* One server that always answers, and only the CLI's way of calling a tool.
SPECIFICATION Spec
CONSTANTS
  alpha = alpha
  beta = beta
  read = read
  write = write
  alphaRead = alphaRead
  either = either
  Servers = {alpha}
  Order <- JustAlpha
  Tools = {read, write}
  Names = {alphaRead, either}
  Qualify <- AlphaNames
  NoName = NoName
  Operations = {"execute"}
  SpawnFails = TRUE
  Refusals = {"error", "empty"}
  OutOfTurn = {"notification", "request"}
  MaxId = 5
  MaxFaults = 0
  MaxPages = 2
INVARIANTS
  ServersAreReused
