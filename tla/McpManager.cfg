\* Two servers whose tool names collide, every way a server may behave, every operation of the manager.
SPECIFICATION FairSpec
CONSTANTS
  alpha = alpha
  beta = beta
  read = read
  write = write
  alphaRead = alphaRead
  either = either
  Servers = {alpha, beta}
  Order <- BothInOrder
  Tools = {read, write}
  Names = {alphaRead, either}
  Qualify <- Colliding
  NoName = NoName
  Operations = {"discover", "call", "execute"}
  SpawnFails = TRUE
  Refusals = {"error", "empty"}
  OutOfTurn = {"notification", "request"}
  MaxId = 5
  MaxFaults = 1
  MaxPages = 2
INVARIANTS
  Inv
  OutcomeIsTrue
  DiscoveryIsExact
PROPERTIES
  EveryOperationReturns
