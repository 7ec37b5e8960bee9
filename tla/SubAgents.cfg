\* An agent that may write todos, one that may not, and the main thread; two things may go wrong.
SPECIFICATION FairSpec
CONSTANTS
  explorer = explorer
  worker = worker
  open = open
  done = done
  Agents = {explorer, worker}
  TypeOf <- ExplorerAndWorker
  Main = Main
  Lists = {open, done}
  Finished = {done}
  MaxWrites = 2
  MaxFaults = 2
INVARIANTS
  Inv
  TodosAreTrue
PROPERTIES
  EveryAgentReports
CHECK_DEADLOCK FALSE
