\* Every kind of line, ESC and Ctrl+C at any moment, two questions, one fault.
SPECIFICATION FairSpec
CONSTANTS
  bash = bash
  edit = edit
  brief = brief
  Tools = {bash, edit, brief}
  Shells = {bash}
  Talk = {brief}
  StartModes = {"read-only", "workspace-write"}
  Inputs = {"chat", "at", "permissions", "model", "plan", "command", "exit"}
  Choices = {"yes", "session", "no"}
  NoQuestion = NoQuestion
  MaxKeys = 3
  MaxAhead = 2
  MaxCalls = 2
  MaxFaults = 1
INVARIANTS
  Inv
  ConsentBeforeRun
  NoStaleCancel
  ScreenIsTrue
  TerminalHandedOver
PROPERTIES
  EveryTurnReturns
CHECK_DEADLOCK FALSE
