\* Two mutations one after the other, every way an action goes wrong; a process may die or panic at any step.
SPECIFICATION Spec
CONSTANTS
  doc = doc
  script = script
  hosts = hosts
  old = old
  new = new
  huge = huge
  torn = torn
  Files = {doc, hosts}
  ExecNames = {}
  Protected = {hosts}
  Values <- Small
  Big = {}
  Garbage = torn
  Absent = Absent
  Stamps = {s1, s2}
  Txs = {t1, t2}
  Ops = {"CREATE", "OVERWRITE", "CHMOD", "DELETE"}
  Behaviours = {"honest", "failsMidway", "skips", "spills", "setsExec", "tampers", "panics"}
  Expiries = {TRUE, FALSE}
  RestoreErrs = {TRUE, FALSE}
  Concurrent = FALSE
  Crashes = TRUE
  MaxStrays = 1
INVARIANTS
  TypeOK
  RolledBackMeansRestored
  Gate2IsRight
  UndoPointHeld
