\* The server as an atomic store: what the Gate 2 checks can see, on non-executable names.
SPECIFICATION Spec
CONSTANTS
  doc = doc
  script = script
  hosts = hosts
  old = old
  new = new
  huge = huge
  torn = torn
  Files = {doc, hosts}
  ExecNames = {}
  Protected = {hosts}
  Values <- Small
  Big = {}
  Garbage = torn
  Absent = Absent
  Stamps = {s1, s2}
  Txs = {t1, t2}
  Ops = {"OVERWRITE", "CHMOD", "DELETE"}
  Behaviours = {"honest", "fails", "failsMidway", "spills", "setsExec"}
  Expiries = {TRUE, FALSE}
  RestoreErrs = {FALSE}
  Concurrent = FALSE
  Crashes = FALSE
  MaxStrays = 1
PROPERTIES
  ImplementsAtomic
