\* Two processes on one file, snapshots named in the same millisecond, an outsider in the directory.
SPECIFICATION FairSpec
CONSTANTS
  doc = doc
  script = script
  hosts = hosts
  old = old
  new = new
  huge = huge
  torn = torn
  Files = {doc}
  ExecNames = {}
  Protected = {}
  Values <- OldOrHuge
  Big = {huge}
  Garbage = torn
  Absent = Absent
  Stamps = {s1, s2}
  Txs = {t1, t2}
  Ops = {"OVERWRITE", "DELETE"}
  Behaviours = {"honest", "failsMidway", "panics"}
  Expiries = {FALSE}
  RestoreErrs = {FALSE}
  Concurrent = TRUE
  Crashes = TRUE
  MaxStrays = 1
INVARIANTS
  EverySnapshotIsOwned
PROPERTIES
  EveryMutationSettles
