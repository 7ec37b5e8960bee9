\* Two processes, two memories, two entities; two accidents anywhere.
SPECIFICATION Spec
CONSTANTS
  Procs = {p1, p2}
  Memories = {m1, m2}
  Entities = {e1, e2}
  Torn = Torn
  Split = Split
  LineFeed = LineFeed
  MaxFaults = 2
SYMMETRY Symmetry
INVARIANTS
  Inv
  QuietStoresKeepAll
PROPERTIES
  IndexCatchesUp
