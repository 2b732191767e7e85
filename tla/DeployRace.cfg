SPECIFICATION DeploymentSpec
CONSTANTS
  r1 = r1
  p1 = p1
  N = 2
  Directory = {1}
  Rust = {r1}
  Python = {p1}
  Absent = Absent
  Partial = Partial
  Nobody = Nobody
  MaxStarts = 1
  MaxWrites = 1
  MaxCrashes = 2
  MaxDevice = 1
INVARIANTS RecordIsTrue

CHECK_DEADLOCK FALSE
