SPECIFICATION FairDeploymentSpec
CONSTANTS
  r1 = r1
  p1 = p1
  N = 2
  Directory = {1}
  Rust = {r1}
  Python = {p1}
  Absent = Absent
  Partial = Partial
  Nobody = Nobody
  MaxStarts = 3
  MaxWrites = 2
  MaxCrashes = 2
  MaxDevice = 1
INVARIANTS DeploymentTypeOK RustIsExcluded PythonIsWhole StateIsRecoverable RetirementIsTrue
PROPERTIES RestoredStays MaintenanceSpec RollbackCompletes
CHECK_DEADLOCK FALSE
