SPECIFICATION MCSpec
CONSTANTS
  r1 = r1
  r2 = r2
  k1 = k1
  k2 = k2
  b1 = b1
  b2 = b2
  Runner = {r1, r2}
  Attempt = {k1, k2}
  Binary = {b1, b2}
  Claims <- MCClaims
  PathsChecked = FALSE
  Free = Free
  LastMoment = 1
  MaxStarts = 3
  Floor = 2
  NoLimit = NoLimit
  World <- MCWorld
  Ask <- MCAsk
  Later <- MCLater
INVARIANTS SubmittedOnce VerdictIsTrue ToldIsRecorded WindowHolds
PROPERTIES VerdictIsFinal RunnersEnd
CHECK_DEADLOCK FALSE
