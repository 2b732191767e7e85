SPECIFICATION LedgerSpec
CONSTANTS
  c1 = c1
  c2 = c2
  Client = {c1, c2}
  Guard = {g1}
  g1 = g1
  Price <- MCPrice
  Reader = {c2}
  Amount = {1}
  Budget <- MCBudget
  PidOf <- MCSomePids
  MaxCalls = 1
  LastDay = 2
  U64Max = 3
  Radix = 2
  Nobody = Nobody
CONSTRAINT MCDays
INVARIANTS TypeOK WithinBudget GuardsAreExclusive
PROPERTIES AtomicSpec
CHECK_DEADLOCK FALSE
