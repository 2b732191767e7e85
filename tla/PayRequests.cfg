SPECIFICATION Spec
CONSTANTS
  c1 = c1
  c2 = c2
  g1 = g1
  Client = {c1, c2}
  Requester = {c1, c2}
  Guard = {g1}
  GuardOf <- MCGuardOf
  w1 = w1
  w2 = w2
  Wallet = {w1, w2}
  WalletOf <- MCOwnWallet
  Price <- MCPrice
  Reader = {}
  Amount = {2}
  Budget <- MCBudget
  PidOf <- MCRetry
  MaxCalls = 1
  LastDay = 2
  U64Max = 4
  Radix = 2
  Nobody = Nobody
CONSTRAINT MCMidnight
INVARIANTS SpendIsCounted OpenPaymentsAreGuarded
PROPERTIES NoRepaymentSameDay RetainedIsReported
CHECK_DEADLOCK FALSE
