SPECIFICATION MCUnattendedSpec
CONSTANTS
  c1 = c1
  c2 = c2
  g1 = g1
  Client = {c1}
  Requester = {}
  Guard = {g1}
  GuardOf <- MCGuardOf
  w1 = w1
  w2 = w2
  Wallet = {w1}
  WalletOf <- MCSharedWallet
  Price <- MCPrice
  Reader = {}
  Amount = {1}
  Budget <- MCBudget
  PidOf <- MCSamePid
  MaxCalls = 1
  LastDay = 1
  U64Max = 4
  Radix = 2
  Nobody = Nobody
INVARIANTS SpendIsCounted
CHECK_DEADLOCK FALSE
