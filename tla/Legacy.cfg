SPECIFICATION ClientSpec
CONSTANTS
  None = None
  Client = {p1, p2}
  Option <- MCOption
  Response <- MCResponse
  Offer <- MCOffer
  Answer <- MCAnswer
  Outcome <- MCOutcome
  Payloads <- MCPayloads
  Numeral <- MCNumeral
  Moment <- MCMoment
  HashOf <- MCHashOf
  Service <- MCService
  Budget = 2
  Cap = 2
  Preferred = "Payment"
  LastDay = 2
  p1 = p1
  p2 = p2
INVARIANTS BudgetHolds SpendIsCounted NoChangeIsLost UnusableStaysUnused ReportIsTrue NothingStaysReserved OffersAreRead PaymentsAreProved
SYMMETRY MCSymmetry
