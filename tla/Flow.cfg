SPECIFICATION FlowSpec
CONSTANTS
  p1 = p1
  p2 = p2
  c1 = c1
  c2 = c2
  Nobody = Nobody
  Unlimited = Unlimited
  Process = {p1, p2}
  Purger = {p1, p2}
  Selected = {{c1, c2}}
  Credential = {c1, c2}
  Cached = {c1}
  MaxUses <- MCMaxUses
  MaxBoots = 2
INVARIANTS FlowTypeOK LimitsHold UsesAreDurable GoneStaysGone SecretsPrecedeMetadata
CHECK_DEADLOCK FALSE
SYMMETRY MCSymmetry
