SPECIFICATION OrderSpec
CONSTANTS
  k1 = k1  u1 = u1  c1 = c1  c2 = c2  o1 = o1  o2 = o2
  Payment <- MCPayment
  Unkeyed <- MCUnkeyed
  Amount <- MCAmount
  Total = 2
  Client <- MCClient
  MaxRefunds = 2
  OrderKey = {o1, o2}
  Shopper = {c1, c2}
  PriceSet = {4}
  MemberPrice = 4
  PromotionPrice = 2
  PercentSet = {50}
  FixedSet = {3}
  MinimumSet = {3}
  LimitSet = {1, nolimit}
  MaxUses = 2
  NoLimit = nolimit
  Payable = {p1}
  Proof = {o1, o2}
  Hosted = {h1}
  QrObject = {o1, o2}
  Desk = {c1, c2}
  NoObject = noobject
  Variant = {x1, x2}
  Base = base
  CatalogueLine = {o1, o2}
  Admin = {c1, c2}
  MaxItems = 4
SYMMETRY MCSymmetry
CONSTRAINT Undisturbed
INVARIANTS
  StatusMatchesPayments
  CheckoutAddsUp
  
  LineKeepsIdentity
  StatusAnnounced
  PaidNeedsPayment
PROPERTIES
  FinalStays
CHECK_DEADLOCK FALSE
