SPECIFICATION Spec
CONSTANTS
  k1 = k1  k2 = k2  c1 = c1  c2 = c2
  Payment <- MCTwoPayments
  Unkeyed <- MCNone
  Amount <- MCFullAmount
  Total = 2
  Client <- MCClient
  MaxRefunds = 1
PROPERTIES
  NoSecondPayment
