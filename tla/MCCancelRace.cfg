SPECIFICATION Spec
CONSTANTS
  k1 = k1  k2 = k2  c1 = c1  c2 = c2
  Payment <- MCOnePayment
  Unkeyed <- MCNone
  Amount <- MCWholeAmount
  Total = 2
  Client <- MCClient
  MaxRefunds = 1
PROPERTIES
  OnlyPendingIsCancelled
