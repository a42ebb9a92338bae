SPECIFICATION Spec
CONSTANTS
  i1 = i1  i2 = i2  r1 = r1  r2 = r2  r3 = r3  c1 = c1
  Item <- MCItem
  Ordered <- MCOrdered
  Request <- MCRequest
  Sum <- MCSum
  Largest <- MCLargest
  Clerk <- MCOneClerk
INVARIANTS
  NoOverReceipt
CHECK_DEADLOCK FALSE
