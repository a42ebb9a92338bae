SPECIFICATION Spec
CONSTANTS
  order = order  payment = payment  refund = refund  sold = sold
  bought = bought  stocked = stocked  bill = bill  paid = paid  later = later
  h1 = h1  rc1 = rc1  rc2 = rc2
  Document <- MCRepair
  Kind <- MCKindOf
  Of <- MCOfOf
  Amount <- MCAmount
  Age <- MCAge
  Window = 1
  Handler <- MCNone
  Reconciler <- MCReconciler
  Renamable = {"revenue"}
  MaxFaults = 1
PROPERTIES
  EventuallyBooked
  ExceptionsFollowStock
CHECK_DEADLOCK FALSE
