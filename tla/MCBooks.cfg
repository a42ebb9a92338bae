SPECIFICATION MoneySpec
CONSTANTS
  order = order  payment = payment  refund = refund  sold = sold
  bought = bought  stocked = stocked  bill = bill  paid = paid  later = later
  h1 = h1  rc1 = rc1  rc2 = rc2
  Document <- MCBooks
  Kind <- MCKindOf
  Of <- MCOfOf
  Amount <- MCAmount
  Age <- MCAge
  Window = 1
  Handler <- MCHandler
  Reconciler <- MCReconcilers
  Renamable = {"cash"}
  MaxFaults = 1
  y1 = y1  y2 = y2
  Invoice = {y1, y2}
  Payer = {rc1, rc2}
  MaxTotal = 3
  Till = {y1, y2}
  SaleKey = {k1, k2}
  Cashier = {u1, u2}
  TillWorker = {rc1, rc2}
  OpeningCash = 1
  NoTill = notill
SYMMETRY MCBooksSymmetry
INVARIANTS
  BookedOnce
  AcknowledgedIsBooked
  CashComesFirst
  
  OwesTheRest
  TillExpectsItsCash
CHECK_DEADLOCK FALSE
