SPECIFICATION BackOfficeSpec
CONSTANTS
  i1 = i1  i2 = i2  r1 = r1  r2 = r2  r3 = r3  c1 = c1  m1 = m1  m2 = m2
  w1 = w1  w2 = w2  t1 = t1  t2 = t2  t3 = t3  b1 = b1  b2 = b2
  Item <- MCItem
  Ordered <- MCOrdered
  Request <- MCRequest
  Sum <- MCSum
  Largest <- MCLargest
  Clerk = {w1, w2}
  Transformation = {m1, m2}
  Canceller = {w1, w2}
  StockBin = {"a", "b"}
  Line <- MCLine
  StockAtFirst = 1
  Category = {t1, t2, t3}
  Root = root
  Editor = {w1, w2}
  Definition = {d1}
  Price = price
  DataRow = {t1, t2, t3}
  DataClerk = {w1, w2}
  ValueType = {"NUMBER", "SELECT"}
  Textual = {"SELECT"}
  Label = {t1, t2, t3}
  ScanCode = {y1, y2}
  LabelOwner = {"item", "product"}
  Single = {"item"}
  LabelClerk = {w1, w2}
  Unit = {b1, b2}
  FactorsOf <- MCFactorsOf
  Patch <- MCPatch
  RuleInput <- MCRuleInput
  SetupClerk = {w1, w2}
  SetupLine = {1, 2}
  Serialized = FALSE
  PaperSet = {{}, {"assets"}, {"batch", "expiry"}}
  Null = null
  MaxSetup = 3
SYMMETRY MCSymmetry
CONSTRAINT Undisturbed
INVARIANTS
  ReceivedMatchesReceipts
  ReceivedIsComplete
  MovedAsShown
  TreeIsWhole
  OneRowPerSlot
  LabelsAreClear
  
CHECK_DEADLOCK FALSE
