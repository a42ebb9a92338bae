SPECIFICATION WarehouseSpec
CONSTANTS
  l1 = l1  l2 = l2  r1 = r1  t1 = t1  g1 = g1  a1 = a1  w1 = w1  w2 = w2
  x1 = x1  x2 = x2  s1 = s1  s2 = s2
  Line <- MCLine
  Receipt <- MCReceipt
  Return <- MCReturn
  Gain <- MCGain
  Loss <- MCLoss
  Restocks <- MCRestocks
  Qty <- MCQty
  Expiry <- MCExpiry
  LastDay = 1
  Ordered <- MCOrdered
  Worker <- MCWorker
  Asset = {x1, x2}
  Sale = {s1, s2}
  AssetWorker = {w1, w2}
  IdentifierType = {"serial"}
  SerialLike = {"serial"}
  Required = {}
  Shown <- MCShown
  AssetStatusSet = {"AVAILABLE", "INACTIVE"}
  MaxTouched = 1
  NoAsset = noasset
SYMMETRY MCSymmetry
INVARIANTS
  QuantitiesAgree
  SoldLineHoldsNothing
  UnitsAreAccounted
PROPERTIES
  
  OldestFirst
CHECK_DEADLOCK FALSE
