SPECIFICATION ShopSpec
CONSTANTS
  k1 = k1  e1 = e1  e2 = e2  c1 = c1  c2 = c2  x1 = x1  x2 = x2  y1 = y1  y2 = y2
  p1 = p1  p2 = p2  v1 = v1  s1 = s1  s2 = s2  g1 = g1  g2 = g2  g3 = g3
  Key <- MCKey
  Event <- MCEvent
  KeyOf <- MCKeyOf
  NumRules = 2
  Matches <- MCMatches
  Caller = {c1, c2}
  MaxStarts = 4
  Member = {m1}
  LoginCall = {c1, c2}
  RoleName = {"STAFF"}
  MaxAttempts = 2
  Lifetime = 1
  MaxTime = 1
  MaxLogins = 2
  Account = {y1, y2}
  CustomerRow = {r1, r2, r3}
  GuestOrder = {x1, x2}
  Lookup = {l1}
  AccountCall = {c1, c2}
  NoAccount = noaccount
  NoRow = norow
  Address = {x1, x2}
  CartRow = {y1, y2}
  LineKey = {k1}
  Factor <- MCFactor
  StoreCall = {c1, c2}
  MaxQuantity = 2
  Product = {p1, p2}
  Variant = {v1}
  StockEntry = {s1, s2}
  VariantOf <- MCVariantOf
  SoldAs <- MCSoldAs
  Tracked = {s1}
  CreatedAt <- MCCreatedAt
  GroupsOf <- MCGroupsOf
  Category = {g1, g2, g3}
  NameOf <- MCNameOf
  Upper <- MCUpper
  Amount = {1, 2}
  Level = {0, 3}
  ScanCode = {k1}
  Carrier <- MCCarrier
  Query <- MCQuery
  Collection <- MCCollection
  CategoryQuery <- MCCategoryQuery
  None = null
  MaxEdits = 2
  Fact = {f1}
  Mailed = {f1}
  Mail = {x1, x2}
  NoticeRun = {y1, y2}
  Processor = {c1, c2}
  MaxMessages = 1
SYMMETRY MCSymmetry
CONSTRAINT Undisturbed
INVARIANTS
  SuccessIsComplete
  RetryExecutesOnce
  RunningHasRunner
  
  
  BookAndCartAgree
  
  NoticesAreTrue
CHECK_DEADLOCK FALSE
