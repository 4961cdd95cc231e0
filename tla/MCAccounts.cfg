CONSTANTS
  User = {"ann", "ben"}
  Shelf <- TwoShops
  Tab = {t1, t2}
  Access <- TwoUsers
  None = None
  SESSION_TTL = 1
  MaxTime = 1
  MaxActs = 2
  MaxPolls = 1
SPECIFICATION FairSpec
INVARIANTS ClicksStayOnPage OldPasswordIsOut
PROPERTY TabsCatchUp
CHECK_DEADLOCK FALSE
