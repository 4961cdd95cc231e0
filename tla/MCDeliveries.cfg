CONSTANTS
  new = new  old = old  older = older  p1 = p1  p2 = p2  e1 = e1  e2 = e2  o1 = o1  o2 = o2  bank = bank
  Delivery = {new, old, older}
  Phone = {p1, p2}
  Email = {e1, e2}
  None = None
  Histories <- AllHistories
  Unstamped = {old, older}
  Redriver = {cron, script}
  Cron = cron
  Limit = 1
  MaxAttempts = 2
  MaxFaults = 1
SPECIFICATION Spec
INVARIANT SettledForCause
\* Every delivery may have been handled.
CHECK_DEADLOCK FALSE
PROPERTY EveryDeliverySettles
