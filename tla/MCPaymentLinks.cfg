CONSTANTS
  t1 = t1
  t2 = t2
  r1 = r1
  Call = {v1}
  CaseRef = case1
  Rung = {r1}
  Tool = {t1, t2}
  Shifts <- MCShifts
  Amount <- MCAmount
  FaultKind = {"throw", "lost", "race", "die"}
  MaxFaults = 1
SPECIFICATION Spec
INVARIANTS RecoveredAsPaid DiscountBounded
PROPERTIES SweepConfirmsFirst BackstopRecords
CHECK_DEADLOCK FALSE
