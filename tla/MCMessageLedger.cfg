CONSTANTS
  Customer = {p1}
  Key = {k1, k2}
  KeyCustomer <- OneCustomer
  Sender = {s1, s2}
  None = None
  Cap = {1}
  MaxCap = 1
  Day = 2
  Horizon = 2
SPECIFICATION Spec
INVARIANTS FrequencyCap AtMostOneTouch OptOutHonoured IInv
SYMMETRY Symmetry
