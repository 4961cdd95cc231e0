CONSTANTS
  Case = {c1, c2}
  Order = {o1}
  Invoice = {i1}
  None = None
  Worker = {w1, w2}
  MaxPauses = 1
SPECIFICATION Spec
INVARIANTS OneLiveCasePerKey LedgerHonest OneResumePerPause
\* Every case may have ended and every id may be used up.
CHECK_DEADLOCK FALSE
SYMMETRY Symmetry
PROPERTY RefinesLifecycle
