CONSTANTS
  Case = {c1}
  None = None
  Failed = {f1}
  AlreadyPaid = {}
  Paid = {}
  Cancelled = {x1}
  Waker = {w1, w2}
  Rungs = 1
  Channel = {wa}
  Fanout = {}
  SweepBatch = 1
  MaxCrowd = 0
  MaxAttempts = 1
  Retries = 0
  FaultKind = {"throw", "die"}
  MaxResumes = 2
  MaxToggles = 2
  MaxFaults = 1
SPECIFICATION Spec
INVARIANT OneLadderPerClaim
PROPERTY RefinesLifecycle
\* Every case may have ended, every delivery been handled, every ladder run out.
CHECK_DEADLOCK FALSE
SYMMETRY Symmetry
