CONSTANTS
  Case = {c1}
  None = None
  Failed = {f1}
  AlreadyPaid = {}
  Paid = {p1}
  Cancelled = {}
  Waker = {w1}
  Rungs = 2
  Channel = {wa, email}
  Fanout = {1}
  SweepBatch = 1
  MaxCrowd = 0
  MaxAttempts = 2
  Retries = 1
  FaultKind = {"lost", "die"}
  MaxResumes = 1
  MaxToggles = 2
  MaxFaults = 1
SPECIFICATION Spec
INVARIANTS RungFiresOnce EndedIsSilent
\* Every case may have ended, every delivery been handled, every ladder run out.
CHECK_DEADLOCK FALSE
SYMMETRY Symmetry
