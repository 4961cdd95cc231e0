CONSTANTS
  Case = {c1}
  None = None
  Failed = {f1}
  AlreadyPaid = {}
  Paid = {}
  Cancelled = {}
  Waker = {w1}
  Rungs = 1
  Channel = {wa}
  Fanout = {}
  SweepBatch = 2
  MaxCrowd = 2
  MaxAttempts = 2
  Retries = 1
  FaultKind = {"throw", "die"}
  MaxResumes = 1
  MaxToggles = 2
  MaxFaults = 1
SPECIFICATION FairSpec
PROPERTY CasesEnd
\* Every case may have ended, every delivery been handled, every ladder run out.
CHECK_DEADLOCK FALSE
