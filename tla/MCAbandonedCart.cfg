CONSTANTS
  Caller = {c1, c2, c3}
  Checker = {k1, k2}
  MishapKind = {"throw", "lost", "die"}
  MaxMishaps = 2
SPECIFICATION CartSpec
INVARIANT CartAgreesWithLink
PROPERTY PaidIsConfirmed
\* A cart that is over, with its calls and passes done, is left alone.
CHECK_DEADLOCK FALSE
