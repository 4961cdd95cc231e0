CONSTANTS
  Table <- RAW_POLICY_ROWS
  Failures <- AllFailures
  Followed <- Run
  Merchants <- AllMerchants
  Reaches <- AllReaches
  Late = {0}
  MAX_DEFERRALS_PER_RUNG = 12
  MaxEvents = 2
SPECIFICATION Spec
INVARIANTS LadderFits SaysWhatWorks PromisesKept NightKept CoolOff NoIdleDeferral
PROPERTIES LadderEnds
\* A ladder may have ended, a failure may not be followed.
CHECK_DEADLOCK FALSE
