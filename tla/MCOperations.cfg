CONSTANTS
  Case = {1, 2, 3}
  Holdout = {3}
  Amount <- MCAmount
  Rungs <- MCRungs
  Hand = {h1, h2}
  Person = {p1, p2, v1}
  NoRow = NoRow
  MaxFaults = 1
  MaxActs = 2
  MaxDefers = 2
  MaxResolves = 1
  Viewer = v1
  Polls = {1, 2}
  MaxClicks = 1
  MaxDrops = 3
  rare = rare
  common = common
  odd = odd
  Reason = {rare, common, odd}
  Occurrences <- MCOccurrences
  TriageRun = {t1, t2}
  Class = {bank, customer}
  MaxFailures = 2
  Page = Page
  Night = Night
  Shifts = {{1, 2}, {1, 3, Night}, {1, h1, h2}, {h1, p1, p2}, {h1, v1, Page}, {t1, t2}}
SPECIFICATION Spec
INVARIANTS RungLeavesItsMark PeopleToldTruly TriageSettles
PROPERTIES RecordsMoveForward PageCatchesUp
\* A shift ends.
CHECK_DEADLOCK FALSE
