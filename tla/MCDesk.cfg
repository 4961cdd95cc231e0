CONSTANTS
  Press = {p1, p2}
  Rings = 2
  Sync = {s1}
  Earlier = {1}
  Attempts = 2
  MaxFaults = 1
  Job = {j1, j2}
  Poll = {q1, q2}
  Ladder = Ladder
  Stamp = {f1}
  Unforced = Unforced
  Shifts = {{p1, p2}, {p1, s1}, {j1, j2, q1}, {j1, q1, q2}, {j1, q1, Ladder}}
  MaxToggles = 1
SPECIFICATION DeskSpec
INVARIANTS OncePerAsk AnswersHonest CallsCounted
\* People go home, and every call is over.
CHECK_DEADLOCK FALSE
