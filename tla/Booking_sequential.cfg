CONSTANTS
  Appts = {a1, a2}
  Barbers = {b1}
  b1 = b1
  staff1 = staff1
  Staff <- MCStaff
  Hours <- MCSplitHours
  Customers = {c1, c2}
  Requests = {r1}
  Workers = {}
  Starts = {2, 3, 5}
  Durations = {1, 2}
  Vetting = {TRUE, FALSE}
  Step = 1
  Lead = 1
  Cutoff = 1
  PendingTTL = 1
  MaxTime = 4
SPECIFICATION Spec
INVARIANT BookedTimeIsWorkingTime
INVARIANT ClosedOutOnlyAfterStart
PROPERTY TerminalIsFinal
SYMMETRY SlotSymmetry
