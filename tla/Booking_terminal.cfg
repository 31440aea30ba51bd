CONSTANTS
  Appts = {a1}
  Barbers = {b1}
  b1 = b1
  staff1 = staff1
  Staff <- MCStaff
  Hours <- MCHours
  Customers = {c1}
  Requests = {r1, r2}
  Workers = {}
  Starts = {2, 3}
  Durations = {1}
  Vetting = {FALSE}
  Step = 1
  Lead = 1
  Cutoff = 1
  PendingTTL = 1
  MaxTime = 3
SPECIFICATION FairSpec
PROPERTY TerminalIsFinal
