CONSTANTS
  Appts = {a1, a2}
  Barbers = {b1}
  b1 = b1
  staff1 = staff1
  Staff <- MCStaff
  Hours <- MCSplitHours
  Customers = {c1}
  Requests = {r1, r2}
  Workers = {}
  Starts = {2, 3, 5}
  Durations = {1, 2}
  Vetting = {TRUE}
  Step = 1
  Lead = 2
  Cutoff = 9
  PendingTTL = 0
  MaxTime = 0
SPECIFICATION Spec
INVARIANT TypeOK
INVARIANT NoDoubleBooking
PROPERTY ImplementsCalendar
 
SYMMETRY SlotSymmetry
