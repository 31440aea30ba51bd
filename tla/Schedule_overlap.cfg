CONSTANTS
  Appts = {a1, a2}
  Barbers = {b1}
  Shop = shop
  Service = service
  Requests = {r1, r2}
  DayLength = 4
  Starts = {1, 4}
  Duration = 2
  Lead = 1
  BreakIds = {k1}
  BreakSpans <- MCBreakSpans
  ClosureRanges <- MCClosureRanges
  Weeks <- MCWeeks
  FirstWeek <- FullWeek
  MaxVersion = 2
  MaxTime = 1
SYMMETRY RequestSymmetry
SPECIFICATION Spec
INVARIANT TypeOK
 
 
 
PROPERTY WeekIsReplaced
