CONSTANTS
  Zones <- MCZones
  Midnight = 4
  DayTicks = 4
  MaxTick = 5
  MaxShifts = 2
  MaxBusy = 2
  Durations = {1, 2}
  Steps = {1, 2}
  NotBefores = {2}
  x1 = x1
  x2 = x2
  x3 = x3
  Rows = {x1, x2, x3}
  Keys = {1, 2}
  Limits = {1, 2}
  IdOrder <- MCIdOrder
  MaxWrites = 2
  Appts = {a1, a2}
  Barbers = {b1, b2}
  Services = {v1, v2}
  Prices = {1, 2}
  Starts = {1, 2}
  Periods <- MCPeriods
  DayLength = 1
  MonthLength = 2
  Today = 2
  Everybody = Everybody
  Nothing = Nothing
  MaxChanges = 1
SPECIFICATION Spec
INVARIANT OffersExactlyTheBookable
INVARIANT FailsOnlyOverASkippedStart
INVARIANT NoIntervalIsRejected
INVARIANT WalkFindsEachRow
INVARIANT ReportAddsUp
INVARIANT RevenueCoversTheCompleted
SYMMETRY IdSymmetry
CHECK_DEADLOCK FALSE
