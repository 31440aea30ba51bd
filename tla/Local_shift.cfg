CONSTANTS
  Zones <- MCZones
  Midnight = 4
  DayTicks = 4
  MaxTick = 5
  MaxShifts = 2
  MaxBusy = 1
  Durations = {1, 2}
  Steps = {1, 2}
  NotBefores = {0, 3}
SPECIFICATION SlotSpec
INVARIANT ShiftsSurviveOrAreNothing
CHECK_DEADLOCK FALSE
