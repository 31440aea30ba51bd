CONSTANTS
  Appts = {a1}
  Times = {t1, t2}
  Requests = {r1, r2}
  Off = Off
  Retries = 1
  Accidents = 1
  Changes = 3
SPECIFICATION Spec
INVARIANT TypeOK
INVARIANT EverybodyKnows
PROPERTY NothingStaysOnItsWay
CHECK_DEADLOCK FALSE
