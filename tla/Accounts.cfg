CONSTANTS
  Users = {u1, u2}
  Emails = {e1}
  Tokens = {t1, t2, t3}
  Requests = {r1, r2}
  RefreshTTL = 2
  None = None
  MaxTime = 3
  Processes = {p1}
  Clients = {k1}
  Limit = 2
  Window = 2
  Second = 2
SPECIFICATION AccountsSpec
INVARIANT TypeOK
INVARIANT ExchangedOncePerHandler
INVARIANT RevokedBuysOnlyWhatIsUnderWay
INVARIANT AtMostLimitPerWindow
INVARIANT TheWaitToldIsEnough
SYMMETRY AccountsSymmetry
