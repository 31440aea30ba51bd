CONSTANTS
  b1 = b1
  Appts = {a1, a2}
  Barbers = {b1, b2}
  BarberOf <- MCBarberOf
  Stars = {4}
  Reviewers = {r1, r2}
  Workers = {w1, w2}
  MaxDrifts = 1
  MaxCrashes = 1
SPECIFICATION FairSpec
INVARIANT TypeOK
INVARIANT RatingAgreesWithReviews
INVARIANT ReviewersNeverDeadlock
PROPERTY EveryReviewIsAnswered
PROPERTY DriftIsRepaired
