CONSTANTS
  o1 = o1
  c1 = c1
  Users = {o1, c1}
  FirstRole <- MCFirstRole
  Shops = {s1, s2}
  Barbers = {b1}
  Services = {v1, v2}
  Names = {n1, n2}
  Requests = {r1, r2}
SPECIFICATION Spec
INVARIANT TypeOK
INVARIANT ShownIsBookable
INVARIANT RolesFollowProfiles
PROPERTY ReplacedUpToOverlaps
SYMMETRY IdSymmetry
