CONSTANTS
  Users = {u1, u2}
  Services = {s1}
  Devices = {d1}
  Workers = {w1, w2}
  None = none
  Versions = {1, 2}
  PoliciesOf <- MCPoliciesOf
  PageLimit = 2
  MaxRequests = 2
  MaxPage = 2
  t1 = t1
  t2 = t2
  c1 = c1
  c2 = c2
  Tabs <- MCTabs
  CardServices <- MCCards
  Catalog = catalog
  Closed = closed
  Unset = unset
  MaxPosts = 3
SPECIFICATION MCPortalSpec
SYMMETRY Symmetry
CHECK_DEADLOCK FALSE
INVARIANTS
  TypeOK
  NoDanglingGrant
  ServedWasEntitled
  WalkShowsEachOnce
  CalmSaveIsShown
PROPERTIES
  LastAdminLostToRace
  UndisturbedSaveIsExact
  NextFollowsTable
