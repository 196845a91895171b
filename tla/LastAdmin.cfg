CONSTANTS
  Users = {u1, u2}
  Services = {s1}
  Devices = {d1}
  Workers = {w1, w2}
  None = none
SPECIFICATION Spec
SYMMETRY WorkerSymmetry
CHECK_DEADLOCK FALSE
INVARIANT
  AdminRemains
