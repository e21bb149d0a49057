\* Three requests of one session near its refresh, nothing fails.
SPECIFICATION SessionsSpec
CONSTANTS
  u1 = u1  p1 = p1  p2 = p2  s1 = s1  s2 = s2
  h1 = h1  h2 = h2  h3 = h3  d1 = d1  d2 = d2
  None = None  Worker = Worker
  Users = {u1}
  Sids = {p1}
  Owner <- OneOwner
  Sessions = {s1}
  Handlers = {h1, h2, h3}
  Deliveries = {}
  Batch = 1
  MaxKey = 3
  MaxFaults = 0
SYMMETRY Symmetry
INVARIANT RotationSerialized
CHECK_DEADLOCK FALSE
