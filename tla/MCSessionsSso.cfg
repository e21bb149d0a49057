\* Two sessions of one browser, that share a provider session, and the worker.
SPECIFICATION SessionsSpec
CONSTANTS
  u1 = u1  p1 = p1  p2 = p2  s1 = s1  s2 = s2
  h1 = h1  h2 = h2  h3 = h3  d1 = d1  d2 = d2
  None = None  Worker = Worker
  Users = {u1}
  Sids = {p1}
  Owner <- OneOwner
  Sessions = {s1, s2}
  Handlers = {h1, h2, h3}
  Deliveries = {}
  Batch = 2
  MaxKey = 1
  MaxFaults = 0
SYMMETRY Symmetry
INVARIANT CurrentSsoKept
CHECK_DEADLOCK FALSE
