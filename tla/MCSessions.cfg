\* Two sessions of one provider session, three requests, one back-channel
\* delivery and the worker, one failure; one sign-in and one revocation at a time
\* and the retry not during the delivery.
SPECIFICATION MCSpec
CONSTANTS
  u1 = u1  p1 = p1  p2 = p2  s1 = s1  s2 = s2
  h1 = h1  h2 = h2  h3 = h3  d1 = d1  d2 = d2
  None = None  Worker = Worker
  Users = {u1}
  Sids = {p1}
  Owner <- OneOwner
  Sessions = {s1, s2}
  Handlers = {h1, h2, h3}
  Deliveries = {d1}
  Batch = 2
  MaxKey = 2
  MaxFaults = 1
SYMMETRY Symmetry
INVARIANTS SessionsTypeOK RefreshExclusive CompletedLogoutCleans
PROPERTY OnlySignInCreates
CHECK_DEADLOCK FALSE
