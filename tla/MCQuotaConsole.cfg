\* The owner and the administrator change one application under two calls.
SPECIFICATION Spec
CONSTANTS
  u1 = u1  u2 = u2  t1 = t1  t2 = t2  t3 = t3  c1 = c1  c2 = c2  c3 = c3
  r1 = r1  r2 = r2  r3 = r3  e1 = e1  s1 = s1  s2 = s2  i1 = i1
  None = None
  Users = {u1}
  Tokens = {t1}
  Requests = {r1, r2}
  Calls = {c1, c2}
  Scopes = {s1}
  Ips = {i1}
  Grants <- TwoGrants
  Limits = {2}
  Quotas = {0, 1, 2}
  Policies <- OnlyPolicy
  Kinds = {"update", "rotate", "delete", "regulate"}
  MaxKey = 2
  User0 <- PairUsers
  Token0 <- SoloTokens
  Policy0 <- PairPolicy
  Endpoints = {e1}
  EndpointRows <- OneEndpointRow
  Endpoint0 <- EndpointAt2
  MaxDay = 1
SYMMETRY BothSymmetry
INVARIANTS NoCircularWait
PROPERTIES ImplementsAdmission AdmitCurrentCredential RegulationStands
CHECK_DEADLOCK FALSE
