\* Three calls over two applications of an account that follows the default,
\* which changes, as the endpoint does; no console request.
SPECIFICATION Spec
CONSTANTS
  u1 = u1  u2 = u2  t1 = t1  t2 = t2  t3 = t3  c1 = c1  c2 = c2  c3 = c3
  r1 = r1  r2 = r2  r3 = r3  e1 = e1  s1 = s1  s2 = s2  i1 = i1
  None = None
  Users = {u1}
  Tokens = {t1, t2}
  Requests = {}
  Calls = {c1, c2, c3}
  Scopes = {s1, s2}
  Ips = {i1}
  Grants <- OneGrant
  Limits = {1, 2}
  Quotas = {0, 2}
  Policies <- TwoDefaults
  Kinds = {}
  MaxKey = 1
  User0 <- Followers
  Token0 <- PairTokens
  Policy0 <- PairPolicy
  Endpoints = {e1}
  EndpointRows <- EndpointSteps
  Endpoint0 <- EndpointAt2
  MaxDay = 2
SYMMETRY CallSymmetry
INVARIANTS TypeOK LedgerMatches AnswerMatchesCharge
PROPERTIES ImplementsAdmission
CHECK_DEADLOCK FALSE
