\* An account follows the default limit while the administrator changes it.
SPECIFICATION Spec
CONSTANTS
  u1 = u1  u2 = u2  t1 = t1  t2 = t2  t3 = t3  c1 = c1  c2 = c2  c3 = c3
  r1 = r1  r2 = r2  r3 = r3  e1 = e1  s1 = s1  s2 = s2  i1 = i1
  None = None
  Users = {u1, u2}
  Tokens = {t1}
  Requests = {r1}
  Calls = {}
  Scopes = {s1}
  Ips = {i1}
  Grants <- OneGrant
  Limits = {1, 2}
  Quotas = {0}
  Policies <- TwoDefaults
  Kinds = {"updateUser", "signIn"}
  MaxKey = 1
  User0 <- WithNewcomer
  Token0 <- EmptyTokens
  Policy0 <- PairPolicy
  Endpoints = {e1}
  EndpointRows <- OneEndpointRow
  Endpoint0 <- EndpointAt2
  MaxDay = 1
INVARIANT InheritFollowsDefault
CHECK_DEADLOCK FALSE
