\* One account with a mailbox of its own and a foreign one, one notice, two
\* replicas and one failure; or one request that may revoke the other device
\* while Keycloak or the databases fail twice and the worker retries.
SPECIFICATION MCSpec
CONSTANTS
  u1 = u1  a1 = a1  a2 = a2  n1 = n1  h1 = h1  h2 = h2  w1 = w1  w2 = w2
  p1 = p1  p2 = p2  s1 = s1  s2 = s2
  None = None  Worker = Worker
  Users = {u1}
  Addresses = {a1, a2}
  Own <- OneReader
  VerifyTabs = {h1, h2}
  Notices = {n1}
  Owner <- OneOwner
  Replicas = {w1, w2}
  MaxTries = 2
  MaxCode = 1
  MaxFaults = 1
INVARIANTS MailTypeOK AtMostOnce StateTellsTruth AddressesAreOwn TriesBounded
PROPERTIES FinalStays EveryMailSettles RevokedIsCleared
CHECK_DEADLOCK FALSE
