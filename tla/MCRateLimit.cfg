\* Two calls of one account and one of another, two windows, one failure.  A unit
\* of time stands for 35 s: the lease, the upstream call and the waits for the
\* database are in the proportions of the code, rounded up, down and down.
SPECIFICATION RateSpec
CONSTANTS
  c1 = c1  c2 = c2  c3 = c3  u1 = u1  u2 = u2  minute = minute  cooldown = cooldown
  Global = Global  None = None
  Calls = {c1, c2, c3}
  Users = {u1, u2}
  Of <- Account
  Windows = {minute, cooldown}
  KeysOf <- Keys
  Period <- Lasts
  Limits <- Allowed
  Policies <- Concurrency
  Lease = 3
  Upstream = 2
  MaxWait = 2
  MaxSkew = 1
  MaxTime = 4
  MaxFaults = 1
INVARIANTS RateTypeOK WindowBound WindowsExact SlotsAccounted
PROPERTIES LeasesWithinLimit
SYMMETRY Twins
CHECK_DEADLOCK FALSE
