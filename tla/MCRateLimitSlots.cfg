\* The same calls where nothing fails: one waits for the row locks longer than
\* its lease allows for.
SPECIFICATION RateSpec
CONSTANTS
  c1 = c1  c2 = c2  c3 = c3  u1 = u1  u2 = u2  minute = minute  cooldown = cooldown
  Global = Global  None = None
  Calls = {c1, c2, c3}
  Users = {u1, u2}
  Of <- Account
  Windows = {minute, cooldown}
  KeysOf <- Keys
  Period <- Lasts
  Limits <- Allowed
  Policies <- Concurrency
  Lease = 3
  Upstream = 2
  MaxWait = 2
  MaxSkew = 1
  MaxTime = 4
  MaxFaults = 0
PROPERTIES SlotsWithinLimit
SYMMETRY Twins
CHECK_DEADLOCK FALSE
