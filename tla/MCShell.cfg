\* One document, two accounts and three sessions; two administrators, two attempts
\* to save, clocks one millisecond apart.
SPECIFICATION MCSpec
CONSTANTS
  d1 = d1  u1 = u1  u2 = u2  s1 = s1  s2 = s2  s3 = s3
  Nobody = Nobody  Default = Default
  Docs = {d1}
  Accounts = {u1, u2}
  Sessions = {s1, s2, s3}
  MaxFaults = 1
  MaxRestarts = 1
  a1 = a1  a2 = a2  page = page  dialog = dialog  v1 = v1  v2 = v2
  None = None
  Admins = {a1, a2}
  Records = {page, dialog}
  Pages = {page}
  Values = {v1, v2}
  Saves = {1, 2}
  RoundTrip = 2
  MaxSkew = 1
  MaxNow = 4
INVARIANTS ShellTypeOK VisitsHonest PageBelongs StampsTell FreshAfterSave
PROPERTIES ImplementsEditions EndedPagesLeave
CHECK_DEADLOCK FALSE
