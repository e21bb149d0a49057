\* Two requests and one departure from the page of applications; three clicks on the lists;
\* two announcements next to two earlier ones; two tasks on the mail settings, by one tab or two,
\* with three addresses; two requests of the API reference to two endpoints.
SPECIFICATION MCSpec
CONSTANTS
  t1 = t1  t2 = t2
  None = None
  Apps = {t1, t2}
  MaxApps = 2
  Requests = {1, 2}
  MaxKey = 2
  MaxLeaves = 1
  users = users  notices = notices  none = none  name = name
  Nothing = Nothing
  Tables = {users, notices}
  Direct = {notices}
  Filters = {none, name}
  NoFilter = none
  LastPage = 2
  MaxEdition = 2
  MaxRequests = 3
  u1 = u1  u2 = u2  b1 = b1  b2 = b2  a1 = a1  a2 = a2
  NoReader = NoReader
  Tabs = {b1, b2}
  Readers = {u1, u2}
  Publishers = {a1, a2}
  FeedLimit = 3
  Front = 2
  MaxId = 4
  x1 = x1  x2 = x2  x3 = x3
  Empty = Empty
  Views = {b1, b2}
  Addresses = {x1, x2, x3}
  Tasks = {1, 2}
  e1 = e1  e2 = e2  k1 = k1
  Guide = Guide  NoKey = NoKey
  Endpoints = {e1, e2}
  Posting = {e1}
  Keys = {k1}
  MaxCalls = 2
INVARIANTS
  ConsoleTypeOK KeyReachesOwner RowsCurrent ReadMeansShown SettingsTell ExplorerTells
CHECK_DEADLOCK FALSE
