# Lazy Campus platform: a TLA+ model

This directory is the formal model of the Lazy Campus open platform: the Go
service in `src/campus` that hands out applications and API keys, admits calls
against daily and total quotas, and forwards them to the campus service, and the
console in `src/web` through which owners and administrators use it. The modules
are translated from the source; every definition that stands for code
is listed with its lines in `PROJECT.json` under `map`.

## 1. The system

One or more stateless replicas of a Go service (Gin, GORM) share a MySQL
database (InnoDB, REPEATABLE READ, explicit `SELECT ... FOR UPDATE` row locks)
and a Redis server (Lua scripts, expiring keys). Keycloak signs users in, the
campus service answers the forwarded calls, Sender delivers mail. A React
console speaks to the same HTTP interface.

| component | source | state | operations |
| --- | --- | --- | --- |
| Accounts and applications | `console.go`, `operations_apps.go`, `model.go` | rows of `platform_users`, `platform_tokens`, the audit log | create, update, rotate and delete an application; the administrator suspends, resumes, revokes one, updates an account |
| Quota admission | `quota.go` | `platform_daily_usage`, `used_quota` and admitted rows of `platform_logs`; Redis windows and slots | `reserve`, `apiRate`, `managementRate` |
| API gateway | `gateway.go`, `catalog.go` | the request in flight | authenticate, check the endpoint, reserve, forward, record |
| Request log | `operations_logs.go` | `platform_logs` | `recordRequest`; filters, charts and exports read only |
| Operations settings | `operations_settings.go` | policy and site settings, `platform_endpoint_policies` | `updatePolicy`, `updateSite`, `updateEndpoint` with optimistic checks |
| Sessions | `auth.go`, `operations_sessions.go` | Redis sessions and their index, refresh locks, `platform_session_devices`, Keycloak's session | login, callback, `sessionAuth`, refresh, logout, back-channel logout, revoke, background retry |
| Notifications and mail | `operations_notifications.go` | preferences, notices, mail states, verification codes, the worker's lease | alerts, enqueue, claim, send, verify an address |
| Migrations and start-up | `app.go`, `*_migration.go` | one-time markers in the settings | run at every start of every replica; retention deletes old rows |
| GraphQL and MCP | `graphql.go`, `mcp.go` | none | translate to gateway calls, limit documents |
| Monitoring | `monitoring.go` | counters, the worker's heartbeat | aggregate, classify health |
| Console documents | `web/src/features/campus`: `api.ts`, `platform.tsx`, `devices.tsx`, `preferences.tsx`, `profile.tsx` | cookie and local storage of the browser; per tab the CSRF token, the session query with its last error, the visits reported, whether it is on the home or status page | poll `/me`, report a visit, sign out, sign out other devices, keep the sidebar of an account |
| Applications page | `applications.tsx` | the list read, editor, confirmation, the dialog with a key | create, edit, rotate, delete, show a key once |
| Paged lists | `management.tsx`, `request-logs.tsx`, `analytics.tsx`, ... | query cache by name, page and filter; the dialog of a row | search, turn pages, refresh, save a row, invalidate |
| Announcements | `announcements.tsx`, `announcement-data.ts` | the feed of a tab (the last 50), the dialog with its first five or its time line, the highest id read in local storage | publish, withdraw, read |
| Mail settings page | `notifications.tsx` | the form, keyed by `updated_at` | save, send a code, verify |
| Administrators' forms | `operations-admin.tsx` | copies read, a draft with the `updated_at` it was opened with | read, edit, save if unchanged |
| API reference | `reference.tsx`, `reference-guide.tsx` | the catalog; per endpoint the key and the body entered, the request tried and what came of it | follow an address, enter a key, try a request |
| Other pages | `web/src` | none of their own | home, overview, profile |

**How they meet.** Console requests and API calls run on any replica at the
same time and meet in two kinds of row: an account and its applications. A call
authenticates *without* locks, is checked against the endpoint policy *without*
locks, waits for Redis, and only then, in `reserve`, locks its account row and
its application row. Everything an owner or an administrator does in the
meantime must be noticed there. The request log is written twice for an
admitted call: by `reserve` in its transaction and by `recordRequest` when the
answer is known. The console shows copies of these rows that are as old as its
last read. Several tabs share one cookie and one local storage and are not told
of each other; each keeps its own token, its own copies and its own forms, and
what it sends back was made from what it last saw.

**What is hard.** Checks on data read before the lock; counters read from a
snapshot; the lock order of requests written in three files; commits whose
answer is lost; clients that go away and replicas that end in the middle;
midnight; settings copied into rows that are being used. Then, outside the
core: refresh tokens that rotate, revocations that race with refreshes,
mails that must not be sent twice; and in the console: answers that come late or
not at all, after the page, the tab's account or the search has changed, and
saves of what somebody else has changed. `PROJECT.json` lists each hazard at its line.

## 2. The plan

| step | module | what | state |
| --- | --- | --- | --- |
| 1 | `Accounts`, `Quota` | console requests and the admission of calls, statement by statement | done |
| 2 | `QuotaInvariant`, `QuotaProofs` | the inductive invariant, safety for every instance | done |
| 3 | `Sessions`, `SessionsProofs` | sessions, refresh under the Redis lock, device rows, revocation, back-channel logout, the background retry; the provider's sessions as an external actor | done |
| 4 | `Preferences`, `Mail`, `MailProofs` | codes and changed addresses; the worker's lease, claim, send, uncertain, retry | done |
| 5 | `RateLimit`, `RateLimitProofs` | the two Lua scripts: windows, slots with leases, releases that fail, around a call that takes time | done |
| 6 | `Editions`, `AdminForms`, `AdminFormsProofs` | the optimistic saves of policy, site content and endpoints, from the form to the row; the abstract promise they implement, checked and proved | done |
| 7 | `Documents`, `Applications`, `Lists`, `Bells`, `MailSettings`, `Reference`, `Console`, `Shell` | the stateful pages of the console, one module each; `Console` is all pages, `Shell` the documents and the forms; `MCPages` and `MCShell` run them | done |
| 8 | `DocumentsProofs`, `ApplicationsProofs`, `ConsoleProofs` | the safety properties of the pages, for any number of tabs, applications, lists, endpoints and addresses | done |
| 9 | `Admission` (in `Quota`, `QuotaProofs`) | the admission of a call as one step, which `Quota` implements, checked and proved | done |

`Mail` extends `Preferences` and `Quota` extends `Accounts`: each pair is one
system, its next-state relation the disjunction of the two. `Sessions`,
`RateLimit`, `AdminForms` and the pages stand alone: they share no state with the
others in their modules (the account row that a sign-in writes is in `Accounts`;
what `RateLimit` refuses is `Refuse` in `Quota`, the reservation is one step with a
duration in `RateLimit`; a page has the part of the server that it asks, with the
other users of it as free steps). `Console` puts the five pages inside a document side by side (`ConsoleSpec`) and `Shell`
the documents and the administrators' forms (`ShellSpec`): no step of one changes the
state of another. `MCPages` and `MCShell` extend them and interleave none of them, so a
behaviour of the run is about one of them; so does `MCWorker` with the two duties of the
background worker, the mails (`Mail`) and the retry of revocations (an instance of
`Sessions`).

Given up: the one-time migrations
and the pure functions (document limits, health states): see section 12.

## 3. Module `Accounts`

Variables: `user`, `token`, `policy` are the tables (a deleted application keeps
its id, as auto-increment ids are never given out again); `userLock` and
`tokenLock` are the InnoDB row locks; `op[r]` is what one console request holds
in the memory of its handler.

A request goes through `BeginX` (everything its handler does before the
transaction: the validation against the session's copy of the account, the
policy read), `LockUserRow`, `LockTokenRow` or `CountApps` (one per locking or
counting statement), and `WriteX` (the last checks, the write and the commit).
`RejectRequest` is the early returns, `AbortRequest` a database error, a lock
timeout or the end of the replica. `Then(k, pc)` is the order in which a request
of kind `k` takes its rows; it is one operator so that the lock order can be
read, and broken, in one place. `UpdatePolicy` and `Lapse` (time reaching
`expires_at`) are single steps.

Data that no property tells apart is abstracted: names, hashes (a key is the
number of keys issued so far), permission strings (sets), CIDR lists (the set
of addresses they admit), audit rows, rate limits. An administrator's bare
`updateUser` cannot disable the administrator's own account, as in the code.

## 4. Modules `Quota` and `Admission`

`call[c]` is one request in `gateway`. `Authenticate` reads the token row and its
account without locks and keeps the key and grant it saw; `CheckEndpoint` reads
the endpoint policy; `LockUser`, `LockToken`, `Count` and `Commit` are the
statements of `reserve` (`Count` opens the snapshot: endpoint policy, counters
and day are read there; MySQL opens the read view at the first consistent
read, which comes after both locks); `Deny` is its four refusals in their
order; `CommitUnseen` is a commit whose acknowledgement is lost; `CancelReserve`
a client that went away, a lock timeout or a database error; `Forward` the call
to the campus service, `Record` the deferred `recordRequest` (which may fail);
`Die` the end of a replica at any point. `UpdateEndpoint` and `NextDay` run at any
time.

The counters are `usage[bucket][day]`; `charges` is the admitted rows of the log
and keeps what each was charged to, so that the counters can be compared with
it; `open` and `refusals` are the rows still at status 0 and those not admitted.

`Admission` is what all this promises, without locks, counters, snapshots or
transactions: a call asks with a key that works (`Ask`), is checked in one step
(`Pass`) and admitted in another (`Admit`), at which its credential, the total quota
and the daily limits it was checked against are good, everything used being counted
in the log itself; or it is told a reason that is so (`Deny`), and an error only if
nothing was admitted with that step (`Fail`) or its charge was (`Admit`, unseen).
Accounts and applications change as anyone likes (`Manage`), but no quota falls below
what was used and nothing revoked is changed. `Promise` in `Quota` is the mapping: the
log is `charges`, an application is its row without `used_quota`, a call asks from its
authentication to the end of its reservation, and has `passed` when it is `counted`.
`Authenticate` is `Ask`, `Count` is `Pass`, `Commit` and `CommitUnseen` are `Admit`; the
locks, the upstream call and `Record` are no steps.

Left out: Redis (`Refuse` is any refusal before the reservation; see
`RateLimit`), the content of requests and answers, and the calls of GraphQL and
MCP, which enter through the same handler.

## 5. Module `Sessions`

A browser session lives in three places: `store[s]` is its Redis key with the
tokens, `device[s]` its row of `platform_session_devices`, and `sso` and
`key[s]` are what Keycloak knows: the provider sessions that are alive and the
refresh token a session may still use. `index` is the Redis set of an account's
session keys, `lock` the refresh locks, `seen` the logout tokens received.

`at[x]` is an actor: a request of a browser, a back-channel delivery or the
worker's retry; one call of Redis, MySQL or Keycloak is one step. A sign-in is
`SignIn`, `StoreSession`, `IndexSession`, `RegisterDevice`, `ReplaceSession` (the key of the
session the browser had before), and after a failure (`SignInFails`: what failed may have
been done all the same) `UndoSignIn`; every other request is `ReadSession`, `CheckDevice` (the
insert that does nothing on conflict, then the read of the row), and when the tokens are
due `LockRefresh`, `Refresh`, `Save` or `DropSession` (a delete that may fail unnoticed),
`Unlock`; then `Handle` takes it to a revocation
(`RevokeRow`, `FetchTokens`, `LogoutProvider`, `DeleteKey`, once per device), a
logout, or the end. A delivery is `ReceiveLogout` (a second one with the same
token is answered at once), `ListSessions`, then `ScanSession` and, for a session that is
meant, `MarkDevice`, `CleanSession`, `LeaveIndex`. `ListRevoked` starts the retry, which
revokes with no current session, as in the code. Failures are explicit: `RefreshLost` is an
answer of Keycloak that is lost after the token was rotated, `LogoutProviderFails` a
logout it does not confirm, `Crash` the end of
a replica, `LockExpires` a lock that ends under its holder. `spared` is not in the code: it
remembers the revoked sessions whose key went without a logout at Keycloak, because it
expired, was replaced or could not be refreshed, or because the code has it so (`logout`,
and a revocation asked for by the same provider session).

Left out: the login transaction before the exchange of the code (it has no
session yet), CSRF tokens, `last_active_at`, back-channel tokens without a
`sid`. A session whose provider session ends while its sign-in is under way is
not found by the delivery and lives until its next refresh is refused: nothing
in the repository promises more, so `CompletedLogoutCleans` speaks of the
sessions a delivery has listed.

## 6. Modules `Preferences` and `Mail`

`Preferences` is the address of an account: `pref[u]` the row, `challenge[u]` the
code in Redis, `inbox` the codes that arrived and so can be typed by whoever
reads the mailbox (`Own`). `UpdatePreference` is one transaction; sending a code
is `DrawCode`, `StoreChallenge`, `MailCode` and checking one `CompareCode`,
`WriteVerified`, `ForgetChallenge`, with the address changing in between. Codes
are all different and are not guessed.

`Mail` is the worker every replica runs once a minute under one Redis lease.
`notice[n]` is a row of `platform_notifications` under its dedupe key; `work[w]` is
what the round of a replica holds in memory, above all the rows it read and the
preference it read. A round is `TakeLease`, `CheckAlert`/`InsertNotice` (the
preference is read once for the alerts of an account; a worker whose context has ended may
leave the loop between accounts and goes on to the mails, as the code does),
`FetchMails` (the sweep of stale `sending` rows and the read of due ones, taken
as one step), `NextMail`, `Claim` (the conditional update), `ReadPreference`,
`Send`, `Record`, `Release`. Sender is external: `accepted` and `mailed` say what it
took; `SendUncertain` is a lost or unclear answer with the mail taken or not.
A round runs under a context of four minutes and a lease of five, and the sweep
takes rows of more than three: that a round goes on after its lease is gone is
therefore not ordinary time passing but counts as a failure (`LeaseEnds` while a
worker holds it), as does the end of a replica (`ReplicaEnds`).

Left out: the thresholds of the alerts (an alert is on or off), the limit of ten
mails a round (not reached), the mail windows of Redis (one outcome,
`throttled`), the reading of notices. A 429 or 5xx of Sender is a mail not taken.

## 7. Module `RateLimit`

The two Lua scripts of `quota.go` and the time that passes around them. A script
runs alone in Redis, so it is one step. `window[k]` is a counter with its time to
live, `slots[p]` the sorted set of an account or of the platform, `now` the time.
`ReadPolicy`, `CheckWindows`, `TakeSlots` are `apiRate`; `Reserved` the end of the
reservation, which takes up to `MaxWait` (two row locks, each of which the database
waits for as long as it is set to); `Answered` the end of the upstream
call, after at most `Upstream`; `ReleaseSlot` the deferred release, one key after
the other with errors ignored. `RedisFails` is a script whose answer is lost,
whether it ran or not; `CallDies` the end of a replica. Scores are written and
read by the clocks of the replicas, which differ by up to `MaxSkew`; the windows
follow the clock of Redis alone. `Tick` waits for a call whose time is over, which
is what its context enforces.

The limits of windows are what each call happened to read (`Limits[k]`); those of
the slots come from `policy`, which the administrator changes at any time.
`managementRate` and the windows of logs and mails run the same script with one
key and nothing else around it. `EXPIRE ... 100` on a sorted set outlives every
lease in it and is left out. A call keeps `taken`, when it got its slots: the properties
compare with it (`Leasing`), the code does not have it.

## 8. Modules `Editions` and `AdminForms`

`AdminForms` is what stands between an administrator's keyboard and a row of
settings or of an endpoint. `row[k]` is the row, `cache[a][k]` what console `a` last
read of it (`answer` the read on its way), `form[a]` the draft with the
`updated_at` it was opened with, `save[i]` the saves. `edition` and `base` are not in
the code: they count the replacements of a row and say which one a copy, a draft
or a save was made from, so that properties can compare with them what the code
compares, the time stamps.

`ServeRead`, `Deliver`, `FailRead` are the queries; `Deliver` mounts a page form again
if its key, `updated_at`, has changed (`Remounts`), and leaves the dialog over the
endpoints alone, as the code does. `Open`, `Leave`, `Submit` are the administrator;
`ServeSave` is the transaction of `updatePolicy`, `updateSite` or `updateEndpoint` with
its check and its stamp, by the clock of whichever replica serves it;
`AnswerAccepted` closes the dialog, drops a read that was under way and waits for
the next one; `AnswerRefused` is also the lost answer (`LoseSave`).

Stamps have milliseconds and clocks differ. `ServeSave` therefore requires that a
save which passes through a browser and a person takes longer than the clocks
are apart (`RoundTrip`, `MaxSkew`, `ClocksAssumption`). It is an assumption about the
environment, not in the code: with clocks further apart an edition could be
stamped like an earlier one, and the check would not tell them apart.

`Editions` is the promise without time stamps, caches or forms: a proposal names
the edition it was made from, and is accepted only while that is current, once.
`ImplementsEditions` is the refinement: `edition`, `content` and `proposal` are
computed from rows and saves.

## 9. The pages

**`Documents`.** `cookie`, `holder`, `live` and `stored` belong to the browser and the
server; the rest to one document: `csrf`, `query` (the running `getSession` and one
that it replaced), `visit` (the promise in the map `visits`), `shown`, `failed`,
`sidebar`. `SignIn` is any tab coming back from Keycloak, with the same account or
another one. `AskMe`, `ServeMe`, `ToldMe` are the session query: the token is taken
when `/me` answers, the account only when the visit has been reported too;
`ServeVisit`, `VisitStored`, `VisitRejected`, `VisitDenied` are that second request.
`Resolved` shows the account and mounts what is keyed by it; `DeniedMe` leaves for
the sign-in page. `home` are the documents on `/` or `/status` (`isHome`): there a 401
or another error of the session query changes nothing on the page, which goes on with the
account it had, its menu and its Sign out (`error` remembers what the query came to);
`Navigate` is a link between such a page and the console, which takes a refused document
to the sign-in page and shows the error of a failed one. `SignOut`, `RevokeOthers`,
`SaveSidebar` are what the mounted page does. That a document leaves is `Fresh`: nothing of
its scripts survives.

**`Applications`.** `app` is the owner's rows as far as the page depends on them,
`list` what was last read, `editor`, `confirm`, `pending`, `secret` the dialogs.
Requests are sent (`SaveDraft`, `PerformAction`), served (`ServeRequest`: `Create`,
`Update`, `Rotate`, `Delete` with the refusals of the server), and answered
(`EditorAnswered`, `ActionAnswered`, `RequestFailed`), possibly after the 20 seconds
the console waits (`overdue`: it is served for nobody), or after the page was left
(`visit`). `Regulate` is the administrator. Keys are numbered; `seenKeys` and
`goneKeys` remember which were in the dialog and whose answer had no page to go to. The
page is one: a second tab of the same owner that rotates the same application is left
out. It would show the newer key itself, while the dialog of this tab, which is not told,
goes on showing the older one.

**`Lists`.** One module for all lists the server cuts into pages, since they are
one pattern: a query key of name, page and filter, `keepPreviousData`, rows acted
on in a dialog, and `invalidateQueries` by name. The rows of a table are an edition
number, since what a row holds decides nothing. Rows of notices are marked where they
stand, and filter and pages stay open meanwhile; those of accounts and applications are
acted on in a dialog (`OpenRow`, `EditRow`, `SaveRow`, `CloseRow`). `Type` fills the fields that
wait for the filter button (`Apply`), `Choose` is a range, a status, "unread" or a reset,
which take effect at once. `Ask` is the library's rule (read
unless fresh), `Invalidate` its rule for what is under way: a read of the shown key
with data is restarted, a first read and those of other keys go on. Both are the
behaviour of the query library the code relies on.

**`Bells`.** `notice` is the table: `Insert` takes the next id and `Commit` makes it
visible, so ids may become visible in another order (`late`). `feed`, `bellOpen`,
`seen` are a tab's; `readMark` is the number in local storage, written by every tab
and read when a bell is mounted. The server lists the last `FeedLimit` announcements (50),
an open dialog shows the first `Front` of them (5) or all in its `timeline`, and `MarkRead`
marks all up to the newest item, shown or not. `displayed` remembers what open dialogs have
shown to an account.

**`MailSettings`.** `mailbox` is the row, `writes` its history (their number stands
for `updated_at`), `known` what a tab last read, `sheet` the mounted form, `task` a
save, a `sendCode` or a verification as it goes from request to request. `SettingsRead`
mounts the form again if `updated_at` has changed. The server's side is taken from
`Preferences` with one step per request, since what interleaves here is tabs and
answers; the codes themselves are there.

**`Reference`.** The API reference tries an endpoint with a key of the owner. `hash` is what
the address names; the explorer (`key`, `whole`, `trying`, `error`, `result`) is keyed by the path
and goes with every change of it (`Unmount`), and with an error of the catalog
(`CatalogFails`), while its requests go on (`live` is FALSE then). `Try` is `send()`: a body that is
no object goes nowhere; `Serve` the gateway, which charges or refuses also when nobody waits
any longer; `Answer` and `GiveUp` what the browser makes of it. Fields other than the key
are left out, but for whether the body is an object.

**What is abstracted.** Fields of forms (except where a step depends on one),
texts, layout, translations, the theme, focus and keyboard handling (except that
Escape closes a confirmation whose buttons are disabled), retries of reads by
the query library (a read that succeeds at the second try is one read).

**Variants.** A definition whose name ends in an underscore and a word
(`LockUser_Shared`, `Leased_Short`, ...) is the same code with one plausible
mistake. Nothing refers to them: they are what the properties were tried
against, and `PROJECT.json` pairs each property with the variant that breaks it.

## 10. The runs

The MC modules name small constant values and symmetries; `MCSessions`,
`MCWorker`, `MCShell` and `MCPages` also restrict the steps, as their comments say and as
listed under *Bounds*.

| run | instance | checks | states |
| --- | --- | --- | --- |
| `MCQuotaAdmission` | 3 calls, 2 applications of one account, 2 days, a changing default limit and endpoint policy | `TypeOK`, `LedgerMatches`, `AnswerMatchesCharge`, `ImplementsAdmission` | 439k |
| `MCQuotaConsole` | 2 calls, 2 requests (update, rotate, delete, regulate), 1 application, total quotas 0 to 2 | `ImplementsAdmission`, `NoCircularWait`, `AdmitCurrentCredential`, `RegulationStands` | 312k |
| `MCQuotaServed` | 2 requests of the kinds create, delete, `updateUser` and sign-in, a newcomer, a call, changing policies, with fairness | `AppsWithinPolicy`, `CallsEnd` | 184k |
| `MCQuotaInherit` | `updateUser` and sign-in against `updatePolicy` | `InheritFollowsDefault`: **violated** | |
| `MCSessions` | 3 requests, 2 sessions of one provider session, a delivery, the worker, 1 failure | `SessionsTypeOK`, `RefreshExclusive`, `CompletedLogoutCleans`, `OnlySignInCreates` | @S |
| `MCSessionsRotation` | 3 requests of one session, no failure | `RotationSerialized`: **violated** | |
| `MCSessionsSso` | 2 sessions of one browser and the worker, no failure | `CurrentSsoKept`: **violated** | |
| `MCWorker` | mails: 2 replicas, 1 notice, 1 account that changes and verifies its address, 1 failure; or devices: 2 browsers signed in, 1 request, the worker, 2 failures; with fairness | `MailTypeOK`, `AtMostOnce`, `StateTellsTruth`, `AddressesAreOwn`, `TriesBounded`, `FinalStays`, `EveryMailSettles`, `RevokedIsCleared` | @W |
| `MCRateLimit` | 3 calls of 2 accounts, 2 windows, leases, lock waits and upstream calls in the proportions of the code, clocks that differ, 1 failure | `RateTypeOK`, `WindowBound`, `WindowsExact`, `SlotsAccounted`, `LeasesWithinLimit` | @R |
| `MCRateLimitSlots` | the same where nothing fails | `SlotsWithinLimit`: **violated** | |
| `MCShell` | 1 document, 2 accounts, 3 sessions, with fairness; or 2 administrators, 2 saves, one page form or one dialog, clocks 1 ms apart | `ShellTypeOK`, `VisitsHonest`, `PageBelongs`, `EndedPagesLeave`, `StampsTell`, `FreshAfterSave`, `ImplementsEditions` | @H |
| `MCPages` | one page of the console at a time | `ConsoleTypeOK`, `KeyReachesOwner`, `RowsCurrent`, `ReadMeansShown`, `SettingsTell`, `ExplorerTells` | @P |

What the properties say, beyond their comments in the modules:

- `LedgerMatches` ties three independently written facts (three counters, a column
  and the log) together across cancelled, lost, crashed and late commits.
- `ImplementsAdmission` and `AdmitCurrentCredential` speak about the *moment of the
  commit*, not of the check: the limits in force and the credential as it then
  is. They are what the locks of `reserve` are for. `ImplementsAdmission` is checked
  twice: in `MCQuotaAdmission` the daily limits bite and the day ends, in
  `MCQuotaConsole` the total quota and an administrator's revocation do. Two parts
  of it have names of their own and theorems, `AdmitWithinLimits` and
  `QuotaRespected`.
- `RegulationStands` (no revoked application comes back, and only the
  administrator lifts a suspension) is about an owner's request that was waiting
  for the row when the administrator wrote it.
- `NoCircularWait` is the absence of lock-order deadlock over every set of
  transactions, console requests included.
- `OnlySignInCreates` is about what was in flight when a session was deleted: no refresh
  brings it back.
- `RevokedIsCleared`: a revoked device loses its tokens in the end, and its provider
  session ends before them, although Keycloak, Redis or MySQL failed in the request and
  again in the retry: the key that is kept is what the retry logs out with. A `revokeDevice`
  that deleted the key after a failed logout would violate it. The property leaves out the
  sessions in `spared`.
- `RefreshExclusive` bounds how much harm an expired lock does: the release is
  unconditional, so a late holder deletes the lock of its successor, and still
  each failure admits at most one more refresh.
- `StateTellsTruth` compares the table with what Sender really took.
- `AddressesAreOwn`: an address counts as verified, and mail is sent to it, only if
  a code sent there was read by the account's owner, although the address
  changes between any two statements of a check.
- `TriesBounded` allows one attempt more per failure: a worker compares the
  attempts it read before the claim.
- `WindowBound` is the honest promise of a fixed window: fewer than twice the
  limit in any stretch of its length, and one call only of a cooldown.
- `SlotsAccounted` says that slots leak through failures and in no other way.
- `LeasesWithinLimit` is what leased slots do keep: whenever a call is let in, the calls in
  flight whose lease has ended by no clock are within the limits it read, whatever was
  released, lost, refused or removed by a replica whose clock is ahead. It is not the limit
  the README of the repository promises (see below).
- `StampsTell`: wherever a copy of a record is, in a cache, a draft or a request, its
  `updated_at` is the row's exactly if its content is. Two saves in one
  millisecond, clocks that differ, a form that keeps its draft when its stamp is
  replaced would each break it, and with it the check in the server.
- `FreshAfterSave`: who saved is not shown what was there before.
- `VisitsHonest`: one visit per document and account, whatever polls, replaced
  queries and changes of account come in between; one more for a lost answer.
- `PageBelongs`: another tab can sign in another account at any time, and this
  tab's next write carries the new cookie. The token stops it, except between the
  answer of `/me` and that of the visit, when the new token is there and the old
  account is still shown, and on the home and status pages after a query that failed
  between the two; the property names both.
- `EndedPagesLeave`: a page of the console whose session ended notices at the next poll and
  leaves. The home and status pages only note it, and leave on the way to the console.
- `KeyReachesOwner`: the only copy of a working key was shown, or its answer was
  lost; a late answer neither opens in another dialog's place nor hides a key.
- `RowsCurrent`: rows belong to the page and filter that are selected, in whatever
  order answers come, and are not older than the own save, except through a read
  that an invalidation does not restart; the property names those.
- `ReadMeansShown`: an announcement counts as read only if a dialog showed it, or showed as
  many newer ones as a dialog has at first, across tabs, accounts and withdrawals. What is
  older than those is for the time line; the mark, a number, covers it all the same, and
  what is beyond the list of the server is marked unseen, as the property says. The
  exception is one whose commit came after that of a higher id: it is skipped.
- `SettingsTell`: the badge "verified" and the field for a code are about the
  stored address; the property lists what can make them lie.
- `ExplorerTells`: a key goes only to endpoints it was entered for, and the explorer shows
  what came of its last request, not an answer that is late or was for another endpoint.
  That a call was charged is not passed over in silence when its answer is lost.

**Where the code and its text differ.**

- `InheritFollowsDefault`: `updateUser` (and `callback`, for a new account)
  reads the default before it locks the account, so a change of the default that
  commits in between is overwritten, although the console tells the
  administrator that accounts which follow the default take effect at once.
- `RotationSerialized`: `sessionAuth` reads the session before it takes the
  refresh lock, so a request that waited refreshes with a token that was rotated
  already, and on the refusal deletes the session. The comment at the lock says
  that rotation is serialized across tabs and replicas.
- `CurrentSsoKept`: the worker takes up a device whose revocation is under way and,
  knowing no current session, ends the provider session the browser shares;
  the comment in `revokeDevice` and the README say that this is avoided.
- `SlotsWithinLimit`: a slot is leased for 95 s from the moment it is given; the
  reservation may then wait for two row locks (MySQL gives up after 50 s by default,
  each) before the 85 s of the upstream call begin. A call that waited for more than ten
  seconds may outlast its lease; its slot goes to another, and more requests are in flight
  than the three of an account, or the twenty of the platform, that the README of the repository promises.

**Observed without a run**, since no text of the repository is contradicted
strictly enough, or the property names the case:

- On the home and status pages (`platform.tsx:119`, `:178`) an error of the session query
  leaves the page as it is. If another account has signed in in the browser and the answer of
  the visit is lost, the page goes on showing the old account's menu above the new account's
  token until the next poll: Sign out ends the new account's session.
- The text of a broken connection in the API reference (`reference.tsx:687`) says to check
  the network and try again, although the call may have been charged; that of the timeout
  says to look into the log first.
- `sendCode` (`notifications.tsx:248-253`) stores a new address and reads nothing
  again. Going back to the address that was read shows it as verified, although
  another one is stored by then. So does a `sendCode` that an earlier form of the tab
  began, before a read mounted the present one. Both are the clause `Departed` of
  `SettingsTell`, without which one tab violates it. (The second needs three
  addresses; it came to light when the proof of `SettingsTold` failed, and
  `MCPages` now has a third address so that it is reached.)
- The mail settings and `updateUser` send the whole record and no version: of two
  tabs, or two administrators, the later overwrites what the earlier changed in
  other fields. The forms of `AdminForms` have the check that these lack.
- A mail settings form is mounted again when another tab has saved, and the field
  for a code that is on its way is gone; the code can be asked for again.

**Bounds.** Two or three calls and two requests are enough because every
conflict is between two holders of one row, plus a third that waits; limits of
1 and 2 put every counter at, below and one short of its limit; two days give one
midnight; `MaxKey` bounds rotations (of API keys, and of refresh tokens) and
`MaxCode` the codes. Two sessions of one provider session are the least that can
disturb each other, and three requests give one that refreshes, one that revokes
and one that comes late. One notice is enough for `Mail`, since rows meet only in
the worker that goes through them one by one; two replicas are one that lost its
lease and one that took it. In `RateLimit` a window lasts 2 and time runs to 4, so
that a window can end, open again and be straddled by a stretch; a unit stands for 35 s, so that
a lease of 3, an upstream call of 2 and waits of up to 2 are the code's 95 s, 85 s and twice
50 s, rounded up, down and down. The limits are 1 and 2 of a window and of slots: with
three calls that is one short, at and above each of them; what a larger limit does to a
burst is left to the proof. In the forms
of `MCShell` two administrators and two saves are one that wins and one that must
notice; clocks one millisecond apart and a round trip of two leave no room;
records meet only in the one form a console has open, so one record per behaviour
is enough. The documents of `MCShell` are one, since others act on it only through cookie,
storage and sessions, which change freely, with three sessions (its own, another
account's, and its own again), and one lost answer and one replaced query. In `MCPages`: two
requests, two applications and one departure from the page of applications, with
revocation but not suspension, which refuses less; three clicks on the lists (search,
turn, save, refresh, a failed read), one of which is searched and the other visited;
four announcements of which a feed lists three and the front of a dialog two, with two
publishers and one tab or one publisher and two tabs;
two tasks on the mail settings, of one tab that may also leave and return or of two
that stay, with two addresses and, in the one tab, a third that is typed after a
task has gone with the second; two requests of the API reference, two endpoints and one
key. In `MCSessions` one sign-in and one revocation run at a time, and the retry not during the
delivery; `MCWorker` has the retry against a request instead, with two
browsers that are alike, so that the property is stated for one of them. `MaxFaults`
bounds failures, lost answers, crashes and expired locks together: 1, where two
failures only repeat the first, 2 for the retry. Each call, request and delivery
runs once, so that an instance ends. This is also why the configurations say
`CHECK_DEADLOCK FALSE`: when all of them have ended nothing is left to do.
Waiting for ever is checked by `NoCircularWait`, `CallsEnd`, `RevokedIsCleared`,
`EveryMailSettles` and `EndedPagesLeave` instead.

**Fairness.** `FairSpec` (`Quota`) assumes weak fairness of what the server does
with a call or a request it has accepted: a Go handler runs on until it ends and
every database statement has an answer. It assumes nothing of clients,
administrators, time, cancellations or crashes. Weak fairness of `LockUser` is
enough in these instances since a fixed number of transactions compete for a
row; InnoDB queues lock requests first come, first served. `MCWorker`
assumes it of the worker alone, for the devices (`WorkerStep`: its ticker fires every minute and a
round goes on), not of requests or of Keycloak, whose failures are bounded.
`MailFairSpec` assumes it of each replica's round, of the lease's end (a key with a
time to live) and of rows coming due (time passes). `DocumentsFairness` assumes that a
document asks for its session again (a visible one does every four minutes,
`refetchInterval`) and that requests end; not that anybody signs in. `RevokedIsCleared` also needs
all revoked rows to fit in one batch, as they do in the run; with `Batch = 1` TLC
finds it violated, because the retry takes its rows in no order (a hazard in
`PROJECT.json`).

## 11. What is proved

TLAPS checks the following for all values of the constants (any number of
accounts, applications, calls, requests, sessions, deliveries, replicas, notices,
windows, administrators, forms, documents, tabs, lists, addresses, announcements, endpoints,
days and failures), from the
assumptions named in the modules, all of them evaluated by TLC in the runs (`TokensAssumption` and
`RateAssumption` ask for finitely many application ids and calls,
`ClocksAssumption` for clocks closer than a round trip; the others only type the
constants and keep what stands for nothing, `None`, `Nothing`, `Empty` and their like,
apart from what is something):

| theorem | statement |
| --- | --- |
| `TypeCorrect` | `Spec => []TypeOK` |
| `LedgerCorrect` | `Spec => []LedgerMatches` |
| `QuotaCorrect` | `Spec => []QuotaRespected` |
| `DeadlockFree` | `Spec => []NoCircularWait` |
| `Invariance` | `Spec => []IInv` |
| `AnswersCorrect` | `Spec => []AnswerMatchesCharge` |
| `LimitsRespected` | `Spec => AdmitWithinLimits` |
| `AdmissionImplemented` | `Spec => ImplementsAdmission` |
| `CredentialCurrent` | `Spec => AdmitCurrentCredential` |
| `RevocationFinal` | `Spec => RevokedIsFinal` |
| `SuspensionFinal` | `Spec => SuspensionStands` |
| `RegulationCorrect` | `Spec => RegulationStands`, the two above together |
| `PolicyRespected` | `Spec => AppsWithinPolicy` |
| `SessionsTypeCorrect` | `SessionsSpec => []SessionsTypeOK` |
| `RevokedStaysOut` | `SessionsSpec => []RevokedIsRefused` |
| `LogoutCleans` | `SessionsSpec => []CompletedLogoutCleans` |
| `NothingResurrects` | `SessionsSpec => OnlySignInCreates` |
| `RefreshesBounded` | `SessionsSpec => []RefreshExclusive` |
| `MailTyped`, `Verified` | `MailSpec => []MailTypeOK`, `MailSpec => []VerifiedIsOwn` |
| `MailedOnce` | `MailSpec => []AtMostOnce` |
| `TableIsTrue` | `MailSpec => []StateTellsTruth` |
| `OnlyToOwn` | `MailSpec => []MailedToOwn` |
| `OwnAddresses` | `MailSpec => []AddressesAreOwn`, with `Verified` |
| `SettledStays` | `MailSpec => FinalStays` |
| `TriesCorrect` | `MailSpec => []TriesBounded` |
| `RateTyped` | `RateSpec => []RateTypeOK` |
| `SlotsAreAccounted` | `RateSpec => []SlotsAccounted` |
| `LeasesBounded` | `RateSpec => LeasesWithinLimit` |
| `WindowsAreExact` | `RateSpec => []WindowsExact` |
| `WindowsAreBounded` | `RateSpec => []WindowBound` |
| `FormsTyped` | `FormsSpec => []FormsTypeOK` |
| `StampsCorrect` | `FormsSpec => []StampsTell` |
| `FreshCorrect` | `FormsSpec => []FreshAfterSave` |
| `FormsRefine` | `FormsSpec => ImplementsEditions` |
| `NothingUnseen` | `BellsSpec => []ReadMeansShown` |
| `DocumentsTyped` | `DocumentsSpec => []DocumentsTypeOK` |
| `VisitsRecordedOnce` | `DocumentsSpec => []VisitsHonest` |
| `PagesBelong` | `DocumentsSpec => []PageBelongs` |
| `ApplicationsTyped` | `ApplicationsSpec => []ApplicationsTypeOK` |
| `KeysReachOwners` | `ApplicationsSpec => []KeyReachesOwner` |
| `ListsTyped` | `ListsSpec => []ListsTypeOK` |
| `RowsAreCurrent` | `ListsSpec => []RowsCurrent` |
| `BellsTyped` | `BellsSpec => []BellsTypeOK` |
| `SettingsTyped` | `SettingsSpec => []SettingsTypeOK` |
| `SettingsTold` | `SettingsSpec => []SettingsTell` |
| `ReferenceTyped` | `ReferenceSpec => []ReferenceTypeOK` |
| `ExplorerTold` | `ReferenceSpec => []ExplorerTells` |
| `ConsoleTyped` | `ConsoleSpec => []ConsoleTypeOK` |

Each rests on the inductive invariant of its module, which is a theorem too:
`Invariance`, `SessionsInvariance`, `LocksInvariance`, `MailInvariance`,
`TriesInvariance`, `SlotInvariance`, `WindowInvariance`, `FormsInvariance`,
`DocumentsInvariance`, `ApplicationsInvariance`, `ListsInvariance`,
`BellsInvariance` and `SettingsInvariance` (that of the API reference, `ExplorerInv`, is proved
within `ReferenceTyped` and `ExplorerTold`).

**Admission.** None of these is inductive by itself: that a commit stays
within a limit depends on what a check two statements earlier found, and on
nobody having changed it since. `QuotaInvariant` therefore says what every
transaction knows at each place: which rows it holds (`RequestLocked`,
`CallLocked`), that it holds no others (`RequestHolds`, `CallHolds`), that the copy it
took under a lock is still what the row says but for the expiry (`SameRow`), and
that what `Count` checked still stands (`CountedStands`).

The first part of `QuotaProofs` is about types and shapes: what a transaction must
carry to be where it is. Then it proves *isolation* once (`OthersKeep`): a step of
transaction `x` that changes only rows `x` holds, locks `x` takes or gives back,
its own place, and counters and log rows of an account `x` holds, leaves what
every other transaction knows intact. Each action is then shown to be such a
step and to establish its own part; it never has to be compared with the other
actions. The ledger, the quota and the action properties follow from that
invariant with two more facts: only a commit charges (`NoChargeKeeps`), and what a
commit writes (`ChargeWrites`). `DeadlockFree` needs no ranking function: who holds
an account waits at most for an application, who holds an application waits
for nothing.

For `PolicyRespected` (`RoomLeft`): whoever has counted the applications of an
account holds the account's row until it writes. Only a creation adds an
application to an account (`OthersAddNone`, `FewerApps`), and it needs that row; so
what was counted can only have become less, and the write finds room for the one
it adds.

For `AnswersCorrect` (`Answered`): before it leaves the reservation a call has no
outcome and no row of a refusal; after that an admitted one has exactly one charge,
an unavailable one is charged only if the connection was lost after the commit, any
other has none; and `recordRequest`, which adds the row of a refusal, comes
last.

For `AdmissionImplemented` nothing new has to be invariant: the invariant, the ledger
and `Answered` are the three facts the step-by-step proof needs. The ledger turns
counters into counts of the log (`UsesCounted`, `UsedCounted`); under its locks a
call checks the rows as they are (`CheckedRows`), so each check of `reserve` is
the one of `Admission` (`CredentialChecked`, `QuotaChecked`, `OfferChecked`,
`FullChecked`), and what it checked still stands at the commit (`CountedStands`).
Then one lemma per action names the step it is (`PromiseAsks`, `PromisePasses`,
`PromiseAdmits`, ...), and `CallStays` those that are none. For the console's requests
(`PromiseManages`) it is `NoChargeKeeps`, `NextLedger` and `NextRevoked` again.

**Sessions.** A revoked device stays out because its row, once there, is never
inserted again; that needs to know who may still write the row: a session that
nobody signed in is nowhere (`Unused`), one being signed in belongs to that request
alone and nobody has seen its id before it is stored (`OwnSignIn`, `OwnStore`), and
whoever works on a device works on one that is registered (`Registered`). Then
`StillRevoked` is inductive. For deliveries: a session never changes its provider
session (`SameSid`), so what a delivery has been through stays clean (`Cleaned`).
Most actions touch none of this: `SessionsProofs` shows once that a *quiet* step,
one that changes only Keycloak's side and its actor's place, keeps the whole.
For `RefreshesBounded` (`LocksInv`): the requests that think they hold the lock of
a session are at most one for the lock that is there and one for each failure. A
request that takes the lock found it free; who gives back a lock that is no longer
its own leaves the set it takes one from, so that the count goes down with the
lock.

**Mail.** For `VerifiedIsOwn`: the challenge, the codes in the mailboxes and the
copy a request compared agree on the address of each code (`CodesAgree`), so an
address that is written as verified was read by its owner, whatever the
preference became meanwhile (`Proven`). For the mails: a row in `sending` has at
most one claimant (`OneClaim`), who knows how far it got (`ClaimedRow`, `SentSeen`), and
`Taken` says in which states Sender may have taken the mail. A row whose claimant
lost its lease goes to `uncertain`, which nothing claims: that is why a mail is
never sent twice.

For `TriesCorrect` (`TriesInv`): a worker that is in time has the
lease, so there is one, and what it read of the attempts is out by its own claim
and by failures. A worker that is late cost a failure, and may add one attempt if
it was about to claim. `Excess` counts the attempts of a notice with those that
late workers may still add, and takes off the failures; it grows only by the claim
of a worker in time, and a row that waits has room for that.

**Limits.** `SlotInv`: a call has one slot at each of its places from the script
until the release, and none before (`SlotsShaped`); a slot that nobody will give
back was lost to a failure, one for each at most (`LostGrows`); and a call in flight
whose lease has ended by no clock still has its slots, leased from when it got them on
(`Held`), so that no script, by whatever clock, has removed them. These calls then inject
into the slots the last script counted. Nothing is assumed of how long a call takes: one
that waits too long leaves `Leasing`, which is why the theorem says nothing of `InFlight`,
for which it would be false.
`WindowInv`: a window has never opened, or it knows when and
has counted exactly the calls since (`WindowTrue`); fewer than `n` of the earlier
ones lie less than a window before it opened (`WindowLimited`), because the call
that opened the previous one is further away. A stretch meets two windows at
most, which gives `2n - 1`.

**Forms.** `FormsInvariance`: every copy, draft and save is of an edition that the row
has had, and carries its `updated_at` exactly if it is the current one. What keeps
the second half is that a new edition gets a stamp no earlier one has: its stamp
is at least the time it is written, and the row before it was written at least a
round trip earlier by a clock that is ahead by less than that (`ClocksAssumption`).
From there `ServeSave` accepts exactly what `Accept` of `Editions` does, and every
other step maps to a step of `Editions` or to none.

**Announcements.** `BellsInv`: a mark is the id of an announcement that was published; a
feed has what is still visible below any of its items, except what was committed late,
or it has a full front above it (`FeedsComplete`), which is what the server's limit leaves of
completeness; and an open dialog has shown what it renders of its feed
(`FeedsDisplayed`). Marking the newest id of it then marks only what the dialog showed, or what
has a front of shown announcements above it; and fronts only grow (`FrontsGrow`).
That a finite feed has a newest id is itself a lemma, by well-founded induction
over strict subsets.

**Documents.** For `PagesBelong` (`TokenFollows`): a document whose token is the
cookie's, or that will have it from a query another one replaced, either has a current query
that asks with the cookie, or shows the cookie's account, or its last query ended with an error;
in the console such a page is not mounted, on the home page it is the exception. A sign-in in
another document changes the cookie to a session nobody has a token of, because a
session that is anywhere in a document was given out before (`SessionsKnown`). For
`VisitsRecordedOnce` (`VisitsCounted`): the promise in the map says how often the
server has been told, up to the lost answers, whichever of the queries of a
document waits for it (`WaitingVisited`).

**Applications page.** What makes the page's dialogs safe is that they exclude
each other: it waits for one form, or for one rotation or deletion, and a form and
a confirmation are never open together (`PageWaits`). A key that was issued has
been in the dialog, was lost with its answer, or belongs to a request the page
still waits for (`KeysTraced`). For the dialog not to hide a newer key behind an
older one, a key on its way to the page must be newer than all its dialog had of the same
application (`NewerUnseen`). That holds for a rotation because no other is under way,
and for a creation because its key is the first of an application that the page
has asked nothing else of (`AnswersOwn`).

**Lists.** What is cached or on its way under a key is for that key (`Keyed`), which is
why answers in any order do no harm. It is as new as the answered saves unless it
was invalidated, was overtaken by the save, or its last read failed (`AnswersNew`,
`CacheNew`), and an invalidated key that is shown is read at once (`ShownRead`).

**Mail settings.** A copy of the mailbox, with the number of writes it was read at,
is right until something other than a change to its own address is written
(`CopiesFollow`). A save the tab was told of is in everything it reads afterwards, or
the read that follows is still to come (`HeardIsRead`). A form whose address is not
the one that was read waits for a code only after a write (`FormsWait`). So where
the badge or the field for a code stands and nothing unheard of was written, the last
write left the address in the form.

**API reference.** Requests are numbered in the order in which they are sent, the mounted
explorer has those made for its endpoint, at most one of which is waited for, and the key in
the form was entered for the endpoint of the page, because it goes with the path
(`ExplorerInv`).

**Together.** `ConsoleTyped` follows page by page, since `ConsoleSpec` is the
conjunction of their specifications.

**Only model-checked.** `CallsEnd`, `RevokedIsCleared`, `EveryMailSettles` and
`EndedPagesLeave`: liveness under fairness is out of the prover's reach.
`InheritFollowsDefault`, `RotationSerialized`, `CurrentSsoKept` and `SlotsWithinLimit` are
violated. `ShellTypeOK` is proved in its two parts (`DocumentsTyped`, `FormsTyped`). Every
other property of the runs is proved.

## 12. Not modelled

Parsing, validation of text, HTTP headers, HTML, rendering and translation
carry no state. Analytics, dashboards and exports read only. The home, overview and
profile pages show what they read. GraphQL and MCP translate to
calls of the gateway and keep no state; monitoring maps aggregates to a health
state. The one-time migrations run in one transaction with their marker, under
the locks of the database, so that what could go wrong is in MySQL rather than in
the code. The unchecked `updateUser` stands in `PROJECT.json` as a hazard without a
property. A duplicate back-channel logout is answered 200 while the first is still working:
the model has it, but no property says what a provider that is content with that answer
would miss if the first failed; the repository promises nothing there. `MCQuotaServed` has one call: that a
lock which leaks keeps later calls of the account waiting is checked for requests and one
call, and excluded for calls by the invariant of the proof (`CallHolds`).
