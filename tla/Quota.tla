------------------------------- MODULE Quota -------------------------------
(***************************************************************************)
(* The admission of API calls: authenticateAPI, the endpoint checks of     *)
(* gateway, the transaction of reserve and the request log                 *)
(* (campus/gateway.go, campus/quota.go, campus/operations_logs.go), run    *)
(* against the console requests of module Accounts.                        *)
(*                                                                         *)
(* Each call is one request of gateway.  Its reservation locks the account *)
(* row, then the token row, then reads the endpoint policy and the daily   *)
(* counters from one snapshot, then adds one to every counter and inserts  *)
(* the log row.  The row locks are held to the commit, and the connection  *)
(* may be lost before the commit, after it but before its answer, or with  *)
(* the whole replica.                                                      *)
(***************************************************************************)
EXTENDS Accounts

CONSTANTS
  Endpoints,     \* paths of the catalogue
  EndpointRows,  \* the [on, scope, daily] policies an administrator may save
  Endpoint0,     \* the endpoint policies at the start
  MaxDay         \* bound: the number of UTC days

EndpointRow == [on : BOOLEAN, scope : Scopes, daily : Limits]

ASSUME QuotaAssumption ==
  /\ EndpointRows \subseteq EndpointRow
  /\ Endpoint0 \in [Endpoints -> EndpointRows]
  /\ MaxDay \in Nat \ {0}
  /\ None \notin Endpoints
  /\ None \notin {"refused", "disabled", "quota", "endpoint", "unavailable", "admitted"}

Days == 1 .. MaxDay

\* The keys of platform_daily_usage: user:<id>, token:<id> and
\* endpoint:<user>:<digest of the path>.
UserBucket(u)        == <<"user", u, None>>
TokenBucket(t)       == <<"token", t, None>>
EndpointBucket(u, e) == <<"endpoint", u, e>>
BucketsOf(u, t, e)   == {UserBucket(u), TokenBucket(t), EndpointBucket(u, e)}
Bucket == {UserBucket(u) : u \in Users} \cup {TokenBucket(t) : t \in Tokens}
            \cup {EndpointBucket(u, e) : u \in Users, e \in Endpoints}

VARIABLES
  endpoint,   \* platform_endpoint_policies
  usage,      \* platform_daily_usage
  charges,    \* the rows of platform_logs with admitted = true
  open,       \* the calls whose charge row still has status 0
  refusals,   \* the calls with a row with admitted = false
  day,        \* the UTC day
  call        \* the requests in gateway

quotaVars == <<endpoint, usage, charges, open, refusals, day, call>>
vars == <<accountVars, quotaVars>>

Charge == [call : Calls, user : Users, token : Tokens, endpoint : Endpoints, day : Days]

\* What a call holds: its place and its outcome, the request, the credential
\* authenticateAPI saw (key, grant), the two rows reserve read under their
\* locks, and the endpoint limit and the day of its snapshot.
CallRow ==
  [pc : {"new", "authed", "admit", "user", "token", "counted",
         "upstream", "answer", "done", "dead"},
   result : {None, "refused", "disabled", "quota", "endpoint", "unavailable", "admitted"},
   endpoint : Endpoints \cup {None}, ip : Ips \cup {None},
   user : Users \cup {None}, token : Tokens \cup {None},
   key : Nat, grant : Grants \cup {None},
   urow : UserRow \cup {None}, trow : TokenRow \cup {None},
   elimit : Limits \cup {0}, day : Days \cup {0}]

NewCall ==
  [pc |-> "new", result |-> None, endpoint |-> None, ip |-> None, user |-> None,
   token |-> None, key |-> 0, grant |-> None, urow |-> None, trow |-> None,
   elimit |-> 0, day |-> 0]

Init ==
  /\ AccountsInit
  /\ endpoint = Endpoint0
  /\ usage = [b \in Bucket |-> [d \in Days |-> 0]]
  /\ charges = {}
  /\ open = {}
  /\ refusals = {}
  /\ day = 1
  /\ call = [c \in Calls |-> NewCall]

-----------------------------------------------------------------------------
\* Before the reservation.

\* authenticateAPI reads the token row by the digest of the presented key and
\* then its account, without locks, and keeps what it read.
Authenticate(c) ==
  \E t \in Tokens, e \in Endpoints, ip \in Ips :
    LET row == token[t]
    IN  /\ call[c].pc = "new"
        /\ row.state = "live" /\ row.enabled /\ ~row.suspended /\ ~row.revoked
        /\ row.expiry # "past"
        /\ user[row.owner].known /\ user[row.owner].enabled
        /\ ip \in row.grant.ips
        /\ call' = [call EXCEPT ![c] = [NewCall EXCEPT !.pc = "authed",
                      !.endpoint = e, !.ip = ip, !.user = row.owner, !.token = t,
                      !.key = row.key, !.grant = row.grant]]
        /\ UNCHANGED <<accountVars, endpoint, usage, charges, open, refusals, day>>

\* gateway reads the endpoint policy: it must be available and its scope held.
CheckEndpoint(c) ==
  LET row == endpoint[call[c].endpoint]
  IN  /\ call[c].pc = "authed"
      /\ row.on /\ row.scope \in call[c].grant.scopes
      /\ call' = [call EXCEPT ![c].pc = "admit"]
      /\ UNCHANGED <<accountVars, endpoint, usage, charges, open, refusals, day>>

\* A call leaves the gateway with an answer; only its outcome is kept.
Leave(c, result) ==
  call' = [call EXCEPT ![c] = [NewCall EXCEPT !.pc = "answer", !.result = result]]

\* Wrong key, address, scope, query or body, or a limit of apiRate.
Refuse(c) ==
  /\ call[c].pc \in {"new", "authed"}
  /\ Leave(c, "refused")
  /\ UNCHANGED <<accountVars, endpoint, usage, charges, open, refusals, day>>

-----------------------------------------------------------------------------
\* reserve.

\* Variant: the account row is read without FOR UPDATE.
LockUser_Shared(c) ==
  /\ call[c].pc = "admit"
  /\ call' = [call EXCEPT ![c].pc = "user", ![c].urow = user[call[c].user]]
  /\ UNCHANGED <<accountVars, endpoint, usage, charges, open, refusals, day>>

LockUser(c) ==
  LET u == call[c].user
  IN  /\ call[c].pc = "admit"
      /\ userLock[u] = None
      /\ userLock' = [userLock EXCEPT ![u] = c]
      /\ call' = [call EXCEPT ![c].pc = "user", ![c].urow = user[u]]
      /\ UNCHANGED <<rows, tokenLock, op, endpoint, usage, charges, open, refusals, day>>

LockToken(c) ==
  LET t == call[c].token
  IN  /\ call[c].pc = "user"
      /\ tokenLock[t] = None
      /\ token[t].state = "live"
      /\ tokenLock' = [tokenLock EXCEPT ![t] = c]
      /\ call' = [call EXCEPT ![c].pc = "token", ![c].trow = token[t]]
      /\ UNCHANGED <<rows, userLock, op, endpoint, usage, charges, open, refusals, day>>

\* Variant: the rows are checked, but not against what was authenticated.
Disabled_NoSnapshot(c) ==
  LET u == call[c].urow
      t == call[c].trow
  IN  \/ ~u.enabled \/ ~t.enabled \/ t.suspended \/ t.revoked
      \/ t.owner # call[c].user \/ token[call[c].token].expiry = "past"

\* The checks of reserve, in their order.  expires_at is locked, the clock
\* it is compared with is not.
Disabled(c) ==
  LET u == call[c].urow
      t == call[c].trow
  IN  \/ ~u.enabled \/ ~t.enabled \/ t.suspended \/ t.revoked
      \/ t.owner # call[c].user \/ token[call[c].token].expiry = "past"
      \/ t.key # call[c].key \/ t.grant # call[c].grant
Spent(c)  == call[c].trow.quota > 0 /\ call[c].trow.used >= call[c].trow.quota
Closed(c) ==
  LET row == endpoint[call[c].endpoint]
  IN  ~row.on \/ row.scope \notin call[c].trow.grant.scopes
Full(c) ==
  LET k == call[c]
  IN  \/ usage[UserBucket(k.user)][day] >= k.urow.daily
      \/ usage[TokenBucket(k.token)][day] >= k.trow.daily
      \/ usage[EndpointBucket(k.user, k.endpoint)][day] >= endpoint[k.endpoint].daily

\* Variant: the day is left empty.
Count_NoDay(c) ==
  /\ call[c].pc = "token"
  /\ ~Disabled(c) /\ ~Spent(c) /\ ~Closed(c) /\ ~Full(c)
  /\ call' = [call EXCEPT ![c].pc = "counted",
                          ![c].elimit = endpoint[call[c].endpoint].daily]
  /\ UNCHANGED <<accountVars, endpoint, usage, charges, open, refusals, day>>

\* The first unlocked read opens the snapshot all of them use.
Count(c) ==
  /\ call[c].pc = "token"
  /\ ~Disabled(c) /\ ~Spent(c) /\ ~Closed(c) /\ ~Full(c)
  /\ call' = [call EXCEPT ![c].pc = "counted", ![c].day = day,
                          ![c].elimit = endpoint[call[c].endpoint].daily]
  /\ UNCHANGED <<accountVars, endpoint, usage, charges, open, refusals, day>>

\* Variant: an early return leaves the transaction open.
EndReservation_NoRelease(c, result) ==
  /\ Leave(c, result)
  /\ UNCHANGED <<user, policy, locks, op, endpoint, refusals, day>>

\* The transaction gives back its locks and the call answers with result.
EndReservation(c, result) ==
  /\ Release(c)
  /\ Leave(c, result)
  /\ UNCHANGED <<user, policy, op, endpoint, refusals, day>>

\* errDisabled, errQuota, errEndpoint, or no row: rolled back.
Deny(c) ==
  /\ \/ /\ call[c].pc = "user"
        /\ tokenLock[call[c].token] = None
        /\ token[call[c].token].state # "live"
        /\ EndReservation(c, "unavailable")
     \/ /\ call[c].pc = "token"
        /\ \/ Disabled(c) /\ EndReservation(c, "disabled")
           \/ ~Disabled(c) /\ Spent(c) /\ EndReservation(c, "quota")
           \/ ~Disabled(c) /\ ~Spent(c) /\ Closed(c) /\ EndReservation(c, "endpoint")
           \/ ~Disabled(c) /\ ~Spent(c) /\ ~Closed(c) /\ Full(c) /\ EndReservation(c, "quota")
  /\ UNCHANGED <<token, usage, charges, open>>

\* What the transaction writes: requests + 1 in the three counters,
\* used_quota + 1, and the log row.
ChargeOf(c) ==
  [call |-> c, user |-> call[c].user, token |-> call[c].token,
   endpoint |-> call[c].endpoint, day |-> call[c].day]

WriteCharge(c) ==
  LET k == call[c]
  IN  /\ usage' = [b \in Bucket |->
           IF b \in BucketsOf(k.user, k.token, k.endpoint)
             THEN [usage[b] EXCEPT ![k.day] = @ + 1] ELSE usage[b]]
      /\ token' = [token EXCEPT ![k.token].used = @ + 1]
      /\ charges' = charges \cup {ChargeOf(c)}
      /\ open' = open \cup {c}

Commit(c) ==
  /\ call[c].pc = "counted"
  /\ WriteCharge(c)
  /\ Release(c)
  /\ call' = [call EXCEPT ![c] = [NewCall EXCEPT !.pc = "upstream", !.result = "admitted"]]
  /\ UNCHANGED <<user, policy, op, endpoint, refusals, day>>

\* The commit takes effect but its answer is lost: reserve reports an error.
CommitUnseen(c) ==
  /\ call[c].pc = "counted"
  /\ WriteCharge(c)
  /\ EndReservation(c, "unavailable")

\* Variant: without the transaction, what was counted stays counted.
CancelReserve_NoRollback(c) ==
  LET k == call[c]
  IN  /\ k.pc = "counted"
      /\ usage' = [usage EXCEPT ![UserBucket(k.user)][k.day] = @ + 1]
      /\ EndReservation(c, "unavailable")
      /\ UNCHANGED <<token, charges, open>>

\* The client goes away, a lock wait times out or the database fails.
CancelReserve(c) ==
  /\ call[c].pc \in {"admit", "user", "token", "counted"}
  /\ EndReservation(c, "unavailable")
  /\ UNCHANGED <<token, usage, charges, open>>

-----------------------------------------------------------------------------
\* After the reservation.

\* The signed request to the campus service; every outcome is an answer.
Forward(c) ==
  /\ call[c].pc = "upstream"
  /\ call' = [call EXCEPT ![c].pc = "answer"]
  /\ UNCHANGED <<accountVars, endpoint, usage, charges, open, refusals, day>>

\* Variant: every answer inserts a row.
Record_AlwaysInserts(c) ==
  /\ call[c].pc = "answer"
  /\ call' = [call EXCEPT ![c].pc = "done"]
  /\ refusals' = refusals \cup {c}
  /\ UNCHANGED <<accountVars, endpoint, usage, charges, open, day>>

\* recordRequest completes the row reserve created, or inserts one that is
\* not admitted; its failure is only printed.
Record(c) ==
  /\ call[c].pc = "answer"
  /\ call' = [call EXCEPT ![c].pc = "done"]
  /\ \/ call[c].result = "admitted" /\ open' = open \ {c} /\ UNCHANGED refusals
     \/ call[c].result # "admitted" /\ refusals' = refusals \cup {c} /\ UNCHANGED open
     \/ UNCHANGED <<open, refusals>>
  /\ UNCHANGED <<accountVars, endpoint, usage, charges, day>>

\* The replica dies: its transaction is rolled back, nothing is recorded.
Die(c) ==
  /\ call[c].pc \notin {"new", "done", "dead"}
  /\ Release(c)
  /\ call' = [call EXCEPT ![c] = [NewCall EXCEPT !.pc = "dead", !.result = call[c].result]]
  /\ UNCHANGED <<rows, op, endpoint, usage, charges, open, refusals, day>>

-----------------------------------------------------------------------------
\* updateEndpoint writes one policy row; reserve reads it without a lock.
UpdateEndpoint(e) ==
  \E row \in EndpointRows :
    /\ row # endpoint[e]
    /\ endpoint' = [endpoint EXCEPT ![e] = row]
    /\ UNCHANGED <<accountVars, usage, charges, open, refusals, day, call>>

\* Midnight, UTC.
NextDay ==
  /\ day < MaxDay
  /\ day' = day + 1
  /\ UNCHANGED <<accountVars, endpoint, usage, charges, open, refusals, call>>

\* What the server does with a call it has accepted.
AdvanceCall(c) ==
  \/ CheckEndpoint(c) \/ LockUser(c) \/ LockToken(c) \/ Count(c) \/ Deny(c)
  \/ Commit(c) \/ Forward(c) \/ Record(c)
  \/ call[c].pc = "authed" /\ Refuse(c)

Next ==
  \/ AccountsNext /\ UNCHANGED quotaVars
  \/ \E c \in Calls :
       Authenticate(c) \/ Refuse(c) \/ AdvanceCall(c)
         \/ CommitUnseen(c) \/ CancelReserve(c) \/ Die(c)
  \/ \E e \in Endpoints : UpdateEndpoint(e)
  \/ NextDay

Spec == Init /\ [][Next]_vars

\* Each replica goes on with its calls, the database with its transactions:
\* nobody waits for a row for ever once it is free.
Fairness ==
  /\ \A c \in Calls : WF_vars(AdvanceCall(c))
  /\ \A r \in Requests : WF_vars(AdvanceRequest(r) /\ UNCHANGED quotaVars)
FairSpec == Spec /\ Fairness
-----------------------------------------------------------------------------
\* Properties.

TypeOK ==
  /\ user \in [Users -> UserRow]
  /\ token \in [Tokens -> TokenRow]
  /\ policy \in Policies
  /\ userLock \in [Users -> Tx \cup {None}]
  /\ tokenLock \in [Tokens -> Tx \cup {None}]
  /\ op \in [Requests -> OpRow]
  /\ endpoint \in [Endpoints -> EndpointRows]
  /\ usage \in [Bucket -> [Days -> Nat]]
  /\ charges \subseteq Charge
  /\ open \subseteq Calls /\ refusals \subseteq Calls
  /\ day \in Days
  /\ call \in [Calls -> CallRow]

\* The counters never drift from the log: each daily counter is the number of
\* admitted rows charged to it, and used_quota the number of admitted rows of
\* the application, whatever was cancelled, lost or deleted on the way.
LedgerMatches ==
  /\ \A b \in Bucket, d \in Days :
       usage[b][d] = Cardinality({x \in charges :
                       b \in BucketsOf(x.user, x.token, x.endpoint) /\ x.day = d})
  /\ \A t \in Tokens : token[t].used = Cardinality({x \in charges : x.token = t})

\* An application never uses more than its total quota, although its owner
\* may lower the quota while calls are being admitted.
QuotaRespected ==
  \A t \in Tokens : token[t].quota > 0 => token[t].used <= token[t].quota

\* The reservation of c commits.
Charged(c) == charges' # charges /\ call[c].pc = "counted" /\ call'[c].pc # "counted"

\* A call is charged only while every limit still has room at the moment of
\* the commit: the account's and the application's limit as they are in
\* force then, the endpoint's as the call's own snapshot read it.
ChargedWithinLimits ==
  \A c \in Calls : Charged(c) =>
    LET k == call[c]
    IN  /\ usage'[UserBucket(k.user)][k.day] <= user[k.user].daily
        /\ usage'[TokenBucket(k.token)][k.day] <= token[k.token].daily
        /\ usage'[EndpointBucket(k.user, k.endpoint)][k.day] <= k.elimit
AdmitWithinLimits == [][ChargedWithinLimits]_vars

\* A call is charged only on the credential as it is at the commit: an
\* account and application that are on, neither suspended nor revoked, the
\* key the caller presented not rotated away, its address let in.
ChargedOnCredential ==
  \A c \in Calls : Charged(c) =>
    LET k == call[c]
        t == token[k.token]
    IN  /\ user[k.user].enabled
        /\ t.state = "live" /\ t.owner = k.user
        /\ t.enabled /\ ~t.suspended /\ ~t.revoked
        /\ t.key = k.key /\ k.ip \in t.grant.ips
AdmitCurrentCredential == [][ChargedOnCredential]_vars

\* The caller's answer and the log agree: an admitted call has exactly one
\* admitted row, a refused one none, and a call has both kinds of row only if
\* its commit was not seen.
AnswerMatchesCharge ==
  \A c \in Calls :
    LET mine == {x \in charges : x.call = c}
    IN  /\ call[c].result = "admitted" => Cardinality(mine) = 1
        /\ call[c].result \in {"refused", "disabled", "quota", "endpoint"} => mine = {}
        /\ c \in refusals => call[c].result # "admitted"
        /\ c \in refusals /\ mine # {} => call[c].result = "unavailable" /\ c \in open

-----------------------------------------------------------------------------
\* The promise.

\* An application without its counter.
ApplicationOf(row) ==
  [state |-> row.state, owner |-> row.owner, key |-> row.key, grant |-> row.grant,
   enabled |-> row.enabled, suspended |-> row.suspended, revoked |-> row.revoked,
   expiry |-> row.expiry, daily |-> row.daily, quota |-> row.quota]

\* What a call asks for, from its authentication until its reservation ends.
AskedOf(k) ==
  IF k.pc \in {"authed", "admit", "user", "token", "counted"}
  THEN [stage |-> IF k.pc = "counted" THEN "passed" ELSE "asked", user |-> k.user,
        token |-> k.token, endpoint |-> k.endpoint, ip |-> k.ip, key |-> k.key,
        grant |-> k.grant, limit |-> k.elimit, day |-> k.day]
  ELSE [stage |-> "none"]

Promise == INSTANCE Admission WITH
  account <- user,
  application <- [t \in Tokens |-> ApplicationOf(token[t])],
  today <- day,
  log <- charges,
  asked <- [c \in Calls |-> AskedOf(call[c])],
  answer <- [c \in Calls |-> call[c].result]

(* Row locks, counters and transactions that may be lost behave as one step   *)
(* would: a call is admitted while its credential, the total quota and every  *)
(* limit it was checked against are good, counted in the log itself; and who  *)
(* is refused is told a reason that is so.                                    *)
ImplementsAdmission == Promise!AdmissionSpec
-----------------------------------------------------------------------------
\* Circles of transactions, and calls that do not end.

WaitsFor(x) ==
  IF x \in Requests THEN RequestWaitsFor(x)
  ELSE CASE call[x].pc = "admit" -> userLock[call[x].user]
         [] call[x].pc = "user" -> tokenLock[call[x].token]
         [] OTHER -> None

\* No circle of transactions in which each waits for a row the next one
\* holds: admissions and console requests lock accounts before applications.
NoCircularWait ==
  ~ \E S \in SUBSET Tx : S # {} /\ \A x \in S : WaitsFor(x) \in S

\* Every call that was accepted is answered and closed, unless its replica
\* died; no lock is held against it for ever.
CallsEnd == \A c \in Calls : call[c].pc = "authed" ~> call[c].pc \in {"done", "dead"}
=============================================================================
