------------------------------ MODULE Accounts ------------------------------
(***************************************************************************)
(* The rows of platform_users and platform_tokens, the operations policy   *)
(* setting, the InnoDB row locks of both tables, and the console and       *)
(* sign-in requests that write them (campus/console.go,                    *)
(* campus/operations_apps.go, campus/operations_settings.go and the        *)
(* account part of campus/auth.go).                                        *)
(*                                                                         *)
(* A request runs one transaction.  It reads what its handler reads before *)
(* the transaction, takes its row locks one at a time in the order of the  *)
(* code, keeps the row it read under the lock, and writes and commits.     *)
(* API calls (module Quota) lock the same rows.                            *)
(***************************************************************************)
EXTENDS Integers, FiniteSets

CONSTANTS
  Users,      \* accounts
  Tokens,     \* ids of applications, each given out once (auto-increment)
  Requests,   \* console and sign-in requests, one transaction each
  Calls,      \* API calls: their reservations lock the same rows
  None,       \* no row, no lock holder
  Scopes,     \* permissions an application may hold
  Ips,        \* client addresses
  Grants,     \* the [scopes, ips] pairs an owner may choose
  Limits,     \* daily limits that may be set
  Quotas,     \* total quotas that may be set; 0 is "unlimited"
  Policies,   \* the [daily, maxApps] settings an administrator may save
  Kinds,      \* the kinds of request this instance issues
  MaxKey,     \* bound: no rotation begins on an application with MaxKey keys
  User0, Token0, Policy0   \* the database at the start

Tx == Requests \cup Calls

UserRow == [known : BOOLEAN, enabled : BOOLEAN, inherit : BOOLEAN, daily : Limits]

\* "free" ids have no row yet; key counts the keys issued, so the current
\* key hash is the pair of the id and key.  grant is the pair of the columns
\* scopes and allowed_ips, the latter as the set of addresses it lets in.
TokenRow ==
  [state : {"free", "live", "deleted"}, owner : Users, key : Nat,
   grant : Grants, enabled : BOOLEAN, suspended : BOOLEAN, revoked : BOOLEAN,
   expiry : {"never", "ahead", "past"}, daily : Limits, quota : Quotas,
   used : Nat]

OwnerKinds == {"create", "update", "rotate", "delete"}
AllKinds   == OwnerKinds \cup {"regulate", "updateUser", "signIn"}

ASSUME ConstantsAssumption ==
  /\ None \notin Tx \cup Users \cup Tokens
  /\ Requests \cap Calls = {}
  /\ Grants \subseteq [scopes : SUBSET Scopes, ips : SUBSET Ips]
  /\ Limits \subseteq Nat \ {0}
  /\ Quotas \subseteq Nat
  /\ Policies \subseteq [daily : Limits, maxApps : Nat]
  /\ Kinds \subseteq AllKinds
  /\ MaxKey \in Nat
ASSUME TokensAssumption == IsFiniteSet(Tokens)
ASSUME DatabaseAssumption ==
  /\ User0 \in [Users -> UserRow]
  /\ Token0 \in [Tokens -> TokenRow]
  /\ Policy0 \in Policies
  /\ \A t \in Tokens : Token0[t].used = 0

VARIABLES
  user,       \* platform_users
  token,      \* platform_tokens
  policy,     \* the setting operations.policy.v1
  userLock,   \* the transaction that holds a user row, or None
  tokenLock,  \* the transaction that holds a token row, or None
  op          \* the console requests

rows  == <<user, token, policy>>
locks == <<userLock, tokenLock>>
accountVars == <<user, token, policy, userLock, tokenLock, op>>

\* What a request holds: where it stands, what it was asked for, what it read
\* before its transaction (cap: the session's daily limit; seen: the policy),
\* the token row read under its lock and the applications it counted.
OpRow ==
  [pc : {"idle", "user", "token", "count", "write", "done"},
   kind : AllKinds \cup {None}, actor : Users \cup {None},
   user : Users \cup {None}, token : Tokens \cup {None},
   cap : Limits \cup {0}, seen : Policies,
   row : TokenRow \cup {None}, apps : Nat]

IdleOp ==
  [pc |-> "idle", kind |-> None, actor |-> None, user |-> None,
   token |-> None, cap |-> 0, seen |-> Policy0, row |-> None, apps |-> 0]

AccountsInit ==
  /\ user = User0
  /\ token = Token0
  /\ policy = Policy0
  /\ userLock = [u \in Users |-> None]
  /\ tokenLock = [t \in Tokens |-> None]
  /\ op = [r \in Requests |-> IdleOp]

-----------------------------------------------------------------------------
\* Locks.  A commit or a rollback gives back every row its transaction holds.

Freed(lock, x) == [k \in DOMAIN lock |-> IF lock[k] = x THEN None ELSE lock[k]]

Release(x) ==
  /\ userLock' = Freed(userLock, x)
  /\ tokenLock' = Freed(tokenLock, x)

\* The end of request r, committed or not.
Finish(r) ==
  /\ Release(r)
  /\ op' = [op EXCEPT ![r] = [IdleOp EXCEPT !.pc = "done", !.kind = op[r].kind]]

AppsOf(u) == {t \in Tokens : token[t].state = "live" /\ token[t].owner = u}

\* Variant: updateToken and the other owner requests lock the application first.
Then_TokenFirst(k, pc) ==
  CASE pc = "idle" -> IF k \in {"regulate", "update", "rotate", "delete"} THEN "token" ELSE "user"
    [] pc = "user" -> IF k = "create" THEN "count" ELSE "write"
    [] pc = "token" -> IF k = "regulate" THEN "write" ELSE "user"
    [] pc = "count" -> "write"

\* The step a request of kind k takes after pc: the lock order of the code.
\* Accounts come before applications, as in reserve; regulateToken takes the
\* application alone.
Then(k, pc) ==
  CASE pc = "idle" -> IF k = "regulate" THEN "token" ELSE "user"
    [] pc = "user" -> IF k = "create" THEN "count"
                      ELSE IF k \in {"update", "rotate", "delete"} THEN "token"
                      ELSE "write"
    [] pc \in {"token", "count"} -> "write"

-----------------------------------------------------------------------------
\* What a handler does before its transaction.

\* sessionAuth lets the request in for an enabled account.
SignedIn(u) == user[u].known /\ user[u].enabled

\* createToken, updateToken, rotateToken, deleteToken by account u; the id in
\* the path may be anyone's.  The input is validated against the session's
\* copy of the account (cap), createToken has read the policy (seen).
BeginOwn(r) ==
  \E k \in Kinds \cap OwnerKinds, u \in Users, t \in Tokens \cup {None} :
    /\ op[r].pc = "idle"
    /\ SignedIn(u)
    /\ k = "create" <=> t = None
    /\ k = "rotate" => token[t].key < MaxKey
    /\ op' = [op EXCEPT ![r] = [IdleOp EXCEPT !.pc = Then(k, "idle"), !.kind = k,
                !.actor = u, !.user = u, !.token = t,
                !.cap = user[u].daily, !.seen = policy]]
    /\ UNCHANGED <<rows, locks>>

\* regulateToken: the administrator names any application.
BeginRegulate(r) ==
  \E t \in Tokens :
    /\ op[r].pc = "idle"
    /\ "regulate" \in Kinds
    /\ op' = [op EXCEPT ![r] = [IdleOp EXCEPT !.pc = Then("regulate", "idle"),
                !.kind = "regulate", !.token = t]]
    /\ UNCHANGED <<rows, locks>>

\* updateUser by administrator a: with inherit_limits the new limits are the
\* policy, read here, before the transaction.
BeginUpdateUser(r) ==
  \E a \in Users, u \in Users :
    /\ op[r].pc = "idle"
    /\ "updateUser" \in Kinds
    /\ SignedIn(a)
    /\ op' = [op EXCEPT ![r] = [IdleOp EXCEPT !.pc = Then("updateUser", "idle"),
                !.kind = "updateUser", !.actor = a, !.user = u, !.seen = policy]]
    /\ UNCHANGED <<rows, locks>>

\* callback reads the policy a new account starts with, then upserts it.
BeginSignIn(r) ==
  \E u \in Users :
    /\ op[r].pc = "idle"
    /\ "signIn" \in Kinds
    /\ op' = [op EXCEPT ![r] = [IdleOp EXCEPT !.pc = Then("signIn", "idle"),
                !.kind = "signIn", !.user = u, !.seen = policy]]
    /\ UNCHANGED <<rows, locks>>

-----------------------------------------------------------------------------
\* The transaction.

\* Variant: the account row is read without FOR UPDATE.
LockUserRow_Shared(r) ==
  /\ op[r].pc = "user"
  /\ op' = [op EXCEPT ![r].pc = Then(op[r].kind, "user")]
  /\ UNCHANGED <<rows, locks>>

\* Every owner request, updateUser and callback lock the account row first.
LockUserRow(r) ==
  LET u == op[r].user
  IN  /\ op[r].pc = "user"
      /\ userLock[u] = None
      /\ userLock' = [userLock EXCEPT ![u] = r]
      /\ op' = [op EXCEPT ![r].pc = Then(op[r].kind, "user")]
      /\ UNCHANGED <<rows, tokenLock>>

\* The row the request asks for: the owner's own, or any for regulateToken.
Found(r) ==
  LET row == token[op[r].token]
  IN  row.state = "live" /\ (op[r].kind = "regulate" \/ row.owner = op[r].user)

\* Variant: the token row is read without FOR UPDATE.
LockTokenRow_Shared(r) ==
  /\ op[r].pc = "token"
  /\ Found(r)
  /\ op' = [op EXCEPT ![r].pc = Then(op[r].kind, "token"), ![r].row = token[op[r].token]]
  /\ UNCHANGED <<rows, locks>>

\* The token row is read and locked by the same statement.
LockTokenRow(r) ==
  LET t == op[r].token
  IN  /\ op[r].pc = "token"
      /\ tokenLock[t] = None
      /\ Found(r)
      /\ tokenLock' = [tokenLock EXCEPT ![t] = r]
      /\ op' = [op EXCEPT ![r].pc = Then(op[r].kind, "token"), ![r].row = token[t]]
      /\ UNCHANGED <<rows, userLock>>

\* createToken counts the account's applications under the account's lock.
CountApps(r) ==
  LET u == op[r].user
      n == Cardinality(AppsOf(u))
  IN  /\ op[r].pc = "count"
      /\ user[u].enabled
      /\ n < op[r].seen.maxApps
      /\ op' = [op EXCEPT ![r].pc = Then(op[r].kind, "count"), ![r].apps = n]
      /\ UNCHANGED <<rows, locks>>

\* What tokenInput.validate and expiration let through.
ValidInput(r, g, d, x) ==
  /\ g.scopes # {}
  /\ d <= op[r].cap
  /\ x \in {"never", "ahead"}

WriteCreate(r) ==
  \E t \in Tokens, g \in Grants, d \in Limits, q \in Quotas, x \in {"never", "ahead"} :
    /\ op[r].pc = "write" /\ op[r].kind = "create"
    /\ token[t].state = "free"
    /\ ValidInput(r, g, d, x)
    /\ token' = [token EXCEPT ![t] =
         [state |-> "live", owner |-> op[r].user, key |-> 1, grant |-> g,
          enabled |-> TRUE, suspended |-> FALSE, revoked |-> FALSE,
          expiry |-> x, daily |-> d, quota |-> q, used |-> 0]]
    /\ Finish(r)
    /\ UNCHANGED <<user, policy>>

\* Variants: updateToken forgets one of its two conditions.
UpdateAccepted_AnyQuota(r, q)   == ~op[r].row.revoked
UpdateAccepted_EvenRevoked(r, q) == ~(q > 0 /\ q < op[r].row.used)

\* updateToken refuses a revoked row and a total quota below what is used.
UpdateAccepted(r, q) ==
  ~op[r].row.revoked /\ ~(q > 0 /\ q < op[r].row.used)

\* Variant: the whole input is saved, the administrator's columns included.
WriteUpdate_Saves(r) ==
  \E g \in Grants, d \in Limits, q \in Quotas :
    /\ op[r].pc = "write" /\ op[r].kind = "update"
    /\ ValidInput(r, g, d, "never")
    /\ UpdateAccepted(r, q)
    /\ token' = [token EXCEPT ![op[r].token] =
         [@ EXCEPT !.grant = g, !.daily = d, !.quota = q, !.suspended = FALSE]]
    /\ Finish(r)
    /\ UNCHANGED <<user, policy>>

WriteUpdate(r) ==
  \E g \in Grants, d \in Limits, q \in Quotas, x \in {"never", "ahead"}, on \in BOOLEAN :
    /\ op[r].pc = "write" /\ op[r].kind = "update"
    /\ ValidInput(r, g, d, x)
    /\ UpdateAccepted(r, q)
    /\ token' = [token EXCEPT ![op[r].token] =
         [@ EXCEPT !.grant = g, !.daily = d, !.quota = q, !.expiry = x, !.enabled = on]]
    /\ Finish(r)
    /\ UNCHANGED <<user, policy>>

\* rotateToken's UPDATE skips revoked and suspended rows.
WriteRotate(r) ==
  /\ op[r].pc = "write" /\ op[r].kind = "rotate"
  /\ ~op[r].row.revoked /\ ~op[r].row.suspended
  /\ token' = [token EXCEPT ![op[r].token].key = @ + 1]
  /\ Finish(r)
  /\ UNCHANGED <<user, policy>>

WriteDelete(r) ==
  /\ op[r].pc = "write" /\ op[r].kind = "delete"
  /\ token' = [token EXCEPT ![op[r].token].state = "deleted"]
  /\ Finish(r)
  /\ UNCHANGED <<user, policy>>

\* regulateToken: suspend, resume or revoke, never on a revoked row.
WriteRegulate(r) ==
  \E action \in {"suspend", "resume", "revoke"} :
    /\ op[r].pc = "write" /\ op[r].kind = "regulate"
    /\ ~op[r].row.revoked
    /\ token' = [token EXCEPT ![op[r].token] =
         [@ EXCEPT !.suspended = (action # "resume"), !.revoked = (action = "revoke")]]
    /\ Finish(r)
    /\ UNCHANGED <<user, policy>>

\* updateUser: nobody disables the account that makes the request.
WriteUser(r) ==
  \E on \in BOOLEAN, inherit \in BOOLEAN, d \in Limits :
    LET u == op[r].user
    IN  /\ op[r].pc = "write" /\ op[r].kind = "updateUser"
        /\ user[u].known
        /\ on \/ op[r].actor # u
        /\ inherit => d = op[r].seen.daily
        /\ user' = [user EXCEPT ![u] = [@ EXCEPT !.enabled = on,
                                          !.inherit = inherit, !.daily = d]]
        /\ Finish(r)
        /\ UNCHANGED <<token, policy>>

\* callback inserts an unknown account with the limits it read, and refuses a
\* disabled one.
WriteSignIn(r) ==
  LET u == op[r].user
  IN  /\ op[r].pc = "write" /\ op[r].kind = "signIn"
      /\ user[u].known => user[u].enabled
      /\ user' = IF user[u].known THEN user
                 ELSE [user EXCEPT ![u] = [known |-> TRUE, enabled |-> TRUE,
                         inherit |-> TRUE, daily |-> op[r].seen.daily]]
      /\ Finish(r)
      /\ UNCHANGED <<token, policy>>

\* The early returns of the transactions: nothing is written.
Refused(r) ==
  LET k == op[r].kind
      u == op[r].user
  IN  \/ /\ op[r].pc = "token" /\ tokenLock[op[r].token] = None /\ ~Found(r)
      \/ /\ op[r].pc = "count"
         /\ ~user[u].enabled \/ Cardinality(AppsOf(u)) >= op[r].seen.maxApps
      \/ /\ op[r].pc = "write"
         /\ \/ k = "update" /\ \E q \in Quotas : ~UpdateAccepted(r, q)
            \/ k = "rotate" /\ (op[r].row.revoked \/ op[r].row.suspended)
            \/ k = "regulate" /\ op[r].row.revoked
            \/ k = "updateUser" /\ (~user[u].known \/ op[r].actor = u)
            \/ k = "signIn" /\ user[u].known /\ ~user[u].enabled

\* Variant: an early return leaves the transaction open.
RejectRequest_KeepsLocks(r) ==
  /\ Refused(r)
  /\ op' = [op EXCEPT ![r] = [IdleOp EXCEPT !.pc = "done", !.kind = op[r].kind]]
  /\ UNCHANGED <<rows, userLock, tokenLock>>

RejectRequest(r) == Refused(r) /\ Finish(r) /\ UNCHANGED rows

\* A database error, a lock wait timeout or the replica's end rolls it back.
AbortRequest(r) ==
  /\ op[r].pc \in {"user", "token", "count", "write"}
  /\ Finish(r)
  /\ UNCHANGED rows

-----------------------------------------------------------------------------
\* Variant: the limits are copied without waiting for reservations.
UpdatePolicy_NoWait ==
  \E p \in Policies :
    /\ p # policy
    /\ policy' = p
    /\ user' = [u \in Users |->
         IF user[u].known /\ user[u].inherit THEN [user[u] EXCEPT !.daily = p.daily]
                                             ELSE user[u]]
    /\ UNCHANGED <<token, locks, op>>

\* updatePolicy saves the setting and, in the same transaction, copies the
\* default limit to every account that inherits it; that UPDATE waits for
\* every user row (inherit_limits has no index).
UpdatePolicy ==
  \E p \in Policies :
    /\ p # policy
    /\ \A u \in Users : userLock[u] = None
    /\ policy' = p
    /\ user' = [u \in Users |->
         IF user[u].known /\ user[u].inherit THEN [user[u] EXCEPT !.daily = p.daily]
                                             ELSE user[u]]
    /\ UNCHANGED <<token, locks, op>>

\* Time reaches the expires_at of an application.
Lapse(t) ==
  /\ token[t].state = "live" /\ token[t].expiry = "ahead"
  /\ token' = [token EXCEPT ![t].expiry = "past"]
  /\ UNCHANGED <<user, policy, locks, op>>

BeginRequest(r) ==
  BeginOwn(r) \/ BeginRegulate(r) \/ BeginUpdateUser(r) \/ BeginSignIn(r)
WriteRequest(r) ==
  \/ WriteCreate(r) \/ WriteUpdate(r) \/ WriteRotate(r) \/ WriteDelete(r)
  \/ WriteRegulate(r) \/ WriteUser(r) \/ WriteSignIn(r)
\* What the server does with a request it has begun.
AdvanceRequest(r) ==
  \/ LockUserRow(r) \/ LockTokenRow(r) \/ CountApps(r)
  \/ WriteRequest(r) \/ RejectRequest(r)

AccountsNext ==
  \/ \E r \in Requests : BeginRequest(r) \/ AdvanceRequest(r) \/ AbortRequest(r)
  \/ UpdatePolicy
  \/ \E t \in Tokens : Lapse(t)
-----------------------------------------------------------------------------
\* Properties.

\* A transaction waits for the holder of the row it asks for next.
RequestWaitsFor(r) ==
  CASE op[r].pc = "user" -> userLock[op[r].user]
    [] op[r].pc = "token" -> tokenLock[op[r].token]
    [] OTHER -> None

\* Once an administrator has revoked an application its row is final: no
\* owner request, resume or API call that was already waiting for the row
\* changes anything but its deletion (and the clock its expiry).
RevokedStands ==
  \A t \in Tokens :
    token[t].state = "live" /\ token[t].revoked =>
      \/ token'[t].state = "deleted"
      \/ [token'[t] EXCEPT !.expiry = token[t].expiry] = token[t]
RevokedIsFinal == [][RevokedStands]_token

\* A suspension is lifted by nothing but an administrator's resume: no update,
\* rotation or deletion of the owner ends it.
LiftedByAdmin ==
  \A t \in Tokens :
    token[t].state = "live" /\ token[t].suspended /\ ~token'[t].suspended =>
      \E r \in Requests : /\ op[r].kind = "regulate" /\ op[r].token = t
                          /\ op[r].pc = "write" /\ op'[r].pc = "done"
SuspensionStands == [][LiftedByAdmin]_<<token, op>>

\* What the administrator decided about an application stands, although requests
\* of its owner and calls may be waiting for the row with older copies of it.
RegulationStands == RevokedIsFinal /\ SuspensionStands

\* createToken never leaves an account with more applications than the policy
\* its request had read allows, however many requests create at once.
AppsWithinPolicy ==
  [][\A u \in Users :
       Cardinality(AppsOf(u)') > Cardinality(AppsOf(u)) =>
         \E r \in Requests : /\ op[r].user = u /\ op[r].pc = "write"
                             /\ Cardinality(AppsOf(u)') <= op[r].seen.maxApps]_<<token, op>>

\* An account that follows the platform default has the default limit in
\* force whenever no request is half done.
InheritFollowsDefault ==
  (\A r \in Requests : op[r].pc \in {"idle", "done"}) =>
    \A u \in Users : user[u].known /\ user[u].inherit => user[u].daily = policy.daily
=============================================================================
