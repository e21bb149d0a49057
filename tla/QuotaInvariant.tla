--------------------------- MODULE QuotaInvariant ---------------------------
(***************************************************************************)
(* The inductive invariant of module Quota, conjunct by conjunct.  It says *)
(* what a transaction knows at each of its places: what it carries, which  *)
(* rows it holds, and that what it read under a lock is still what the row *)
(* says.  The proofs are in QuotaProofs.                                   *)
(***************************************************************************)
EXTENDS Quota

TokenKinds == {"update", "rotate", "delete", "regulate"}

\* The two rows agree in every column but expires_at, which only time writes
\* without the lock.
SameRow(a, b) ==
  /\ a.state = b.state /\ a.owner = b.owner /\ a.key = b.key /\ a.grant = b.grant
  /\ a.enabled = b.enabled /\ a.suspended = b.suspended /\ a.revoked = b.revoked
  /\ a.daily = b.daily /\ a.quota = b.quota /\ a.used = b.used

\* What a request must carry to be where it is.
RequestShaped(o) ==
  o.pc \notin {"idle", "done"} =>
    /\ o.kind \in AllKinds
    /\ o.kind # "regulate" => o.user \in Users
    /\ o.kind \in TokenKinds => o.token \in Tokens
    /\ o.pc = "user" => o.kind # "regulate"
    /\ o.pc = "token" => o.kind \in TokenKinds
    /\ o.pc = "count" => o.kind = "create"
    /\ o.pc = "write" /\ o.kind \in TokenKinds => o.row \in TokenRow
RequestShape == \A r \in Requests : RequestShaped(op[r])

\* A request past a lock holds the row, and the row is as it read it.
RequestLocked(r) ==
  /\ op[r].pc \in {"token", "count", "write"} /\ op[r].kind # "regulate" =>
       userLock[op[r].user] = r
  /\ op[r].pc = "write" /\ op[r].kind \in TokenKinds =>
       /\ tokenLock[op[r].token] = r
       /\ op[r].row.state = "live"
       /\ SameRow(op[r].row, token[op[r].token])

\* A request that holds an application only has its write left; one that
\* holds an account waits at most for an application.
RequestHolds(r) ==
  /\ \A t \in Tokens : tokenLock[t] = r => op[r].pc = "write"
  /\ \A u \in Users : userLock[u] = r => op[r].pc \in {"token", "count", "write"}

\* Who has counted the applications of its account still finds room for one
\* more: nobody else creates one while it holds the account.
RoomLeft(r) ==
  op[r].pc = "write" /\ op[r].kind = "create" =>
    Cardinality(AppsOf(op[r].user)) < op[r].seen.maxApps

\* What a call must carry to be where it is.
CallShaped(k) ==
  /\ k.pc \in {"authed", "admit", "user", "token", "counted"} =>
       /\ k.endpoint \in Endpoints /\ k.user \in Users
       /\ k.token \in Tokens /\ k.grant \in Grants
       /\ k.ip \in k.grant.ips
  /\ k.pc \in {"user", "token", "counted"} => k.urow \in UserRow
  /\ k.pc \in {"token", "counted"} => k.trow \in TokenRow
  /\ k.pc = "counted" => k.day \in Days /\ k.elimit \in Limits
CallShape == \A c \in Calls : CallShaped(call[c])

\* A reservation past a lock holds the row, and the row is as it read it.
CallLocked(c) ==
  /\ call[c].pc \in {"user", "token", "counted"} =>
       /\ userLock[call[c].user] = c
       /\ call[c].urow = user[call[c].user]
  /\ call[c].pc \in {"token", "counted"} =>
       /\ tokenLock[call[c].token] = c
       /\ call[c].trow.state = "live"
       /\ SameRow(call[c].trow, token[call[c].token])

CallHolds(c) ==
  /\ \A t \in Tokens : tokenLock[t] = c => call[c].pc \in {"token", "counted"}
  /\ \A u \in Users : userLock[u] = c => call[c].pc \in {"user", "token", "counted"}

\* What the checks of reserve found still holds when it commits.
CountedStands(c) ==
  call[c].pc = "counted" =>
    LET k == call[c]
    IN  /\ k.urow.enabled /\ k.trow.enabled
        /\ ~k.trow.suspended /\ ~k.trow.revoked
        /\ k.trow.owner = k.user /\ k.trow.key = k.key /\ k.trow.grant = k.grant
        /\ ~Spent(c)
        /\ usage[UserBucket(k.user)][k.day] < k.urow.daily
        /\ usage[TokenBucket(k.token)][k.day] < k.trow.daily
        /\ usage[EndpointBucket(k.user, k.endpoint)][k.day] < k.elimit

\* A call that has not committed has no admitted row.
Uncharged(c) ==
  call[c].pc \in {"new", "authed", "admit", "user", "token", "counted"} =>
    \A x \in charges : x.call # c

RequestOK(r) == RequestLocked(r) /\ RequestHolds(r)
CallSafe(c)  == CallLocked(c) /\ CallHolds(c) /\ CountedStands(c) /\ Uncharged(c)

\* An id that has never been given out has nothing used.
FreshRows == \A t \in Tokens : token[t].state = "free" => token[t].used = 0

IInv ==
  /\ TypeOK /\ RequestShape /\ CallShape
  /\ \A r \in Requests : RequestOK(r)
  /\ \A c \in Calls : CallSafe(c)
  /\ IsFiniteSet(charges) /\ FreshRows
  /\ LedgerMatches /\ QuotaRespected
  /\ \A r \in Requests : RoomLeft(r)
=============================================================================
