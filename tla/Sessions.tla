------------------------------ MODULE Sessions ------------------------------
(***************************************************************************)
(* Browser sessions: sign-in, the check every console request passes, the  *)
(* refresh of tokens under a Redis lock, revocation of devices, logout,    *)
(* Keycloak's back-channel logout and the background retry                 *)
(* (campus/auth.go, campus/operations_sessions.go).                        *)
(*                                                                         *)
(* A session lives in three places: its Redis key holds the tokens, its    *)
(* device row in MySQL the grant, and Keycloak the provider session (sid)  *)
(* that several platform sessions of one browser share.  Handlers, logout  *)
(* deliveries and the worker take one Redis, MySQL or Keycloak call per    *)
(* step.                                                                   *)
(***************************************************************************)
EXTENDS Integers, FiniteSets

CONSTANTS
  Users,       \* accounts
  Sids,        \* provider sessions
  Owner,       \* the account of each provider session
  Sessions,    \* session ids, each given out once
  Handlers,    \* requests of browsers, each runs once
  Deliveries,  \* deliveries of back-channel logout tokens
  Worker,      \* the background retry
  None,
  Batch,       \* rows one retry reads (100 in the code)
  MaxKey,      \* bound: refresh tokens issued to a session
  MaxFaults    \* bound: failures, lost answers, crashes and expired locks

Actors == Handlers \cup Deliveries \cup {Worker}

VARIABLES
  sso,      \* Keycloak: the provider sessions that are alive
  key,      \* Keycloak: the refresh token each session may still use
  store,    \* Redis: the session keys
  index,    \* Redis: the session keys of each account
  lock,     \* Redis: the sessions with a refresh lock
  seen,     \* Redis: the logout tokens that were received, one for each sid
  device,   \* MySQL: platform_session_devices
  spared,   \* the revoked sessions whose key went, or will, without a logout at Keycloak:
            \* it expired, was replaced or could not be refreshed, or the code has it so
  faults,   \* failures so far
  at        \* the running handlers, deliveries and the worker

sessionVars == <<sso, key, store, index, lock, seen, device, spared, faults, at>>

Copy == [sid : Sids, rt : Nat, due : BOOLEAN]
Device == [user : Users, revoked : BOOLEAN]

ASSUME SessionsAssumption ==
  /\ Owner \in [Sids -> Users]
  /\ Worker \notin Handlers \cup Deliveries /\ Handlers \cap Deliveries = {}
  /\ None \notin Sessions \cup Sids \cup Copy \cup Device
  /\ Batch \in Nat \ {0} /\ MaxKey \in Nat /\ MaxFaults \in Nat

\* What an actor holds: its session as it read it, whether it owns the refresh
\* lock and whether the device was revoked before it began; for a revocation
\* the sessions to do, the current one and its sid.
ActorRow ==
  [pc : {"idle", "store", "index", "device", "replace", "undo", "check", "lock", "refresh", "save",
         "drop", "handle", "revoke", "fetch", "provider", "del", "unlock",
         "list", "scan", "mark", "clean", "leave", "done"},
   sess : Sessions \cup {None}, copy : Copy \cup {None},
   locked : BOOLEAN, late : BOOLEAN,
   todo : SUBSET Sessions, cur : Sessions \cup {None}, csid : Sids \cup {None},
   listed : SUBSET Sessions, ok : BOOLEAN]

Idle ==
  [pc |-> "idle", sess |-> None, copy |-> None, locked |-> FALSE, late |-> FALSE,
   todo |-> {}, cur |-> None, csid |-> None, listed |-> {}, ok |-> FALSE]

SessionsInit ==
  /\ sso = Sids
  /\ key = [s \in Sessions |-> 0]
  /\ store = [s \in Sessions |-> None]
  /\ index = [u \in Users |-> {}]
  /\ lock = {}
  /\ seen = {}
  /\ device = [s \in Sessions |-> None]
  /\ spared = {}
  /\ faults = 0
  /\ at = [x \in Actors |-> Idle]

\* One of the failures the instance allows.
Fault == faults < MaxFaults /\ faults' = faults + 1

\* The devices that are revoked.
Revoked == {s \in Sessions : device[s] # None /\ device[s].revoked}

\* Actor x holds row now.
Hold(x, row) == at' = [at EXCEPT ![x] = row]

\* Actor x goes on to pc; at the end it forgets what it held.
Go(x, pc) ==
  Hold(x, IF pc \in {"idle", "done"} THEN [Idle EXCEPT !.pc = pc] ELSE [at[x] EXCEPT !.pc = pc])

-----------------------------------------------------------------------------
\* callback.

\* Exchange of the code: a provider session that is alive, a fresh session id.
SignIn(x) ==
  \E s \in Sessions, p \in sso :
    /\ at[x].pc = "idle"
    /\ key[s] = 0
    /\ key' = [key EXCEPT ![s] = 1]
    /\ Hold(x, [Idle EXCEPT !.pc = "store", !.sess = s,
                                  !.copy = [sid |-> p, rt |-> 1, due |-> FALSE]])
    /\ UNCHANGED <<sso, store, index, lock, seen, device, spared, faults>>

StoreSession(x) ==
  /\ at[x].pc = "store"
  /\ store' = [store EXCEPT ![at[x].sess] = at[x].copy]
  /\ Go(x, "index")
  /\ UNCHANGED <<sso, key, index, lock, seen, device, spared, faults>>

IndexSession(x) ==
  /\ at[x].pc = "index"
  /\ index' = [index EXCEPT ![Owner[at[x].copy.sid]] = @ \cup {at[x].sess}]
  /\ Go(x, "device")
  /\ UNCHANGED <<sso, key, store, lock, seen, device, spared, faults>>

\* registerDevice.
RegisterDevice(x) ==
  /\ at[x].pc = "device"
  /\ device' = [device EXCEPT ![at[x].sess] =
                  [user |-> Owner[at[x].copy.sid], revoked |-> FALSE]]
  /\ Go(x, "replace")
  /\ UNCHANGED <<sso, key, store, index, lock, seen, spared, faults>>

\* The session the browser had before is dropped: if it had one, and unless
\* that fails, unnoticed.
ReplaceSession(x) ==
  \E old \in Sessions \cup {None} :
    /\ at[x].pc = "replace"
    /\ old # at[x].sess /\ (old # None => device[old] # None)
    /\ store' = [s \in Sessions |-> IF s = old THEN None ELSE store[s]]
    /\ spared' = spared \cup ({old} \cap Revoked)
    /\ Go(x, "done")
    /\ UNCHANGED <<sso, key, index, lock, seen, device, faults>>

\* Redis or MySQL fails, though what was asked may have been done.  Nothing is
\* taken back when the SET itself failed.
SignInFails(x) ==
  LET s == at[x].sess
      u == Owner[at[x].copy.sid]
  IN  /\ at[x].pc \in {"store", "index", "device"}
      /\ Fault
      /\ \/ at[x].pc = "store" /\ store' = [store EXCEPT ![s] = at[x].copy]
         \/ UNCHANGED store
      /\ \/ at[x].pc = "index" /\ index' = [index EXCEPT ![u] = @ \cup {s}]
         \/ UNCHANGED index
      /\ \/ at[x].pc = "device" /\ device' = [device EXCEPT ![s] = [user |-> u, revoked |-> FALSE]]
         \/ UNCHANGED device
      /\ Go(x, IF at[x].pc = "store" THEN "done" ELSE "undo")
      /\ UNCHANGED <<sso, key, lock, seen, spared>>

\* The key is taken back, which may fail too; no browser is given the session.
UndoSignIn(x) ==
  /\ at[x].pc = "undo"
  /\ \/ /\ store' = [store EXCEPT ![at[x].sess] = None]
        /\ spared' = spared \cup ({at[x].sess} \cap Revoked)
     \/ UNCHANGED <<store, spared>>
  /\ Go(x, "done")
  /\ UNCHANGED <<sso, key, index, lock, seen, device, faults>>

-----------------------------------------------------------------------------
\* sessionAuth.

\* Variant: the error of the read is not looked at.
ReadSession_Unchecked(x) ==
  \E s \in Sessions :
    /\ at[x].pc = "idle"
    /\ device[s] # None
    /\ Hold(x, [Idle EXCEPT !.pc = "check", !.sess = s, !.copy = store[s],
                             !.late = device[s].revoked])
    /\ UNCHANGED <<sso, key, store, index, lock, seen, device, spared, faults>>

\* The session is read once, here; all that follows uses this copy.  A browser
\* has the cookie only after its device was registered.
ReadSession(x) ==
  \E s \in Sessions :
    /\ at[x].pc = "idle"
    /\ device[s] # None /\ store[s] # None
    /\ Hold(x, [Idle EXCEPT !.pc = "check", !.sess = s, !.copy = store[s],
                             !.late = device[s].revoked])
    /\ UNCHANGED <<sso, key, store, index, lock, seen, device, spared, faults>>

\* registerDevice refuses a device that was revoked; RefreshAt comes next.
CheckDevice(x) ==
  /\ at[x].pc = "check"
  /\ Go(x, IF device[at[x].sess].revoked THEN "done"
           ELSE IF at[x].copy.due THEN "lock" ELSE "handle")
  /\ UNCHANGED <<sso, key, store, index, lock, seen, device, spared, faults>>

\* Variant: the answer of SETNX is not looked at.
LockRefresh_Always(x) ==
  /\ at[x].pc = "lock"
  /\ lock' = lock \cup {at[x].sess}
  /\ Hold(x, [at[x] EXCEPT !.pc = "refresh", !.locked = TRUE])
  /\ UNCHANGED <<sso, key, store, index, seen, device, spared, faults>>

\* SETNX; who does not get the lock answers 503.
LockRefresh(x) ==
  /\ at[x].pc = "lock"
  /\ IF at[x].sess \in lock
       THEN Go(x, "done") /\ UNCHANGED lock
       ELSE /\ lock' = lock \cup {at[x].sess}
            /\ Hold(x, [at[x] EXCEPT !.pc = "refresh", !.locked = TRUE])
  /\ UNCHANGED <<sso, key, store, index, seen, device, spared, faults>>

\* Keycloak rotates the token it is shown, or refuses one it has rotated.
Refresh(x) ==
  LET s == at[x].sess
      good == at[x].copy.sid \in sso /\ at[x].copy.rt = key[s]
  IN  /\ at[x].pc = "refresh"
      /\ good => key[s] < MaxKey
      /\ key' = IF good THEN [key EXCEPT ![s] = @ + 1] ELSE key
      /\ IF good THEN Hold(x, [at[x] EXCEPT !.pc = "save", !.copy = [at[x].copy EXCEPT !.rt = @ + 1]])
                 ELSE Go(x, "drop")
      /\ UNCHANGED <<sso, store, index, lock, seen, device, spared, faults>>

\* The answer of Keycloak is lost, with or without the rotation: an error.
RefreshLost(x) ==
  /\ at[x].pc = "refresh"
  /\ Fault
  /\ \/ UNCHANGED key
     \/ /\ at[x].copy.sid \in sso /\ at[x].copy.rt = key[at[x].sess]
        /\ key[at[x].sess] < MaxKey
        /\ key' = [key EXCEPT ![at[x].sess] = @ + 1]
  /\ Go(x, "drop")
  /\ UNCHANGED <<sso, store, index, lock, seen, device, spared>>

\* refreshSession deletes the session it could not refresh, unless that fails.
DropSession(x) ==
  /\ at[x].pc = "drop"
  /\ \/ /\ store' = [store EXCEPT ![at[x].sess] = None]
        /\ spared' = spared \cup ({at[x].sess} \cap Revoked)
        /\ UNCHANGED faults
     \/ Fault /\ UNCHANGED <<store, spared>>
  /\ Go(x, "unlock")
  /\ UNCHANGED <<sso, key, index, lock, seen, device>>

\* Variant: SET instead of SET XX.
Save_Always(x) ==
  /\ at[x].pc = "save"
  /\ store' = [store EXCEPT ![at[x].sess] = [at[x].copy EXCEPT !.due = FALSE]]
  /\ Go(x, "handle")
  /\ UNCHANGED <<sso, key, index, lock, seen, device, spared, faults>>

\* SET XX: only a key that is still there takes the new tokens.
Save(x) ==
  LET s == at[x].sess
  IN  /\ at[x].pc = "save"
      /\ IF store[s] # None
           THEN /\ store' = [store EXCEPT ![s] = [at[x].copy EXCEPT !.due = FALSE]]
                /\ Go(x, "handle")
           ELSE UNCHANGED store /\ Go(x, "unlock")
      /\ UNCHANGED <<sso, key, index, lock, seen, device, spared, faults>>

\* The role cannot be written or Redis fails: the new tokens are lost.
SaveFails(x) ==
  /\ at[x].pc = "save"
  /\ Fault
  /\ Go(x, "unlock")
  /\ UNCHANGED <<sso, key, store, index, lock, seen, device, spared>>

\* The deferred DEL of the lock, after the request's own handler; it does not
\* ask whose lock it is, and it may fail.
Unlock(x) ==
  /\ at[x].pc = "unlock"
  /\ \/ lock' = (IF at[x].locked THEN lock \ {at[x].sess} ELSE lock) /\ UNCHANGED faults
     \/ at[x].locked /\ Fault /\ UNCHANGED lock
  /\ Go(x, "done")
  /\ UNCHANGED <<sso, key, store, index, seen, device, spared>>

-----------------------------------------------------------------------------
\* The handlers behind sessionAuth, and revokeDevice.

DevicesOf(u) == {s \in Sessions : device[s] # None /\ device[s].user = u}

\* revokeSession of one device, revokeOtherSessions, or any other request.
Handle(x) ==
  LET mine == at[x].sess
      all  == DevicesOf(Owner[at[x].copy.sid])
  IN  /\ at[x].pc = "handle"
      /\ \/ Go(x, "unlock")
         \/ \E t \in all : Hold(x, [at[x] EXCEPT !.pc = "revoke", !.todo = {t}])
         \/ Hold(x, [at[x] EXCEPT !.pc = "revoke",
                                   !.todo = {s \in all : s # mine /\ ~device[s].revoked}])
      /\ UNCHANGED <<sso, key, store, index, lock, seen, device, spared, faults>>

\* logout: the device row, then the key; Keycloak is left to the browser.
Logout(x) ==
  LET s == at[x].sess
  IN  /\ at[x].pc = "handle"
      /\ device' = [device EXCEPT ![s].revoked = TRUE]
      /\ Hold(x, [at[x] EXCEPT !.pc = "del", !.cur = s])
      /\ spared' = spared \cup {s}
      /\ UNCHANGED <<sso, key, store, index, lock, seen, faults>>

\* The end of a revocation, of a request or of the worker.
Finished(x) == IF x = Worker THEN "idle" ELSE "unlock"

\* revokeDevice first writes the row.
RevokeRow(x) ==
  /\ at[x].pc = "revoke"
  /\ IF at[x].todo = {}
       THEN Go(x, Finished(x)) /\ UNCHANGED device
       ELSE \E t \in at[x].todo :
              /\ device' = [device EXCEPT ![t].revoked = TRUE]
              /\ Hold(x, [at[x] EXCEPT !.pc = "fetch", !.cur = t, !.todo = @ \ {t}])
  /\ UNCHANGED <<sso, key, store, index, lock, seen, spared, faults>>

\* The session is read; its provider session is spared when the request that
\* asks belongs to it.  The worker belongs to none.
FetchTokens(x) ==
  LET t == at[x].cur
      same == x # Worker /\ t # at[x].sess /\ store[t].sid = at[x].copy.sid
  IN  /\ at[x].pc = "fetch"
      /\ IF store[t] = None THEN Go(x, "revoke")
         ELSE Hold(x, [at[x] EXCEPT !.pc = IF same THEN "del" ELSE "provider",
                                    !.csid = store[t].sid])
      /\ spared' = IF store[t] # None /\ same THEN spared \cup {t} ELSE spared
      /\ UNCHANGED <<sso, key, store, index, lock, seen, device, faults>>

\* logoutProvider with the refresh token that was read.
LogoutProvider(x) ==
  /\ at[x].pc = "provider"
  /\ sso' = sso \ {at[x].csid}
  /\ Go(x, "del")
  /\ UNCHANGED <<key, store, index, lock, seen, device, spared, faults>>

\* Variant: the key is deleted all the same.
LogoutProviderFails_Deletes(x) ==
  /\ at[x].pc = "provider"
  /\ Fault
  /\ Go(x, "del")
  /\ UNCHANGED <<sso, key, store, index, lock, seen, device, spared>>

\* Keycloak does not answer 2xx: the key is kept for the background retry.
LogoutProviderFails(x) ==
  /\ at[x].pc = "provider"
  /\ Fault
  /\ Go(x, "revoke")
  /\ UNCHANGED <<sso, key, store, index, lock, seen, device, spared>>

DeleteKey(x) ==
  /\ at[x].pc = "del"
  /\ store' = [store EXCEPT ![at[x].cur] = None]
  /\ Go(x, "revoke")
  /\ UNCHANGED <<sso, key, index, lock, seen, device, spared, faults>>

\* MySQL or Redis fails: a request answers 503, the worker goes to the next.
RevokeFails(x) ==
  /\ at[x].pc \in {"revoke", "fetch", "del"}
  /\ Fault
  /\ Go(x, IF x = Worker THEN "revoke" ELSE "unlock")
  /\ UNCHANGED <<sso, key, store, index, lock, seen, device, spared>>

\* retryRevokedSessions: at most Batch rows, in no order.
ListRevoked ==
  \E rows \in SUBSET Revoked :
    /\ at[Worker].pc = "idle"
    /\ rows # {} /\ Cardinality(rows) <= Batch
    /\ rows # Revoked => Cardinality(rows) = Batch
    /\ Hold(Worker, [Idle EXCEPT !.pc = "revoke", !.todo = rows])
    /\ UNCHANGED <<sso, key, store, index, lock, seen, device, spared, faults>>

-----------------------------------------------------------------------------
\* backchannelLogout.

\* A logout token of a provider session that ended; csid is its sid (a token
\* without one is left out).  Who is not the first answers 200 at once; what
\* was not done may be delivered again.
ReceiveLogout(x) ==
  \E p \in Sids \ sso :
    /\ at[x].pc = "idle" \/ (at[x].pc = "done" /\ ~at[x].ok)
    /\ seen' = seen \cup {p}
    /\ Hold(x, [Idle EXCEPT !.csid = p, !.pc = IF p \in seen THEN "done" ELSE "list"])
    /\ UNCHANGED <<sso, key, store, index, lock, device, spared, faults>>

ListSessions(x) ==
  LET all == index[Owner[at[x].csid]]
  IN  /\ at[x].pc = "list"
      /\ Hold(x, [at[x] EXCEPT !.pc = "scan", !.todo = all, !.listed = all])
      /\ UNCHANGED <<sso, key, store, index, lock, seen, device, spared, faults>>

\* One member of the index is read.
ScanSession(x) ==
  /\ at[x].pc = "scan"
  /\ IF at[x].todo = {}
       THEN Hold(x, [at[x] EXCEPT !.pc = "done", !.ok = TRUE])
       ELSE \E s \in at[x].todo :
              LET meant == store[s] # None /\ store[s].sid = at[x].csid
              IN  Hold(x, [at[x] EXCEPT !.todo = @ \ {s}, !.cur = s,
                                         !.pc = IF meant THEN "mark" ELSE "scan"])
  /\ UNCHANGED <<sso, key, store, index, lock, seen, device, spared, faults>>

\* The sid is meant: its device row is revoked, if there is one, ...
MarkDevice(x) ==
  /\ at[x].pc = "mark"
  /\ device' = IF device[at[x].cur] = None THEN device
               ELSE [device EXCEPT ![at[x].cur].revoked = TRUE]
  /\ Go(x, "clean")
  /\ UNCHANGED <<sso, key, store, index, lock, seen, spared, faults>>

\* ... its key is deleted ...
CleanSession(x) ==
  /\ at[x].pc = "clean"
  /\ store' = [store EXCEPT ![at[x].cur] = None]
  /\ Go(x, "leave")
  /\ UNCHANGED <<sso, key, index, lock, seen, device, spared, faults>>

\* ... and taken out of the index, which may fail unnoticed.
LeaveIndex(x) ==
  /\ at[x].pc = "leave"
  /\ \/ index' = [index EXCEPT ![Owner[at[x].csid]] = @ \ {at[x].cur}] /\ UNCHANGED faults
     \/ Fault /\ UNCHANGED index
  /\ Go(x, "scan")
  /\ UNCHANGED <<sso, key, store, lock, seen, device, spared>>

\* Variant: an error on one session is skipped.
LogoutFails_Continues(x) ==
  /\ at[x].pc \in {"list", "scan", "mark", "clean", "leave"}
  /\ Fault
  /\ Go(x, "scan")
  /\ UNCHANGED <<sso, key, store, index, lock, seen, device, spared>>

\* MySQL or Redis fails and the token is forgotten, or the replica ends and it
\* is not.
LogoutFails(x) ==
  /\ at[x].pc \in {"list", "scan", "mark", "clean", "leave"}
  /\ Fault
  /\ seen' \in {seen, seen \ {at[x].csid}}
  /\ Go(x, "done")
  /\ UNCHANGED <<sso, key, store, index, lock, device, spared>>

-----------------------------------------------------------------------------
\* Time and the outside world.

\* Four minutes after the last refresh.
Due(s) ==
  /\ store[s] # None /\ ~store[s].due
  /\ key[s] < MaxKey
  /\ store' = [store EXCEPT ![s].due = TRUE]
  /\ UNCHANGED <<sso, key, index, lock, seen, device, spared, faults, at>>

\* Thirty minutes without a request, or eight hours.
Expire(s) ==
  /\ store[s] # None
  /\ store' = [store EXCEPT ![s] = None]
  /\ spared' = spared \cup ({s} \cap Revoked)
  /\ UNCHANGED <<sso, key, index, lock, seen, device, faults, at>>

\* The refresh lock ends after 30 s although its holder is still waiting.
LockExpires(s) ==
  /\ s \in lock
  /\ Fault
  /\ lock' = lock \ {s}
  /\ UNCHANGED <<sso, key, store, index, seen, device, spared, at>>

\* The user logs out at Keycloak, or Keycloak ends the session.
ProviderEnds(p) ==
  /\ p \in sso
  /\ sso' = sso \ {p}
  /\ UNCHANGED <<key, store, index, lock, seen, device, spared, faults, at>>

\* The replica of a request or of the worker ends.
Crash(x) ==
  /\ at[x].pc \notin {"idle", "done"}
  /\ Fault
  /\ Go(x, IF x = Worker THEN "idle" ELSE "done")
  /\ UNCHANGED <<sso, key, store, index, lock, seen, device, spared>>

SignInStep(x) ==
  \/ SignIn(x) \/ StoreSession(x) \/ IndexSession(x) \/ RegisterDevice(x) \/ ReplaceSession(x)
  \/ SignInFails(x) \/ UndoSignIn(x)
RefreshStep(x) ==
  \/ LockRefresh(x) \/ Refresh(x) \/ RefreshLost(x) \/ DropSession(x)
  \/ Save(x) \/ SaveFails(x)
RequestStep(x) ==
  \/ ReadSession(x) \/ CheckDevice(x) \/ RefreshStep(x)
  \/ Handle(x) \/ Logout(x) \/ Unlock(x)
RevokeStep(x) ==
  \/ RevokeRow(x) \/ FetchTokens(x) \/ LogoutProvider(x) \/ DeleteKey(x)
  \/ LogoutProviderFails(x) \/ RevokeFails(x)
DeliveryStep(x) ==
  \/ ReceiveLogout(x) \/ ListSessions(x) \/ ScanSession(x) \/ MarkDevice(x)
  \/ CleanSession(x) \/ LeaveIndex(x) \/ LogoutFails(x)

SessionsNext ==
  \/ \E x \in Handlers : SignInStep(x) \/ RequestStep(x) \/ RevokeStep(x) \/ Crash(x)
  \/ ListRevoked \/ RevokeStep(Worker) \/ Crash(Worker)
  \/ \E x \in Deliveries : DeliveryStep(x)
  \/ \E s \in Sessions : Due(s) \/ Expire(s) \/ LockExpires(s)
  \/ \E p \in Sids : ProviderEnds(p)

SessionsSpec == SessionsInit /\ [][SessionsNext]_sessionVars

\* The worker's ticker starts it again, and it goes on to the end.
WorkerStep ==
  \/ ListRevoked \/ RevokeRow(Worker) \/ FetchTokens(Worker)
  \/ LogoutProvider(Worker) \/ DeleteKey(Worker)
SessionsFairSpec == SessionsSpec /\ WF_sessionVars(WorkerStep)
-----------------------------------------------------------------------------
\* Properties.

Running(x) == at[x].pc \notin {"idle", "done"}

SessionsTypeOK ==
  /\ sso \subseteq Sids
  /\ key \in [Sessions -> Nat]
  /\ store \in [Sessions -> Copy \cup {None}]
  /\ index \in [Users -> SUBSET Sessions]
  /\ lock \subseteq Sessions /\ seen \subseteq Sids
  /\ device \in [Sessions -> Device \cup {None}]
  /\ spared \subseteq Sessions
  /\ faults \in Nat
  /\ at \in [Actors -> ActorRow]
  /\ \A x \in Handlers : Running(x) => at[x].sess \in Sessions /\ at[x].copy \in Copy
  /\ \A x \in Actors : at[x].pc \in {"fetch", "provider", "del", "mark", "clean", "leave"} => at[x].cur \in Sessions
  /\ \A x \in Actors : at[x].pc \in {"provider", "list", "scan", "mark", "clean", "leave"} => at[x].csid \in Sids

\* A request that begins after its device was revoked never gets past the
\* device check: not to a refresh, not to its handler, whatever refresh or
\* sign-in was in flight when the device was revoked.
RevokedIsRefused ==
  \A x \in Handlers : at[x].late => at[x].pc = "check"

\* A session key that is gone stays gone: only the sign-in that made up the
\* id ever creates it, no refresh in flight brings it back.
OnlySignInCreates ==
  [][\A s \in Sessions : store[s] = None /\ store'[s] # None =>
       \E x \in Handlers : at[x].pc = "store" /\ at[x].sess = s]_sessionVars

\* A back-channel logout that did its work and answered 200 leaves none of the
\* sessions it found with their tokens, then or later.
CompletedLogoutCleans ==
  \A x \in Deliveries : at[x].ok =>
    \A s \in at[x].listed : store[s] = None \/ store[s].sid # at[x].csid

\* The refresh lock does its work: each lock that expires under its holder, or
\* is left behind, lets at most one more request refresh the same session,
\* although a late holder deletes the lock of its successor.
RefreshExclusive ==
  \A s \in Sessions :
    Cardinality({x \in Handlers : at[x].sess = s /\ at[x].pc \in {"refresh", "save", "drop"}})
      <= 1 + faults

\* Who holds the refresh lock refreshes with the tokens that are stored, not
\* with those of an earlier refresh.
RotationSerialized ==
  \A x \in Handlers : at[x].pc = "refresh" /\ store[at[x].sess] # None =>
    at[x].copy.rt = store[at[x].sess].rt

\* While a request revokes another device of its own provider session, the
\* background retry leaves that provider session alone, as the request does.
CurrentSsoKept ==
  \A x \in Handlers :
    /\ at[x].pc \in {"fetch", "provider", "del"} /\ at[x].cur # at[x].sess
    /\ at[Worker].pc = "provider" /\ at[Worker].cur = at[x].cur
    => at[Worker].csid # at[x].copy.sid

\* A revoked device loses its tokens in the end, and its provider session ends
\* before them: what failed is tried again with the key that was kept.  Not so
\* where the key went in another way, or the code spares the provider session.
Cleared(s, p) ==
  s \in Revoked /\ store[s] # None /\ store[s].sid = p
    ~> store[s] = None /\ (p \notin sso \/ s \in spared)
=============================================================================
