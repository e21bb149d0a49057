--------------------------- MODULE SessionsProofs ---------------------------
(***************************************************************************)
(* Type correctness, "a revoked device stays out", "a session that is gone *)
(* stays gone", "a completed logout leaves nothing" and "a session is      *)
(* refreshed by few" of module Sessions, for every number of accounts,     *)
(* provider sessions, sessions, requests, deliveries and failures.         *)
(***************************************************************************)
EXTENDS Sessions, FiniteSetTheorems, TLAPS

USE SessionsAssumption DEF Actors

-----------------------------------------------------------------------------
\* The invariant.

\* Each kind of actor keeps to its own steps.
Roles ==
  /\ \A x \in Handlers : at[x].pc \notin {"list", "scan", "mark", "clean", "leave"}
  /\ \A x \in Deliveries : at[x].pc \in {"idle", "list", "scan", "mark", "clean", "leave", "done"}
  /\ at[Worker].pc \in {"idle", "revoke", "fetch", "provider", "del"}

SignsIn(x) == at[x].pc \in {"store", "index", "device"}

\* It has a session whose device is registered.
InSession(x) == Running(x) /\ ~SignsIn(x) /\ at[x].pc # "undo"

\* A session that nobody signed in is nowhere.
Unused ==
  \A s \in Sessions : key[s] = 0 =>
    /\ store[s] = None /\ device[s] = None
    /\ \A u \in Users : s \notin index[u]
    /\ \A x \in Handlers : Running(x) => at[x].sess # s
    /\ \A x \in Deliveries : s \notin at[x].listed

\* A session being signed in belongs to that request alone.
OwnSignIn ==
  \A x \in Handlers : SignsIn(x) =>
    /\ device[at[x].sess] = None
    /\ \A y \in Handlers : y # x /\ Running(y) => at[y].sess # at[x].sess

\* Before it is stored nobody else has seen its id.
OwnStore ==
  \A x \in Handlers : at[x].pc = "store" =>
    /\ store[at[x].sess] = None
    /\ \A u \in Users : at[x].sess \notin index[u]
    /\ \A d \in Deliveries : at[x].sess \notin at[d].listed

\* Who works on a device works on one that is registered.
Registered ==
  /\ \A x \in Handlers : InSession(x) => device[at[x].sess] # None
  /\ \A x \in Handlers \cup {Worker} : \A t \in at[x].todo : device[t] # None

\* A session never changes its provider session.
SameSid ==
  \A x \in Handlers :
    Running(x) /\ store[at[x].sess] # None => store[at[x].sess].sid = at[x].copy.sid

\* A request that came late still finds its device revoked.
StillRevoked ==
  \A x \in Handlers : at[x].late => at[x].pc = "check" /\ device[at[x].sess].revoked

\* What a delivery has been through is clean.
Gone(x, s) == store[s] = None \/ store[s].sid # at[x].csid
CleanedBy(x) ==
  /\ at[x].pc \in {"scan", "leave"} => \A s \in at[x].listed \ at[x].todo : Gone(x, s)
  /\ at[x].pc \in {"mark", "clean"} => \A s \in at[x].listed \ (at[x].todo \cup {at[x].cur}) : Gone(x, s)
  /\ at[x].ok => at[x].pc = "done" /\ \A s \in at[x].listed : Gone(x, s)
Cleaned == \A x \in Deliveries : CleanedBy(x)

SessionsInv ==
  /\ SessionsTypeOK /\ Roles /\ Unused /\ OwnSignIn /\ OwnStore
  /\ Registered /\ SameSid /\ StillRevoked /\ Cleaned

\* The initial state satisfies the invariant.
LEMMA SessionsInitInv == SessionsInit => SessionsInv
<1> SUFFICES ASSUME SessionsInit PROVE SessionsInv
  OBVIOUS
<1>1. Idle \in ActorRow
  BY DEF Idle, ActorRow
<1>2. \A x \in Actors : at[x] = Idle
  BY DEF SessionsInit
<1>3. SessionsTypeOK
  BY <1>1, <1>2 DEF SessionsInit, SessionsTypeOK, Running, Idle
<1> QED
  BY <1>2, <1>3 DEF SessionsInit, SessionsInv, Roles, Unused, OwnSignIn, OwnStore,
     Registered, SameSid, StillRevoked, Cleaned, CleanedBy, Running, SignsIn, InSession, Idle

-----------------------------------------------------------------------------
\* Quiet steps: keys of sessions are refreshed in place or deleted, devices
\* revoked, the index shrinks.  Nearly every action is one.

QuietKey == key' \in [Sessions -> Nat] /\ \A s \in Sessions : (key'[s] = 0) <=> (key[s] = 0)
QuietStore ==
  /\ store' \in [Sessions -> Copy \cup {None}]
  /\ \A s \in Sessions : store'[s] # None => store[s] # None /\ store'[s].sid = store[s].sid
QuietDevice ==
  /\ device' \in [Sessions -> Device \cup {None}]
  /\ \A s \in Sessions : \/ device'[s] = device[s]
                         \/ device[s] # None /\ device'[s] # None /\ device'[s].revoked
QuietIndex ==
  index' \in [Users -> SUBSET Sessions] /\ \A u \in Users : index'[u] \subseteq index[u]
QuietRest ==
  /\ sso' \subseteq Sids /\ lock' \subseteq Sessions /\ seen' \subseteq Sids
  /\ spared' \subseteq Sessions /\ faults' \in Nat

Quiet == QuietKey /\ QuietStore /\ QuietDevice /\ QuietIndex /\ QuietRest

Only(x) == \A y \in Actors : y # x => at'[y] = at[y]

\* What a row needs to be well typed where it is.
RowOK(x) ==
  /\ at \in [Actors -> ActorRow]
  /\ x \in Handlers /\ Running(x) => at[x].sess \in Sessions /\ at[x].copy \in Copy
  /\ at[x].pc \in {"fetch", "provider", "del", "mark", "clean", "leave"} => at[x].cur \in Sessions
  /\ at[x].pc \in {"provider", "list", "scan", "mark", "clean", "leave"} => at[x].csid \in Sids
  /\ x \in Handlers => ~at[x].late

\* A request goes on with its session, or ends.
GoesOn(x) ==
  /\ Only(x) /\ RowOK(x)'
  /\ \/ at'[x].pc = "done" /\ at'[x].todo = {}
     \/ /\ InSession(x)
        /\ at'[x].pc \notin {"idle", "store", "index", "device", "undo", "list", "scan", "mark", "clean",
                              "leave"}
        /\ at'[x].sess = at[x].sess /\ at'[x].copy.sid = at[x].copy.sid
        /\ \A t \in at'[x].todo : device[t] # None

\* A quiet step of nobody keeps the invariant.
LEMMA QuietKeeps == ASSUME SessionsInv, Quiet, at' = at PROVE SessionsInv'
<1> USE DEF SessionsInv, Quiet, QuietKey, QuietStore, QuietDevice, QuietIndex, QuietRest
<1>1. SessionsTypeOK'
  BY DEF SessionsTypeOK, Running
<1>2. Roles' /\ OwnSignIn' /\ OwnStore'
  BY DEF SessionsTypeOK, Roles, OwnSignIn, OwnStore, Running, SignsIn, InSession, ActorRow
<1>6. Registered'
  BY DEF SessionsTypeOK, Registered, Running, SignsIn, InSession, ActorRow
<1>3. Unused'
  BY DEF SessionsTypeOK, Unused, Running, ActorRow
<1>4. SameSid' /\ StillRevoked'
  BY DEF SessionsTypeOK, SameSid, StillRevoked, Running, ActorRow
<1>5. Cleaned'
  BY DEF SessionsTypeOK, Cleaned, CleanedBy, Gone, ActorRow
<1> QED
  BY <1>1, <1>2, <1>3, <1>4, <1>5, <1>6

\* Nor does a quiet step with which a request goes on.
LEMMA HandlerKeeps ==
  ASSUME SessionsInv, Quiet, NEW x \in Handlers, GoesOn(x) PROVE SessionsInv'
<1> USE DEF SessionsInv, Quiet, QuietKey, QuietStore, QuietDevice, QuietIndex, QuietRest, GoesOn, Only
<1>1. SessionsTypeOK'
  BY DEF SessionsTypeOK, RowOK, Running
<1>2. Roles'
  BY DEF Roles
<1>3. OwnSignIn' /\ OwnStore'
  <2>1. \A y \in Handlers : SignsIn(y)' => SignsIn(y) /\ at'[y] = at[y]
    BY DEF SignsIn
  <2>2. OwnSignIn'
    BY <2>1 DEF SessionsTypeOK, OwnSignIn, Running, SignsIn, InSession, ActorRow
  <2>3. OwnStore'
    BY <2>1 DEF SessionsTypeOK, OwnStore, Running, SignsIn, InSession, ActorRow
  <2> QED
    BY <2>2, <2>3
<1>4. Registered'
  <2>1. \A y \in Handlers : InSession(y)' => device'[at'[y].sess] # None
    BY DEF SessionsTypeOK, Registered, Running, SignsIn, InSession, ActorRow
  <2>2. \A y \in Handlers \cup {Worker} : at'[y].todo \subseteq Sessions
    BY DEF RowOK, ActorRow
  <2>3. \A y \in Handlers \cup {Worker} : \A s \in at'[y].todo : device[s] # None
    BY DEF Registered
  <2> QED
    BY <2>1, <2>2, <2>3 DEF Registered
<1>5. Unused'
  BY DEF SessionsTypeOK, Unused, InSession, Running, ActorRow
<1>6. SameSid'
  BY DEF SessionsTypeOK, SameSid, InSession, Running, ActorRow
<1>7. StillRevoked'
  BY DEF SessionsTypeOK, RowOK, StillRevoked, Running, ActorRow
<1>8. Cleaned'
  BY DEF SessionsTypeOK, Cleaned, CleanedBy, Gone, ActorRow
<1> QED
  BY <1>1, <1>2, <1>3, <1>4, <1>5, <1>6, <1>7, <1>8

\* The worker takes up, goes on with or ends its list of devices.
WorkerGoesOn ==
  /\ Only(Worker) /\ RowOK(Worker)'
  /\ at'[Worker].pc \in {"idle", "revoke", "fetch", "provider", "del"}
  /\ \A t \in at'[Worker].todo : device[t] # None

\* Nor does a quiet step of the worker.
LEMMA WorkerKeeps == ASSUME SessionsInv, Quiet, WorkerGoesOn PROVE SessionsInv'
<1> USE DEF SessionsInv, Quiet, QuietKey, QuietStore, QuietDevice, QuietIndex, QuietRest,
            WorkerGoesOn, Only
<1>1. SessionsTypeOK'
  BY DEF SessionsTypeOK, RowOK, Running
<1>2. Roles' /\ OwnSignIn' /\ OwnStore'
  BY DEF SessionsTypeOK, Roles, OwnSignIn, OwnStore, Running, SignsIn, InSession, ActorRow
<1>3. Registered'
  <2>1. \A y \in Handlers : InSession(y)' => device'[at'[y].sess] # None
    BY DEF SessionsTypeOK, Registered, Running, SignsIn, InSession, ActorRow
  <2>2. \A y \in Handlers \cup {Worker} : at'[y].todo \subseteq Sessions
    BY DEF RowOK, ActorRow
  <2>3. \A y \in Handlers \cup {Worker} : \A s \in at'[y].todo : device[s] # None
    BY DEF Registered
  <2> QED
    BY <2>1, <2>2, <2>3 DEF Registered
<1>4. Unused'
  BY DEF SessionsTypeOK, Unused, Running, ActorRow
<1>5. SameSid' /\ StillRevoked'
  BY DEF SessionsTypeOK, SameSid, StillRevoked, Running, ActorRow
<1>6. Cleaned'
  BY DEF SessionsTypeOK, Cleaned, CleanedBy, Gone, ActorRow
<1> QED
  BY <1>1, <1>2, <1>3, <1>4, <1>5, <1>6

\* A delivery goes through sessions that were stored and indexed.
Delivers(x) ==
  /\ Only(x) /\ RowOK(x)'
  /\ at'[x].pc \in {"idle", "list", "scan", "mark", "clean", "leave", "done"}
  /\ \A s \in at'[x].listed :
       key[s] # 0 /\ \A y \in Handlers : at[y].pc = "store" => at[y].sess # s
  /\ CleanedBy(x)'

\* Nor does a quiet step of a back-channel delivery.
LEMMA DeliveryKeeps ==
  ASSUME SessionsInv, Quiet, NEW x \in Deliveries, Delivers(x) PROVE SessionsInv'
<1> USE DEF SessionsInv, Quiet, QuietKey, QuietStore, QuietDevice, QuietIndex, QuietRest,
            Delivers, Only
<1>1. SessionsTypeOK'
  BY DEF SessionsTypeOK, RowOK, Running
<1>2. Roles'
  BY DEF Roles
<1>3. OwnSignIn' /\ OwnStore'
  <2>1. \A y \in Handlers : SignsIn(y)' => SignsIn(y) /\ at'[y] = at[y]
    BY DEF SignsIn
  <2>2. OwnSignIn'
    BY <2>1 DEF SessionsTypeOK, OwnSignIn, Running, SignsIn, InSession, ActorRow
  <2>3. OwnStore'
    BY <2>1 DEF SessionsTypeOK, OwnStore, Running, SignsIn, InSession, ActorRow
  <2> QED
    BY <2>2, <2>3
<1>4. Registered'
  <2>1. \A y \in Handlers \cup {Worker} : at'[y] = at[y]
    OBVIOUS
  <2> QED
    BY <2>1 DEF SessionsTypeOK, Registered, Running, SignsIn, InSession, ActorRow
<1>5. Unused'
  BY DEF SessionsTypeOK, Unused, Running, RowOK, ActorRow
<1>6. SameSid' /\ StillRevoked'
  BY DEF SessionsTypeOK, SameSid, StillRevoked, Running, ActorRow
<1>7. Cleaned'
  BY DEF SessionsTypeOK, Cleaned, CleanedBy, Gone, ActorRow
<1> QED
  BY <1>1, <1>2, <1>3, <1>4, <1>5, <1>6, <1>7

-----------------------------------------------------------------------------
\* The steps of a request that has read its session.

\* What a request that has its session knows of it.
LEMMA HasSession ==
  ASSUME SessionsInv, NEW x \in Handlers, InSession(x)
  PROVE  /\ at[x] \in ActorRow /\ at[x].sess \in Sessions /\ at[x].copy \in Copy
         /\ key[at[x].sess] \in Nat \ {0} /\ device[at[x].sess] # None
         /\ device[at[x].sess] \in Device
         /\ at[x].late => at[x].pc = "check" /\ device[at[x].sess].revoked
         /\ \A t \in at[x].todo : device[t] # None
  BY DEF SessionsInv, SessionsTypeOK, Unused, Registered, StillRevoked, InSession, SignsIn

\* A request that ends forgets what it held.
LEMMA DoneGoesOn ==
  ASSUME SessionsInv, NEW x \in Handlers, Go(x, "done") PROVE GoesOn(x)
  BY DEF SessionsInv, SessionsTypeOK, Go, Hold, GoesOn, Only, RowOK, Running, Idle, ActorRow

Places == {"lock", "refresh", "save", "drop", "handle", "revoke", "unlock"}

\* A request that goes to a place that asks no more of it.
LEMMA PlaceGoesOn ==
  ASSUME SessionsInv, NEW x \in Handlers, InSession(x), ~at[x].late,
         NEW p \in Places, Go(x, p)
  PROVE  GoesOn(x)
  BY HasSession DEF SessionsInv, SessionsTypeOK, Go, Hold, GoesOn, Only, RowOK, Running, SignsIn, InSession,
     Places, ActorRow

\* A request that goes on with a new row.
LEMMA HoldGoesOn ==
  ASSUME SessionsInv, NEW x \in Handlers, InSession(x), NEW row \in ActorRow,
         Hold(x, row), ~row.late,
         row.pc \in Places \cup {"fetch", "provider", "del"},
         row.sess = at[x].sess, row.copy \in Copy, row.copy.sid = at[x].copy.sid,
         row.pc \in {"fetch", "provider", "del"} => row.cur \in Sessions,
         row.pc = "provider" => row.csid \in Sids,
         \A t \in row.todo : device[t] # None
  PROVE  GoesOn(x)
<1>1. at' \in [Actors -> ActorRow] /\ at'[x] = row /\ Only(x)
  BY DEF SessionsInv, SessionsTypeOK, Hold, Only
<1>2. at[x].sess \in Sessions
  BY HasSession
<1> QED
  BY <1>1, <1>2 DEF GoesOn, RowOK, Running, Places

\* sessionAuth and refreshSession.
LEMMA RefreshKeeps ==
  ASSUME SessionsInv, NEW x \in Handlers, CheckDevice(x) \/ RefreshStep(x) \/ Unlock(x)
  PROVE  SessionsInv'
<1> DEFINE s == at[x].sess
<1>1. SessionsTypeOK
  BY DEF SessionsInv
<1>2. InSession(x)
  BY DEF CheckDevice, RefreshStep, LockRefresh, Refresh, RefreshLost, DropSession, Save,
     SaveFails, Unlock, Running, SignsIn, InSession
<1>3. /\ at[x] \in ActorRow /\ s \in Sessions /\ at[x].copy \in Copy
      /\ key[s] \in Nat \ {0} /\ device[s] # None
      /\ at[x].late => at[x].pc = "check" /\ device[s].revoked
      /\ \A t \in at[x].todo : device[t] # None
  BY <1>2, HasSession
<1> HIDE DEF s
<1>4. CASE CheckDevice(x)
  <2>1. Quiet
    BY <1>1, <1>4 DEF CheckDevice, SessionsTypeOK, Quiet, QuietKey, QuietStore, QuietDevice,
       QuietIndex, QuietRest
  <2>2. CASE device[s].revoked
    BY <1>4, <2>1, <2>2, DoneGoesOn, HandlerKeeps DEF CheckDevice, s
  <2>3. CASE ~device[s].revoked
    BY <1>2, <1>3, <1>4, <2>1, <2>3, PlaceGoesOn, HandlerKeeps DEF CheckDevice, Places, s
  <2> QED
    BY <2>2, <2>3
<1>5. CASE LockRefresh(x)
  <2>1. Quiet
    BY <1>1, <1>3, <1>5 DEF LockRefresh, SessionsTypeOK, Quiet, QuietKey, QuietStore,
       QuietDevice, QuietIndex, QuietRest, s
  <2>2. CASE s \in lock
    BY <1>5, <2>1, <2>2, DoneGoesOn, HandlerKeeps DEF LockRefresh, s
  <2>3. CASE s \notin lock
    <3> DEFINE row == [at[x] EXCEPT !.pc = "refresh", !.locked = TRUE]
    <3>1. row \in ActorRow
      BY <1>3 DEF ActorRow
    <3>2. row.pc = "refresh" /\ row.sess = at[x].sess /\ row.copy = at[x].copy
          /\ row.late = at[x].late /\ row.todo = at[x].todo
      BY <1>3 DEF ActorRow
    <3>3. Hold(x, row) /\ at[x].pc = "lock"
      BY <1>5, <2>3 DEF LockRefresh, s
    <3> HIDE DEF row
    <3>4. GoesOn(x)
      BY <1>2, <1>3, <3>1, <3>2, <3>3, HoldGoesOn DEF Places
    <3> QED
      BY <2>1, <3>4, HandlerKeeps
  <2> QED
    BY <2>2, <2>3
<1>6. CASE Refresh(x)
  <2>1. Quiet
    BY <1>1, <1>3, <1>6 DEF Refresh, SessionsTypeOK, Quiet, QuietKey, QuietStore,
       QuietDevice, QuietIndex, QuietRest, s
  <2>2. CASE Go(x, "drop")
    BY <1>2, <1>3, <1>6, <2>1, <2>2, PlaceGoesOn, HandlerKeeps DEF Refresh, Places
  <2>3. CASE Hold(x, [at[x] EXCEPT !.pc = "save", !.copy = [at[x].copy EXCEPT !.rt = @ + 1]])
    <3> DEFINE new == [at[x].copy EXCEPT !.rt = @ + 1]
               row == [at[x] EXCEPT !.pc = "save", !.copy = new]
    <3>1. new \in Copy /\ new.sid = at[x].copy.sid
      BY <1>3 DEF Copy
    <3>2. Hold(x, row)
      BY <2>3
    <3>3. at[x].pc = "refresh"
      BY <1>6 DEF Refresh
    <3> HIDE DEF new
    <3>4. row \in ActorRow
      BY <1>3, <3>1 DEF ActorRow
    <3>5. row.pc = "save" /\ row.sess = at[x].sess /\ row.copy = new
          /\ row.late = at[x].late /\ row.todo = at[x].todo
      BY <1>3 DEF ActorRow
    <3> HIDE DEF row
    <3>6. GoesOn(x)
      BY <1>2, <1>3, <3>1, <3>2, <3>3, <3>4, <3>5, HoldGoesOn DEF Places
    <3> QED
      BY <2>1, <3>6, HandlerKeeps
  <2> QED
    BY <1>6, <2>2, <2>3 DEF Refresh
<1>7. CASE RefreshLost(x) \/ DropSession(x) \/ SaveFails(x)
  <2>1. Quiet
    BY <1>1, <1>3, <1>7 DEF RefreshLost, DropSession, SaveFails, Fault, Revoked, SessionsTypeOK,
       Quiet, QuietKey, QuietStore, QuietDevice, QuietIndex, QuietRest, s
  <2>2. GoesOn(x)
    BY <1>2, <1>3, <1>7, PlaceGoesOn DEF RefreshLost, DropSession, SaveFails, Places
  <2> QED
    BY <2>1, <2>2, HandlerKeeps
<1>8. CASE Save(x)
  <2> DEFINE new == [at[x].copy EXCEPT !.due = FALSE]
  <2>1. store[s] # None => store[s].sid = at[x].copy.sid
    BY <1>2 DEF SessionsInv, SameSid, InSession, s
  <2>2. new \in Copy /\ new.sid = at[x].copy.sid
    BY <1>3 DEF Copy
  <2>3. UNCHANGED store \/ (store[s] # None /\ store' = [store EXCEPT ![s] = new])
    BY <1>8 DEF Save, s
  <2> HIDE DEF new
  <2>4. QuietStore
    BY <1>1, <1>3, <2>1, <2>2, <2>3 DEF SessionsTypeOK, QuietStore
  <2>5. Quiet
    BY <1>1, <1>8, <2>4 DEF Save, SessionsTypeOK, Quiet, QuietKey, QuietDevice, QuietIndex, QuietRest
  <2>6. GoesOn(x)
    BY <1>2, <1>3, <1>8, PlaceGoesOn DEF Save, Places
  <2> QED
    BY <2>5, <2>6, HandlerKeeps
<1>9. CASE Unlock(x)
  <2>1. Quiet
    BY <1>1, <1>9 DEF Unlock, Fault, SessionsTypeOK, Quiet, QuietKey, QuietStore, QuietDevice,
       QuietIndex, QuietRest
  <2> QED
    BY <1>9, <2>1, DoneGoesOn, HandlerKeeps DEF Unlock
<1> QED
  BY <1>4, <1>5, <1>6, <1>7, <1>8, <1>9 DEF RefreshStep

-----------------------------------------------------------------------------
\* Revocations, of a request or of the worker.

\* To revoke a device that is registered is a quiet change of the table.
LEMMA RevokeDevice ==
  ASSUME SessionsInv, NEW t \in Sessions, device[t] # None,
         device' = [device EXCEPT ![t].revoked = TRUE]
  PROVE  QuietDevice
<1>1. device[t] \in Device /\ device \in [Sessions -> Device \cup {None}]
  BY DEF SessionsInv, SessionsTypeOK
<1>2. [device[t] EXCEPT !.revoked = TRUE] \in Device /\ [device[t] EXCEPT !.revoked = TRUE].revoked
  BY <1>1 DEF Device
<1>3. device' = [device EXCEPT ![t] = [device[t] EXCEPT !.revoked = TRUE]]
  OBVIOUS
<1> DEFINE new == [device[t] EXCEPT !.revoked = TRUE]
<1> HIDE DEF new
<1>4. new \in Device /\ new.revoked /\ device' = [device EXCEPT ![t] = new]
  BY <1>2, <1>3 DEF new
<1> QED
  BY <1>1, <1>4 DEF QuietDevice

\* No step of a revocation does more to the tables than to revoke a device and
\* to delete a key.
LEMMA RevokeQuiet ==
  ASSUME SessionsInv, NEW x \in Handlers \cup {Worker}, RevokeStep(x) PROVE Quiet
<1>1. SessionsTypeOK
  BY DEF SessionsInv
<1>2. at[x] \in ActorRow /\ at[x].todo \subseteq Sessions
  BY <1>1 DEF SessionsTypeOK, ActorRow
<1>3. CASE RevokeRow(x)
  <2>1. CASE UNCHANGED device
    BY <1>1, <1>3, <2>1 DEF RevokeRow, SessionsTypeOK, Quiet, QuietKey, QuietStore,
       QuietDevice, QuietIndex, QuietRest
  <2>2. CASE \E t \in at[x].todo : device' = [device EXCEPT ![t].revoked = TRUE]
    <3>1. PICK t \in at[x].todo : device' = [device EXCEPT ![t].revoked = TRUE]
      BY <2>2
    <3>2. t \in Sessions /\ device[t] # None
      BY <1>2 DEF SessionsInv, Registered
    <3>3. QuietDevice
      BY <3>1, <3>2, RevokeDevice
    <3> QED
      BY <1>1, <1>3, <3>3 DEF RevokeRow, SessionsTypeOK, Quiet, QuietKey, QuietStore,
         QuietIndex, QuietRest
  <2> QED
    BY <1>3, <2>1, <2>2 DEF RevokeRow
<1>4. CASE FetchTokens(x) \/ LogoutProvider(x) \/ DeleteKey(x) \/ LogoutProviderFails(x) \/ RevokeFails(x)
  BY <1>1, <1>4 DEF FetchTokens, LogoutProvider, DeleteKey, LogoutProviderFails, RevokeFails,
     Fault, SessionsTypeOK, Quiet, QuietKey, QuietStore, QuietDevice, QuietIndex, QuietRest
<1> QED
  BY <1>3, <1>4 DEF RevokeStep

\* The rows a revocation makes of its row: the next device, its provider
\* session, or only the next place.
NextDevice(x, t) == [at[x] EXCEPT !.pc = "fetch", !.cur = t, !.todo = @ \ {t}]
NextSid(x, p, sid) == [at[x] EXCEPT !.pc = p, !.csid = sid]

\* Each step of a revocation gives its actor one of these rows, or the next place.
LEMMA RevokeRows ==
  ASSUME SessionsInv, NEW x \in Handlers \cup {Worker}, RevokeStep(x)
  PROVE  \/ at[x].pc = "revoke" /\ at[x].todo = {} /\ Go(x, Finished(x))
         \/ at[x].pc = "revoke" /\ \E t \in at[x].todo : Hold(x, NextDevice(x, t))
         \/ /\ at[x].pc = "fetch"
            /\ \E p \in {"del", "provider"}, sid \in Sids : Hold(x, NextSid(x, p, sid))
         \/ at[x].pc \in {"fetch", "provider", "del"} /\ Go(x, "revoke")
         \/ at[x].pc = "provider" /\ Go(x, "del")
         \/ /\ at[x].pc \in {"revoke", "fetch", "del"}
            /\ Go(x, IF x = Worker THEN "revoke" ELSE "unlock")
<1>1. SessionsTypeOK
  BY DEF SessionsInv
<1>2. CASE RevokeRow(x)
  BY <1>2 DEF RevokeRow, NextDevice
<1>3. CASE FetchTokens(x)
  <2>1. at[x].pc = "fetch" /\ at[x].cur \in Sessions
    BY <1>1, <1>3 DEF FetchTokens, SessionsTypeOK
  <2>2. store[at[x].cur] # None => store[at[x].cur].sid \in Sids
    BY <1>1, <2>1 DEF SessionsTypeOK, Copy
  <2>3. CASE store[at[x].cur] = None
    BY <1>3, <2>3 DEF FetchTokens
  <2>4. CASE store[at[x].cur] # None
    <3>1. \E p \in {"del", "provider"} : Hold(x, NextSid(x, p, store[at[x].cur].sid))
      BY <1>3, <2>4 DEF FetchTokens, NextSid
    <3> QED
      BY <2>1, <2>2, <2>4, <3>1
  <2> QED
    BY <2>3, <2>4
<1>4. CASE LogoutProvider(x) \/ DeleteKey(x) \/ LogoutProviderFails(x) \/ RevokeFails(x)
  BY <1>4 DEF LogoutProvider, DeleteKey, LogoutProviderFails, RevokeFails
<1> QED
  BY <1>2, <1>3, <1>4 DEF RevokeStep

\* What those rows hold.
LEMMA NextDevices ==
  ASSUME SessionsInv, NEW x \in Handlers \cup {Worker}, NEW t \in at[x].todo
  PROVE  /\ NextDevice(x, t) \in ActorRow /\ t \in Sessions
         /\ NextDevice(x, t).pc = "fetch" /\ NextDevice(x, t).cur = t
         /\ NextDevice(x, t).todo \subseteq at[x].todo
         /\ NextDevice(x, t).late = at[x].late
         /\ NextDevice(x, t).sess = at[x].sess /\ NextDevice(x, t).copy = at[x].copy
<1>1. at[x] \in ActorRow
  BY DEF SessionsInv, SessionsTypeOK
<1>2. t \in Sessions
  BY <1>1 DEF ActorRow
<1> QED
  BY <1>1, <1>2 DEF NextDevice, ActorRow

\* What the row with the provider session that was read holds.
LEMMA NextSids ==
  ASSUME SessionsInv, NEW x \in Handlers \cup {Worker},
         NEW p \in {"del", "provider"}, NEW sid \in Sids
  PROVE  /\ NextSid(x, p, sid) \in ActorRow
         /\ NextSid(x, p, sid).pc = p /\ NextSid(x, p, sid).cur = at[x].cur
         /\ NextSid(x, p, sid).csid = sid
         /\ NextSid(x, p, sid).todo = at[x].todo
         /\ NextSid(x, p, sid).late = at[x].late
         /\ NextSid(x, p, sid).sess = at[x].sess /\ NextSid(x, p, sid).copy = at[x].copy
<1>1. at[x] \in ActorRow
  BY DEF SessionsInv, SessionsTypeOK
<1> QED
  BY <1>1 DEF NextSid, ActorRow

\* A request that revokes devices.
LEMMA HandlerRevokeKeeps ==
  ASSUME SessionsInv, NEW x \in Handlers, RevokeStep(x) PROVE SessionsInv'
<1>1. InSession(x) /\ at[x].pc # "check" /\ x # Worker
  BY DEF RevokeStep, RevokeRow, FetchTokens, LogoutProvider, DeleteKey, LogoutProviderFails,
     RevokeFails, Running, SignsIn, InSession
<1>2. /\ at[x] \in ActorRow /\ at[x].sess \in Sessions /\ at[x].copy \in Copy
      /\ ~at[x].late
      /\ \A t \in at[x].todo : device[t] # None
  BY <1>1, HasSession
<1>3. GoesOn(x)
  <2>1. CASE Go(x, Finished(x)) \/ Go(x, "revoke") \/ Go(x, IF x = Worker THEN "revoke" ELSE "unlock")
    BY <1>1, <1>2, <2>1, PlaceGoesOn DEF Finished, Places
  <2>2. CASE \E t \in at[x].todo : Hold(x, NextDevice(x, t))
    <3>1. PICK t \in at[x].todo : Hold(x, NextDevice(x, t))
      BY <2>2
    <3> DEFINE new == NextDevice(x, t)
    <3>2. /\ new \in ActorRow /\ t \in Sessions /\ new.pc = "fetch" /\ new.cur = t
          /\ new.todo \subseteq at[x].todo /\ new.late = at[x].late
          /\ new.sess = at[x].sess /\ new.copy = at[x].copy
      BY NextDevices
    <3> HIDE DEF new
    <3>3. Hold(x, new)
      BY <3>1 DEF new
    <3> QED
      BY <1>1, <1>2, <3>2, <3>3, HoldGoesOn
  <2>3. CASE /\ at[x].pc = "fetch"
             /\ \E p \in {"del", "provider"}, sid \in Sids : Hold(x, NextSid(x, p, sid))
    <3>1. PICK p \in {"del", "provider"}, sid \in Sids : Hold(x, NextSid(x, p, sid))
      BY <2>3
    <3> DEFINE new == NextSid(x, p, sid)
    <3>2. /\ new \in ActorRow /\ new.pc = p /\ new.cur = at[x].cur /\ new.csid = sid
          /\ new.todo = at[x].todo /\ new.late = at[x].late
          /\ new.sess = at[x].sess /\ new.copy = at[x].copy
      BY NextSids
    <3> HIDE DEF new
    <3>3. Hold(x, new) /\ at[x].cur \in Sessions
      BY <2>3, <3>1 DEF new, SessionsInv, SessionsTypeOK
    <3> QED
      BY <1>1, <1>2, <3>2, <3>3, HoldGoesOn
  <2>4. CASE at[x].pc = "provider" /\ Go(x, "del")
    <3> DEFINE new == [at[x] EXCEPT !.pc = "del"]
    <3>1. /\ new \in ActorRow /\ new.pc = "del" /\ new.cur = at[x].cur
          /\ new.todo = at[x].todo /\ new.late = at[x].late
          /\ new.sess = at[x].sess /\ new.copy = at[x].copy
      BY <1>2 DEF ActorRow
    <3>2. Hold(x, new) /\ at[x].cur \in Sessions
      BY <2>4 DEF Go, SessionsInv, SessionsTypeOK
    <3> HIDE DEF new
    <3> QED
      BY <1>1, <1>2, <3>1, <3>2, HoldGoesOn
  <2> QED
    BY <2>1, <2>2, <2>3, <2>4, RevokeRows
<1> QED
  BY <1>3, RevokeQuiet, HandlerKeeps

\* The worker goes on with a new row.
LEMMA HoldWorker ==
  ASSUME SessionsInv, NEW row \in ActorRow, Hold(Worker, row),
         row.pc \in {"idle", "revoke", "fetch", "provider", "del"},
         row.pc \in {"fetch", "provider", "del"} => row.cur \in Sessions,
         row.pc = "provider" => row.csid \in Sids,
         \A t \in row.todo : device[t] # None
  PROVE  WorkerGoesOn
<1>1. at' \in [Actors -> ActorRow] /\ at'[Worker] = row /\ Only(Worker)
  BY DEF SessionsInv, SessionsTypeOK, Hold, Only
<1> QED
  BY <1>1 DEF WorkerGoesOn, RowOK

\* The worker ends, or the replica it runs on.
LEMMA WorkerEnds == ASSUME SessionsInv, Go(Worker, "idle") PROVE WorkerGoesOn
<1> DEFINE row == [Idle EXCEPT !.pc = "idle"]
<1>1. row \in ActorRow /\ row.pc = "idle" /\ row.todo = {}
  BY DEF Idle, ActorRow
<1>2. Hold(Worker, row)
  BY DEF Go
<1> HIDE DEF row
<1> QED
  BY <1>1, <1>2, HoldWorker

\* retryRevokedSessions.
LEMMA WorkerStepKeeps ==
  ASSUME SessionsInv, ListRevoked \/ RevokeStep(Worker) \/ Crash(Worker)
  PROVE  SessionsInv'
<1>1. SessionsTypeOK
  BY DEF SessionsInv
<1>2. at[Worker] \in ActorRow /\ \A t \in at[Worker].todo : device[t] # None
  BY <1>1 DEF SessionsTypeOK, SessionsInv, Registered
<1>3. CASE ListRevoked
  <2>1. Quiet
    BY <1>1, <1>3 DEF ListRevoked, SessionsTypeOK, Quiet, QuietKey, QuietStore, QuietDevice,
       QuietIndex, QuietRest
  <2>2. PICK rows \in SUBSET Revoked : Hold(Worker, [Idle EXCEPT !.pc = "revoke", !.todo = rows])
    BY <1>3 DEF ListRevoked
  <2> DEFINE new == [Idle EXCEPT !.pc = "revoke", !.todo = rows]
  <2>3. new \in ActorRow /\ new.pc = "revoke" /\ new.todo = rows
    BY DEF Idle, ActorRow, Revoked
  <2>4. \A t \in rows : device[t] # None
    BY DEF Revoked
  <2>5. Hold(Worker, new)
    BY <2>2
  <2> HIDE DEF new
  <2>6. WorkerGoesOn
    BY <2>3, <2>4, <2>5, HoldWorker
  <2> QED
    BY <2>1, <2>6, WorkerKeeps
<1>4. CASE RevokeStep(Worker)
  <2>1. Quiet
    BY <1>4, RevokeQuiet
  <2>2. CASE Go(Worker, "revoke")
    <3> DEFINE new == [at[Worker] EXCEPT !.pc = "revoke"]
    <3>1. new \in ActorRow /\ new.pc = "revoke" /\ new.todo = at[Worker].todo
      BY <1>2 DEF ActorRow
    <3>2. Hold(Worker, new)
      BY <2>2 DEF Go
    <3> HIDE DEF new
    <3>3. WorkerGoesOn
      BY <1>2, <3>1, <3>2, HoldWorker
    <3> QED
      BY <2>1, <3>3, WorkerKeeps
  <2>3. CASE \E t \in at[Worker].todo : Hold(Worker, NextDevice(Worker, t))
    <3>1. PICK t \in at[Worker].todo : Hold(Worker, NextDevice(Worker, t))
      BY <2>3
    <3> DEFINE new == NextDevice(Worker, t)
    <3>2. new \in ActorRow /\ t \in Sessions /\ new.pc = "fetch" /\ new.cur = t
          /\ new.todo \subseteq at[Worker].todo
      BY NextDevices
    <3> HIDE DEF new
    <3>3. Hold(Worker, new)
      BY <3>1 DEF new
    <3>4. WorkerGoesOn
      BY <1>2, <3>2, <3>3, HoldWorker
    <3> QED
      BY <2>1, <3>4, WorkerKeeps
  <2>4. CASE /\ at[Worker].pc = "fetch"
             /\ \E p \in {"del", "provider"}, sid \in Sids : Hold(Worker, NextSid(Worker, p, sid))
    <3>1. PICK p \in {"del", "provider"}, sid \in Sids : Hold(Worker, NextSid(Worker, p, sid))
      BY <2>4
    <3> DEFINE new == NextSid(Worker, p, sid)
    <3>2. new \in ActorRow /\ new.pc = p /\ new.cur = at[Worker].cur /\ new.csid = sid
          /\ new.todo = at[Worker].todo
      BY NextSids
    <3> HIDE DEF new
    <3>3. Hold(Worker, new) /\ at[Worker].cur \in Sessions
      BY <1>1, <2>4, <3>1 DEF new, SessionsTypeOK
    <3>4. WorkerGoesOn
      BY <1>2, <3>2, <3>3, HoldWorker
    <3> QED
      BY <2>1, <3>4, WorkerKeeps
  <2>5. CASE at[Worker].pc = "provider" /\ Go(Worker, "del")
    <3> DEFINE new == [at[Worker] EXCEPT !.pc = "del"]
    <3>1. new \in ActorRow /\ new.pc = "del" /\ new.cur = at[Worker].cur
          /\ new.todo = at[Worker].todo
      BY <1>2 DEF ActorRow
    <3>2. Hold(Worker, new) /\ at[Worker].cur \in Sessions
      BY <1>1, <2>5 DEF Go, SessionsTypeOK
    <3> HIDE DEF new
    <3>3. WorkerGoesOn
      BY <1>2, <3>1, <3>2, HoldWorker
    <3> QED
      BY <2>1, <3>3, WorkerKeeps
  <2>6. CASE Go(Worker, "idle")
    BY <2>1, <2>6, WorkerEnds, WorkerKeeps
  <2> QED
    BY <1>4, <2>2, <2>3, <2>4, <2>5, <2>6, RevokeRows DEF Finished
<1>5. CASE Crash(Worker)
  <2>1. Quiet
    BY <1>1, <1>5 DEF Crash, Fault, SessionsTypeOK, Quiet, QuietKey, QuietStore, QuietDevice,
       QuietIndex, QuietRest
  <2> QED
    BY <1>5, <2>1, WorkerEnds, WorkerKeeps DEF Crash
<1> QED
  BY <1>3, <1>4, <1>5

-----------------------------------------------------------------------------
\* The handlers behind sessionAuth, and the end of a replica.

\* The handlers and the end of a replica keep the invariant.
LEMMA RequestKeeps ==
  ASSUME SessionsInv, NEW x \in Handlers, Handle(x) \/ Logout(x) \/ Crash(x)
  PROVE  SessionsInv'
<1>1. SessionsTypeOK
  BY DEF SessionsInv
<1>2. CASE Handle(x)
  <2>1. Quiet
    BY <1>1, <1>2 DEF Handle, SessionsTypeOK, Quiet, QuietKey, QuietStore, QuietDevice,
       QuietIndex, QuietRest
  <2>2. InSession(x) /\ at[x].pc = "handle"
    BY <1>2 DEF Handle, Running, SignsIn, InSession
  <2>3. at[x] \in ActorRow /\ at[x].sess \in Sessions /\ at[x].copy \in Copy /\ ~at[x].late
    BY <2>2, HasSession
  <2>4. CASE Go(x, "unlock")
    BY <2>1, <2>2, <2>3, <2>4, PlaceGoesOn, HandlerKeeps DEF Places
  <2>5. CASE \E ts \in SUBSET DevicesOf(Owner[at[x].copy.sid]) :
               Hold(x, [at[x] EXCEPT !.pc = "revoke", !.todo = ts])
    <3>1. PICK ts \in SUBSET DevicesOf(Owner[at[x].copy.sid]) :
            Hold(x, [at[x] EXCEPT !.pc = "revoke", !.todo = ts])
      BY <2>5
    <3>2. ts \in SUBSET Sessions /\ \A t \in ts : device[t] # None
      BY DEF DevicesOf
    <3> DEFINE new == [at[x] EXCEPT !.pc = "revoke", !.todo = ts]
    <3>3. new \in ActorRow /\ new.pc = "revoke" /\ new.todo = ts /\ new.late = at[x].late
          /\ new.sess = at[x].sess /\ new.copy = at[x].copy
      BY <2>3, <3>2 DEF ActorRow
    <3>4. Hold(x, new)
      BY <3>1
    <3> HIDE DEF new
    <3>5. GoesOn(x)
      BY <2>2, <2>3, <3>2, <3>3, <3>4, HoldGoesOn DEF Places
    <3> QED
      BY <2>1, <3>5, HandlerKeeps
  <2>6. \A t \in DevicesOf(Owner[at[x].copy.sid]) : {t} \in SUBSET DevicesOf(Owner[at[x].copy.sid])
    OBVIOUS
  <2>7. {s \in DevicesOf(Owner[at[x].copy.sid]) : s # at[x].sess /\ ~device[s].revoked}
          \in SUBSET DevicesOf(Owner[at[x].copy.sid])
    OBVIOUS
  <2> QED
    BY <1>2, <2>4, <2>5, <2>6, <2>7 DEF Handle
<1>3. CASE Logout(x)
  <2>1. InSession(x) /\ at[x].pc = "handle"
    BY <1>3 DEF Logout, Running, SignsIn, InSession
  <2>2. at[x] \in ActorRow /\ at[x].sess \in Sessions /\ at[x].copy \in Copy /\ ~at[x].late
        /\ device[at[x].sess] # None /\ \A t \in at[x].todo : device[t] # None
    BY <2>1, HasSession
  <2>3. QuietDevice
    BY <1>3, <2>2, RevokeDevice DEF Logout
  <2>4. Quiet
    BY <1>1, <1>3, <2>2, <2>3 DEF Logout, SessionsTypeOK, Quiet, QuietKey, QuietStore, QuietIndex, QuietRest
  <2> DEFINE new == [at[x] EXCEPT !.pc = "del", !.cur = at[x].sess]
  <2>5. new \in ActorRow /\ new.pc = "del" /\ new.todo = at[x].todo /\ new.late = at[x].late
        /\ new.sess = at[x].sess /\ new.copy = at[x].copy /\ new.cur = at[x].sess
    BY <2>2 DEF ActorRow
  <2>6. Hold(x, new)
    BY <1>3 DEF Logout
  <2> HIDE DEF new
  <2>7. GoesOn(x)
    BY <2>1, <2>2, <2>5, <2>6, HoldGoesOn DEF Places
  <2> QED
    BY <2>4, <2>7, HandlerKeeps
<1>4. CASE Crash(x)
  <2>1. Quiet
    BY <1>1, <1>4 DEF Crash, Fault, SessionsTypeOK, Quiet, QuietKey, QuietStore, QuietDevice,
       QuietIndex, QuietRest
  <2>2. Go(x, "done")
    BY <1>4 DEF Crash
  <2> QED
    BY <2>1, <2>2, DoneGoesOn, HandlerKeeps
<1> QED
  BY <1>2, <1>3, <1>4

-----------------------------------------------------------------------------
\* Time and Keycloak.
LEMMA OutsideKeeps ==
  ASSUME SessionsInv,
         \/ \E s \in Sessions : Due(s) \/ Expire(s) \/ LockExpires(s)
         \/ \E p \in Sids : ProviderEnds(p)
  PROVE  SessionsInv'
<1>1. SessionsTypeOK
  BY DEF SessionsInv
<1>2. ASSUME NEW s \in Sessions, Due(s) PROVE SessionsInv'
  <2> DEFINE new == [store[s] EXCEPT !.due = TRUE]
  <2>1. store[s] \in Copy /\ store[s] # None
    BY <1>1, <1>2 DEF Due, SessionsTypeOK
  <2>2. new \in Copy /\ new.sid = store[s].sid
    BY <2>1 DEF Copy
  <2>3. store' = [store EXCEPT ![s] = new]
    BY <1>2 DEF Due
  <2> HIDE DEF new
  <2>4. QuietStore
    BY <1>1, <2>1, <2>2, <2>3 DEF SessionsTypeOK, QuietStore
  <2>5. Quiet /\ at' = at
    BY <1>1, <1>2, <2>4 DEF Due, SessionsTypeOK, Quiet, QuietKey, QuietDevice, QuietIndex, QuietRest
  <2> QED
    BY <2>5, QuietKeeps
<1>3. ASSUME NEW s \in Sessions, Expire(s) \/ LockExpires(s) PROVE SessionsInv'
  <2>1. Quiet /\ at' = at
    BY <1>1, <1>3 DEF Expire, LockExpires, Fault, Revoked, SessionsTypeOK, Quiet, QuietKey, QuietStore,
       QuietDevice, QuietIndex, QuietRest
  <2> QED
    BY <2>1, QuietKeeps
<1>4. ASSUME NEW p \in Sids, ProviderEnds(p) PROVE SessionsInv'
  <2>1. Quiet /\ at' = at
    BY <1>1, <1>4 DEF ProviderEnds, SessionsTypeOK, Quiet, QuietKey, QuietStore, QuietDevice,
       QuietIndex, QuietRest
  <2> QED
    BY <2>1, QuietKeeps
<1> QED
  BY <1>2, <1>3, <1>4

-----------------------------------------------------------------------------
\* Back-channel logout.

\* What a delivery knows of the sessions it listed.
LEMMA Listed ==
  ASSUME SessionsInv, NEW x \in Deliveries
  PROVE  /\ at[x] \in ActorRow
         /\ \A s \in at[x].listed :
              key[s] # 0 /\ \A y \in Handlers : at[y].pc = "store" => at[y].sess # s
<1>1. at[x] \in ActorRow /\ at[x].listed \subseteq Sessions
  BY DEF SessionsInv, SessionsTypeOK, ActorRow
<1> QED
  BY <1>1 DEF SessionsInv, Unused, OwnStore

\* A delivery goes on with a new row.
LEMMA HoldDelivery ==
  ASSUME SessionsInv, NEW x \in Deliveries, NEW row \in ActorRow, Hold(x, row),
         row.pc \in {"list", "scan", "mark", "clean", "leave", "done"},
         row.pc \in {"mark", "clean", "leave"} => row.cur \in Sessions,
         row.pc # "done" => row.csid \in Sids,
         \A s \in row.listed :
           key[s] # 0 /\ \A y \in Handlers : at[y].pc = "store" => at[y].sess # s,
         row.pc \in {"scan", "leave"} => \A s \in row.listed \ row.todo :
           store'[s] = None \/ store'[s].sid # row.csid,
         row.pc \in {"mark", "clean"} => \A s \in row.listed \ (row.todo \cup {row.cur}) :
           store'[s] = None \/ store'[s].sid # row.csid,
         row.ok => /\ row.pc = "done"
                   /\ \A s \in row.listed : store'[s] = None \/ store'[s].sid # row.csid
  PROVE  Delivers(x)
<1>1. at' \in [Actors -> ActorRow] /\ at'[x] = row /\ Only(x)
  BY DEF SessionsInv, SessionsTypeOK, Hold, Only
<1> QED
  BY <1>1 DEF Delivers, RowOK, CleanedBy, Gone

\* Every step of a back-channel logout keeps the invariant.
LEMMA DeliveryStepKeeps ==
  ASSUME SessionsInv, NEW x \in Deliveries, DeliveryStep(x) PROVE SessionsInv'
<1>1. SessionsTypeOK /\ CleanedBy(x)
  BY DEF SessionsInv, Cleaned
<1>2. at[x] \in ActorRow
  BY Listed
<1>3. \A s \in at[x].listed :
        key[s] # 0 /\ \A y \in Handlers : at[y].pc = "store" => at[y].sess # s
  BY Listed
<1>4. CASE ReceiveLogout(x)
  <2>1. PICK p \in Sids \ sso :
          Hold(x, [Idle EXCEPT !.csid = p, !.pc = IF p \in seen THEN "done" ELSE "list"])
    BY <1>4 DEF ReceiveLogout
  <2>2. Quiet
    BY <1>1, <1>4 DEF ReceiveLogout, SessionsTypeOK, Quiet, QuietKey, QuietStore, QuietDevice,
       QuietIndex, QuietRest
  <2> DEFINE new == [Idle EXCEPT !.csid = p, !.pc = IF p \in seen THEN "done" ELSE "list"]
  <2>3. new \in ActorRow /\ new.pc \in {"list", "done"} /\ new.csid = p /\ new.listed = {} /\ ~new.ok
    BY DEF Idle, ActorRow
  <2>4. Hold(x, new)
    BY <2>1
  <2> HIDE DEF new
  <2>5. Delivers(x)
    BY <2>3, <2>4, HoldDelivery
  <2> QED
    BY <2>2, <2>5, DeliveryKeeps
<1>5. CASE ListSessions(x)
  <2>1. at[x].csid \in Sids /\ ~at[x].ok
    BY <1>1, <1>5 DEF ListSessions, SessionsTypeOK, CleanedBy
  <2> DEFINE all == index[Owner[at[x].csid]]
             new == [at[x] EXCEPT !.pc = "scan", !.todo = all, !.listed = all]
  <2>2. all \in SUBSET Sessions /\ Owner[at[x].csid] \in Users
    BY <1>1, <2>1 DEF SessionsTypeOK
  <2>3. \A s \in all : key[s] # 0 /\ \A y \in Handlers : at[y].pc = "store" => at[y].sess # s
    BY <2>2 DEF SessionsInv, Unused, OwnStore
  <2>4. Hold(x, new)
    BY <1>5 DEF ListSessions
  <2> HIDE DEF all
  <2>5. new \in ActorRow /\ new.pc = "scan" /\ new.todo = all /\ new.listed = all
        /\ new.csid = at[x].csid /\ new.ok = at[x].ok
    BY <1>2, <2>2 DEF ActorRow
  <2> HIDE DEF new
  <2>6. Delivers(x)
    BY <2>1, <2>3, <2>4, <2>5, HoldDelivery
  <2>7. Quiet
    BY <1>1, <1>5 DEF ListSessions, SessionsTypeOK, Quiet, QuietKey, QuietStore, QuietDevice,
       QuietIndex, QuietRest
  <2> QED
    BY <2>6, <2>7, DeliveryKeeps
<1>6. CASE ScanSession(x)
  <2>1. at[x].pc = "scan" /\ at[x].csid \in Sids /\ ~at[x].ok /\ UNCHANGED store
    BY <1>1, <1>6 DEF ScanSession, SessionsTypeOK, CleanedBy
  <2>2. \A s \in at[x].listed \ at[x].todo : Gone(x, s)
    BY <1>1, <2>1 DEF CleanedBy
  <2>3. CASE at[x].todo = {}
    <3> DEFINE new == [at[x] EXCEPT !.pc = "done", !.ok = TRUE]
    <3>1. new \in ActorRow /\ new.pc = "done" /\ new.listed = at[x].listed /\ new.csid = at[x].csid
      BY <1>2 DEF ActorRow
    <3>2. Hold(x, new)
      BY <1>6, <2>3 DEF ScanSession
    <3> HIDE DEF new
    <3>3. Delivers(x)
      BY <1>3, <2>1, <2>2, <2>3, <3>1, <3>2, HoldDelivery DEF Gone
    <3>4. Quiet
      BY <1>1, <1>6, <2>3 DEF ScanSession, SessionsTypeOK, Quiet, QuietKey, QuietStore,
         QuietDevice, QuietIndex, QuietRest
    <3> QED
      BY <3>3, <3>4, DeliveryKeeps
  <2>4. ASSUME NEW s \in at[x].todo,
               Hold(x, [at[x] EXCEPT !.todo = @ \ {s}, !.cur = s,
                          !.pc = IF store[s] # None /\ store[s].sid = at[x].csid
                                   THEN "mark" ELSE "scan"])
        PROVE  SessionsInv'
    <3>1. s \in Sessions
      BY <1>2 DEF ActorRow
    <3>2. Quiet
      BY <1>1, <1>6 DEF ScanSession, SessionsTypeOK, Quiet, QuietKey, QuietStore, QuietDevice,
         QuietIndex, QuietRest
    <3> DEFINE meant == store[s] # None /\ store[s].sid = at[x].csid
               new == [at[x] EXCEPT !.todo = @ \ {s}, !.cur = s,
                                    !.pc = IF meant THEN "mark" ELSE "scan"]
    <3>3. Hold(x, new)
      BY <2>4
    <3>4. ~meant => Gone(x, s)
      BY DEF Gone
    <3> HIDE DEF meant
    <3>5. /\ new \in ActorRow /\ new.pc = IF meant THEN "mark" ELSE "scan"
          /\ new.cur = s /\ new.todo = at[x].todo \ {s} /\ new.listed = at[x].listed
          /\ new.csid = at[x].csid /\ new.ok = at[x].ok
      BY <1>2, <3>1 DEF ActorRow
    <3> HIDE DEF new
    <3>6. Delivers(x)
      BY <1>3, <2>1, <2>2, <3>1, <3>3, <3>4, <3>5, HoldDelivery DEF Gone
    <3> QED
      BY <3>2, <3>6, DeliveryKeeps
  <2> QED
    BY <1>6, <2>3, <2>4 DEF ScanSession
<1>7. CASE MarkDevice(x)
  <2>1. at[x].pc = "mark" /\ at[x].csid \in Sids /\ at[x].cur \in Sessions /\ ~at[x].ok /\ store' = store
    BY <1>1, <1>7 DEF MarkDevice, SessionsTypeOK, CleanedBy
  <2>2. \A s \in at[x].listed \ (at[x].todo \cup {at[x].cur}) : Gone(x, s)
    BY <1>1, <2>1 DEF CleanedBy
  <2>3. QuietDevice
    <3>1. CASE device' = device
      BY <1>1, <3>1 DEF SessionsTypeOK, QuietDevice
    <3>2. CASE device[at[x].cur] # None /\ device' = [device EXCEPT ![at[x].cur].revoked = TRUE]
      BY <2>1, <3>2, RevokeDevice
    <3> QED
      BY <1>7, <3>1, <3>2 DEF MarkDevice
  <2>4. Quiet
    BY <1>1, <1>7, <2>3 DEF MarkDevice, SessionsTypeOK, Quiet, QuietKey, QuietStore, QuietIndex, QuietRest
  <2> DEFINE new == [at[x] EXCEPT !.pc = "clean"]
  <2>5. /\ new \in ActorRow /\ new.pc = "clean" /\ new.todo = at[x].todo /\ new.cur = at[x].cur
        /\ new.listed = at[x].listed /\ new.csid = at[x].csid /\ new.ok = at[x].ok
    BY <1>2 DEF ActorRow
  <2>6. Hold(x, new)
    BY <1>7 DEF MarkDevice, Go
  <2> HIDE DEF new
  <2>7. Delivers(x)
    BY <1>3, <2>1, <2>2, <2>5, <2>6, HoldDelivery DEF Gone
  <2> QED
    BY <2>4, <2>7, DeliveryKeeps
<1>8. CASE CleanSession(x)
  <2>1. at[x].pc = "clean" /\ at[x].csid \in Sids /\ at[x].cur \in Sessions /\ ~at[x].ok
        /\ store' = [store EXCEPT ![at[x].cur] = None]
    BY <1>1, <1>8 DEF CleanSession, SessionsTypeOK, CleanedBy
  <2>2. \A s \in at[x].listed \ (at[x].todo \cup {at[x].cur}) : Gone(x, s)
    BY <1>1, <2>1 DEF CleanedBy
  <2>3. Quiet
    BY <1>1, <1>8, <2>1 DEF CleanSession, SessionsTypeOK, Quiet, QuietKey, QuietStore,
       QuietDevice, QuietIndex, QuietRest
  <2> DEFINE new == [at[x] EXCEPT !.pc = "leave"]
  <2>4. /\ new \in ActorRow /\ new.pc = "leave" /\ new.todo = at[x].todo /\ new.cur = at[x].cur
        /\ new.listed = at[x].listed /\ new.csid = at[x].csid /\ new.ok = at[x].ok
    BY <1>2 DEF ActorRow
  <2>5. Hold(x, new)
    BY <1>8 DEF CleanSession, Go
  <2>6. at[x].listed \subseteq Sessions
    BY <1>2 DEF ActorRow
  <2> HIDE DEF new
  <2>7. \A s \in new.listed \ new.todo : store'[s] = None \/ store'[s].sid # new.csid
    BY <1>1, <2>1, <2>2, <2>4, <2>6 DEF SessionsTypeOK, Gone
  <2>8. Delivers(x)
    BY <1>3, <2>1, <2>4, <2>5, <2>7, HoldDelivery
  <2> QED
    BY <2>3, <2>8, DeliveryKeeps
<1>9. CASE LeaveIndex(x)
  <2>1. at[x].pc = "leave" /\ at[x].csid \in Sids /\ ~at[x].ok /\ Owner[at[x].csid] \in Users
        /\ store' = store
    BY <1>1, <1>9 DEF LeaveIndex, SessionsTypeOK, CleanedBy
  <2>2. \A s \in at[x].listed \ at[x].todo : Gone(x, s)
    BY <1>1, <2>1 DEF CleanedBy
  <2>3. Quiet
    BY <1>1, <1>9, <2>1 DEF LeaveIndex, Fault, SessionsTypeOK, Quiet, QuietKey, QuietStore,
       QuietDevice, QuietIndex, QuietRest
  <2> DEFINE new == [at[x] EXCEPT !.pc = "scan"]
  <2>4. /\ new \in ActorRow /\ new.pc = "scan" /\ new.todo = at[x].todo
        /\ new.listed = at[x].listed /\ new.csid = at[x].csid /\ new.ok = at[x].ok
    BY <1>2 DEF ActorRow
  <2>5. Hold(x, new)
    BY <1>9 DEF LeaveIndex, Go
  <2> HIDE DEF new
  <2>6. Delivers(x)
    BY <1>3, <2>1, <2>2, <2>4, <2>5, HoldDelivery DEF Gone
  <2> QED
    BY <2>3, <2>6, DeliveryKeeps
<1>10. CASE LogoutFails(x)
  <2>1. Quiet
    BY <1>1, <1>10 DEF LogoutFails, Fault, SessionsTypeOK, Quiet, QuietKey, QuietStore,
       QuietDevice, QuietIndex, QuietRest
  <2> DEFINE new == [Idle EXCEPT !.pc = "done"]
  <2>2. new \in ActorRow /\ new.pc = "done" /\ new.listed = {} /\ ~new.ok
    BY DEF Idle, ActorRow
  <2>3. Hold(x, new)
    BY <1>10 DEF LogoutFails, Go
  <2> HIDE DEF new
  <2>4. Delivers(x)
    BY <2>2, <2>3, HoldDelivery
  <2> QED
    BY <2>1, <2>4, DeliveryKeeps
<1> QED
  BY <1>4, <1>5, <1>6, <1>7, <1>8, <1>9, <1>10 DEF DeliveryStep

-----------------------------------------------------------------------------
\* sessionAuth reads a session.  A request that begins is like one that goes on,
\* but it has no session before.
LEMMA ReadKeeps == ASSUME SessionsInv, NEW x \in Handlers, ReadSession(x) PROVE SessionsInv'
<1>1. SessionsTypeOK
  BY DEF SessionsInv
<1>2. PICK s \in Sessions :
        /\ at[x].pc = "idle" /\ device[s] # None /\ store[s] # None
        /\ Hold(x, [Idle EXCEPT !.pc = "check", !.sess = s, !.copy = store[s],
                                !.late = device[s].revoked])
        /\ UNCHANGED <<sso, key, store, index, lock, seen, device, spared, faults>>
  BY DEF ReadSession
<1> DEFINE new == [Idle EXCEPT !.pc = "check", !.sess = s, !.copy = store[s],
                               !.late = device[s].revoked]
<1>3. store[s] \in Copy /\ device[s] \in Device /\ device[s].revoked \in BOOLEAN
  BY <1>1, <1>2 DEF SessionsTypeOK, Device
<1>4. /\ new \in ActorRow /\ new.pc = "check" /\ new.sess = s /\ new.copy = store[s]
      /\ new.late = device[s].revoked /\ new.todo = {} /\ new.cur = None
  BY <1>3 DEF Idle, ActorRow
<1>5. Hold(x, new)
  BY <1>2
<1> HIDE DEF new
<1>6. at' \in [Actors -> ActorRow] /\ at'[x] = new /\ \A y \in Actors : y # x => at'[y] = at[y]
  BY <1>1, <1>4, <1>5 DEF SessionsTypeOK, Hold
<1>7. key[s] # 0 /\ \A y \in Handlers : SignsIn(y) => at[y].sess # s
  BY <1>2 DEF SessionsInv, Unused, OwnSignIn
<1>8. SessionsTypeOK'
  BY <1>1, <1>2, <1>3, <1>4, <1>6 DEF SessionsTypeOK, Running
<1>9. Roles' /\ Unused'
  BY <1>2, <1>4, <1>6, <1>7 DEF SessionsInv, Roles, Unused, Running
<1>10. OwnSignIn' /\ OwnStore'
  BY <1>2, <1>4, <1>6, <1>7 DEF SessionsInv, OwnSignIn, OwnStore, SignsIn, InSession, Running
<1>11. Registered'
  BY <1>2, <1>4, <1>6 DEF SessionsInv, Registered, SignsIn, InSession, Running
<1>12. SameSid' /\ StillRevoked'
  BY <1>2, <1>4, <1>6 DEF SessionsInv, SameSid, StillRevoked, Running
<1>13. Cleaned'
  BY <1>2, <1>4, <1>6 DEF SessionsInv, Cleaned, CleanedBy, Gone
<1> QED
  BY <1>8, <1>9, <1>10, <1>11, <1>12, <1>13 DEF SessionsInv

-----------------------------------------------------------------------------
\* callback.

\* The exchange of the code: a fresh id that nobody else holds.
LEMMA SignInKeeps == ASSUME SessionsInv, NEW x \in Handlers, SignIn(x) PROVE SessionsInv'
<1>1. SessionsTypeOK
  BY DEF SessionsInv
<1>2. PICK s \in Sessions, p \in sso :
        /\ at[x].pc = "idle" /\ key[s] = 0 /\ key' = [key EXCEPT ![s] = 1]
        /\ Hold(x, [Idle EXCEPT !.pc = "store", !.sess = s,
                                !.copy = [sid |-> p, rt |-> 1, due |-> FALSE]])
        /\ UNCHANGED <<sso, store, index, lock, seen, device, spared, faults>>
  BY DEF SignIn
<1> DEFINE copy == [sid |-> p, rt |-> 1, due |-> FALSE]
           new  == [Idle EXCEPT !.pc = "store", !.sess = s, !.copy = copy]
<1>3. copy \in Copy
  BY <1>1 DEF SessionsTypeOK, Copy
<1>4. Hold(x, new)
  BY <1>2
<1> HIDE DEF copy
<1>5. /\ new \in ActorRow /\ new.pc = "store" /\ new.sess = s /\ new.copy = copy
      /\ ~new.late /\ new.todo = {}
  BY <1>3 DEF Idle, ActorRow
<1> HIDE DEF new
<1>6. at' \in [Actors -> ActorRow] /\ at'[x] = new /\ \A y \in Actors : y # x => at'[y] = at[y]
  BY <1>1, <1>4, <1>5 DEF SessionsTypeOK, Hold
<1>7. /\ store[s] = None /\ device[s] = None /\ \A u \in Users : s \notin index[u]
      /\ \A y \in Handlers : Running(y) => at[y].sess # s
      /\ \A d \in Deliveries : s \notin at[d].listed
  BY <1>2 DEF SessionsInv, Unused
<1>8. SessionsTypeOK'
  BY <1>1, <1>2, <1>3, <1>5, <1>6 DEF SessionsTypeOK, Running
<1>9. Roles'
  BY <1>5, <1>6 DEF SessionsInv, Roles
<1>10. Unused'
  BY <1>1, <1>2, <1>5, <1>6 DEF SessionsInv, SessionsTypeOK, Unused, Running
<1>11. OwnSignIn'
  BY <1>2, <1>5, <1>6, <1>7 DEF SessionsInv, OwnSignIn, SignsIn, InSession, Running
<1>12. OwnStore'
  BY <1>2, <1>5, <1>6, <1>7 DEF SessionsInv, OwnStore
<1>13. Registered'
  BY <1>2, <1>5, <1>6 DEF SessionsInv, Registered, SignsIn, InSession, Running
<1>14. SameSid' /\ StillRevoked'
  BY <1>2, <1>5, <1>6, <1>7 DEF SessionsInv, SameSid, StillRevoked, Running
<1>15. Cleaned'
  BY <1>2, <1>6 DEF SessionsInv, Cleaned, CleanedBy, Gone
<1> QED
  BY <1>8, <1>9, <1>10, <1>11, <1>12, <1>13, <1>14, <1>15 DEF SessionsInv

\* What a request that signs in knows.
LEMMA InSignIn ==
  ASSUME SessionsInv, NEW x \in Handlers, SignsIn(x)
  PROVE  /\ at[x] \in ActorRow /\ at[x].sess \in Sessions /\ at[x].copy \in Copy
         /\ Owner[at[x].copy.sid] \in Users
         /\ key[at[x].sess] # 0 /\ device[at[x].sess] = None /\ ~at[x].late
         /\ \A y \in Handlers : y # x /\ Running(y) => at[y].sess # at[x].sess
         /\ \A t \in at[x].todo : device[t] # None
<1>1. Running(x)
  BY DEF Running, SignsIn, InSession
<1>2. at[x] \in ActorRow /\ at[x].sess \in Sessions /\ at[x].copy \in Copy
  BY <1>1 DEF SessionsInv, SessionsTypeOK
<1>3. Owner[at[x].copy.sid] \in Users
  BY <1>2 DEF Copy
<1> QED
  BY <1>1, <1>2, <1>3 DEF SessionsInv, Unused, OwnSignIn, StillRevoked, Registered, SignsIn

\* The next place of a sign-in, with everything else of the row as it was.
LEMMA SignInRow ==
  ASSUME SessionsInv, NEW x \in Handlers, SignsIn(x),
         NEW p \in {"index", "device", "replace", "undo"}, Go(x, p)
  PROVE  /\ at' \in [Actors -> ActorRow] /\ Only(x) /\ at'[x].pc = p
         /\ at'[x].sess = at[x].sess /\ at'[x].copy = at[x].copy /\ ~at'[x].late
         /\ at'[x].todo = at[x].todo
<1> DEFINE new == [at[x] EXCEPT !.pc = p]
<1>1. /\ new \in ActorRow /\ new.pc = p /\ new.sess = at[x].sess /\ new.copy = at[x].copy
      /\ new.late = at[x].late /\ new.todo = at[x].todo
  BY InSignIn DEF ActorRow
<1>2. Hold(x, new) /\ ~at[x].late
  BY InSignIn DEF Go
<1> HIDE DEF new
<1> QED
  BY <1>1, <1>2 DEF SessionsInv, SessionsTypeOK, Hold, Only

\* What the steps of a sign-in write, each in its place, done or failed.
Writes(x) ==
  LET s == at[x].sess
      u == Owner[at[x].copy.sid]
  IN  /\ key' = key /\ sso' = sso /\ lock' = lock /\ seen' = seen /\ spared' = spared
      /\ faults' \in Nat
      /\ store' = store \/ (at[x].pc = "store" /\ store' = [store EXCEPT ![s] = at[x].copy])
      /\ index' = index \/ index' = [index EXCEPT ![u] = @ \cup {s}]
      /\ device' = device \/ device' = [device EXCEPT ![s] = [user |-> u, revoked |-> FALSE]]
      /\ \/ Go(x, "done")
         \/ Go(x, "undo")
         \/ (Go(x, "index") \/ Go(x, "device")) /\ device' = device
         \/ Go(x, "replace") /\ device' = [device EXCEPT ![s] = [user |-> u, revoked |-> FALSE]]

SignInWrites(x) == StoreSession(x) \/ IndexSession(x) \/ RegisterDevice(x) \/ SignInFails(x)

\* Each of them does no more.
LEMMA StepsWrite ==
  ASSUME SessionsInv, NEW x \in Handlers, SignInWrites(x) PROVE SignsIn(x) /\ Writes(x)
<1>1. faults \in Nat
  BY DEF SessionsInv, SessionsTypeOK
<1>2. CASE StoreSession(x)
  BY <1>1, <1>2 DEF StoreSession, SignsIn, Writes
<1>3. CASE IndexSession(x)
  BY <1>1, <1>3 DEF IndexSession, SignsIn, Writes
<1>4. CASE RegisterDevice(x)
  BY <1>1, <1>4 DEF RegisterDevice, SignsIn, Writes
<1>5. CASE SignInFails(x)
  BY <1>1, <1>5 DEF SignInFails, Fault, SignsIn, Writes
<1> QED
  BY <1>2, <1>3, <1>4, <1>5 DEF SignInWrites

\* A sign-in stores, indexes and registers its session, or fails to.
LEMMA SignInWritesKeep == ASSUME SessionsInv, NEW x \in Handlers, SignInWrites(x) PROVE SessionsInv'
<1> DEFINE s == at[x].sess
           u == Owner[at[x].copy.sid]
           row == [user |-> u, revoked |-> FALSE]
<1>1. SessionsTypeOK
  BY DEF SessionsInv
<1>2. SignsIn(x) /\ Writes(x)
  BY StepsWrite
<1>3. /\ s \in Sessions /\ at[x].copy \in Copy /\ u \in Users /\ key[s] # 0 /\ device[s] = None
      /\ \A y \in Handlers : y # x /\ Running(y) => at[y].sess # s
      /\ \A t \in at[x].todo : device[t] # None
  BY <1>2, InSignIn
<1>4. row \in Device /\ row # None
  <2>1. row \in Device
    BY <1>3 DEF Device
  <2> HIDE DEF row
  <2> QED
    BY <2>1
<1>5. /\ key' = key /\ sso' = sso /\ lock' = lock /\ seen' = seen /\ spared' = spared
      /\ faults' \in Nat
      /\ store' = store \/ (at[x].pc = "store" /\ store' = [store EXCEPT ![s] = at[x].copy])
      /\ index' = index \/ index' = [index EXCEPT ![u] = @ \cup {s}]
      /\ device' = device \/ device' = [device EXCEPT ![s] = row]
  BY <1>2 DEF Writes
<1> HIDE DEF row
<1>6. /\ device' \in [Sessions -> Device \cup {None}]
      /\ \A t \in Sessions : t # s => device'[t] = device[t]
      /\ \A t \in Sessions : device[t] # None => device'[t] = device[t]
  BY <1>1, <1>3, <1>4, <1>5 DEF SessionsTypeOK
<1>7. /\ at' \in [Actors -> ActorRow] /\ Only(x) /\ ~at'[x].late
      /\ \A t \in at'[x].todo : device[t] # None
      /\ \/ at'[x].pc = "done"
         \/ /\ at'[x].sess = s /\ at'[x].copy = at[x].copy
            /\ \/ at'[x].pc = "undo"
               \/ at'[x].pc \in {"index", "device"} /\ device'[s] = None
               \/ at'[x].pc = "replace" /\ device'[s] # None
  <2>1. CASE Go(x, "done")
    <3>1. at'[x] = [Idle EXCEPT !.pc = "done"] /\ at' \in [Actors -> ActorRow] /\ Only(x)
      BY <1>1, <2>1 DEF SessionsTypeOK, Go, Hold, Only, Idle, ActorRow
    <3> QED
      BY <3>1 DEF Idle
  <2>2. CASE \/ Go(x, "undo")
             \/ (Go(x, "index") \/ Go(x, "device")) /\ device' = device
             \/ Go(x, "replace") /\ device' = [device EXCEPT ![s] = row]
    <3>1. device' = [device EXCEPT ![s] = row] => device'[s] # None
      BY <1>1, <1>3, <1>4 DEF SessionsTypeOK
    <3>2. PICK p \in {"index", "device", "replace", "undo"} :
            /\ Go(x, p)
            /\ p \in {"index", "device"} => device' = device
            /\ p = "replace" => device'[s] # None
      BY <2>2, <3>1
    <3>3. /\ at' \in [Actors -> ActorRow] /\ Only(x) /\ at'[x].pc = p /\ at'[x].sess = s
          /\ at'[x].copy = at[x].copy /\ ~at'[x].late /\ at'[x].todo = at[x].todo
      BY <1>2, <3>2, SignInRow
    <3> QED
      BY <1>3, <3>2, <3>3
  <2> QED
    BY <1>2, <2>1, <2>2 DEF Writes, row
<1>8. at[x].pc = "store" => \A d \in Deliveries : s \notin at[d].listed
  BY DEF SessionsInv, OwnStore
<1>9. \A y \in Handlers : y # x /\ SignsIn(y) => at[y].sess # s
  BY <1>3 DEF Running, SignsIn
<1>10. Running(x)
  BY <1>2 DEF SignsIn, Running
<1>11. store' \in [Sessions -> Copy \cup {None}] /\ \A t \in Sessions : t # s => store'[t] = store[t]
  BY <1>1, <1>3, <1>5 DEF SessionsTypeOK
<1>12. /\ index' \in [Users -> SUBSET Sessions]
       /\ \A v \in Users, t \in Sessions : t # s /\ t \notin index[v] => t \notin index'[v]
  BY <1>1, <1>3, <1>5 DEF SessionsTypeOK
<1>13. store'[s] # None => store'[s].sid = at[x].copy.sid
  <2>1. CASE store' = store
    BY <1>10, <2>1 DEF SessionsInv, SameSid
  <2>2. CASE store' = [store EXCEPT ![s] = at[x].copy]
    BY <1>1, <1>3, <2>2 DEF SessionsTypeOK
  <2> QED
    BY <1>5, <2>1, <2>2
<1>14. \A y \in Handlers : y # x /\ Running(y) => at[y].sess \in Sessions /\ at[y].sess # s
  BY <1>1, <1>3 DEF SessionsTypeOK
<1>15. at[x].pc # "store" => store' = store
  BY <1>5
<1> HIDE DEF s, u
<1>16. SessionsTypeOK'
  BY <1>1, <1>3, <1>5, <1>6, <1>7, <1>11, <1>12 DEF SessionsTypeOK, Only, Running
<1>17. Roles'
  BY <1>7 DEF SessionsInv, Roles, Only
<1>18. Unused'
  BY <1>3, <1>5, <1>6, <1>7, <1>11, <1>12 DEF SessionsInv, Unused, Only, Running
<1>19. OwnSignIn'
  BY <1>3, <1>6, <1>7, <1>9, <1>14 DEF SessionsInv, OwnSignIn, Only, SignsIn, Running
<1>20. OwnStore'
  BY <1>1, <1>6, <1>7, <1>9, <1>11, <1>12, <1>14 DEF SessionsInv, SessionsTypeOK, OwnStore, Only, SignsIn, Running
<1>21. Registered'
  <2>1. \A y \in Handlers \cup {Worker} : at'[y].todo \subseteq Sessions
    BY <1>7 DEF ActorRow
  <2>2. \A y \in Handlers \cup {Worker} : \A t \in at'[y].todo : device[t] # None
    BY <1>7 DEF SessionsInv, Registered, Only
  <2>3. \A y \in Handlers : InSession(y)' => device'[at'[y].sess] # None
    BY <1>6, <1>7, <1>14 DEF SessionsInv, Registered, Only, SignsIn, InSession, Running
  <2> QED
    BY <1>6, <2>1, <2>2, <2>3 DEF Registered
<1>22. SameSid'
  BY <1>7, <1>11, <1>13, <1>14 DEF SessionsInv, SameSid, Only, Running
<1>23. StillRevoked'
  BY <1>6, <1>7, <1>14 DEF SessionsInv, StillRevoked, Registered, Only, SignsIn, InSession, Running
<1>24. Cleaned'
  BY <1>1, <1>7, <1>8, <1>11, <1>15 DEF SessionsInv, SessionsTypeOK, Cleaned, CleanedBy, Gone, Only, ActorRow
<1> QED
  BY <1>16, <1>17, <1>18, <1>19, <1>20, <1>21, <1>22, <1>23, <1>24 DEF SessionsInv

\* The end of a sign-in: keys are only deleted.
LEMMA SignInEndKeeps ==
  ASSUME SessionsInv, NEW x \in Handlers, ReplaceSession(x) \/ UndoSignIn(x) PROVE SessionsInv'
<1>1. SessionsTypeOK /\ Revoked \subseteq Sessions
  BY DEF SessionsInv, Revoked
<1>2. QuietStore
  <2>1. CASE ReplaceSession(x)
    BY <1>1, <2>1 DEF ReplaceSession, SessionsTypeOK, QuietStore
  <2>2. CASE UndoSignIn(x)
    BY <1>1, <2>2 DEF UndoSignIn, SessionsTypeOK, QuietStore
  <2> QED
    BY <2>1, <2>2
<1>3. Quiet /\ Go(x, "done")
  BY <1>1, <1>2 DEF ReplaceSession, UndoSignIn, SessionsTypeOK, Quiet, QuietKey, QuietDevice,
     QuietIndex, QuietRest
<1> QED
  BY <1>3, DoneGoesOn, HandlerKeeps

-----------------------------------------------------------------------------
\* The theorems.

\* The invariant holds in every reachable state.
THEOREM SessionsInvariance == SessionsSpec => []SessionsInv
<1>1. SessionsInv /\ [SessionsNext]_sessionVars => SessionsInv'
  <2> SUFFICES ASSUME SessionsInv, [SessionsNext]_sessionVars PROVE SessionsInv'
    OBVIOUS
  <2>1. CASE \E x \in Handlers : SignInStep(x)
    BY <2>1, SignInKeeps, SignInWritesKeep, SignInEndKeeps DEF SignInStep, SignInWrites
  <2>2. CASE \E x \in Handlers : RequestStep(x)
    BY <2>2, ReadKeeps, RefreshKeeps, RequestKeeps DEF RequestStep
  <2>3. CASE \E x \in Handlers : RevokeStep(x) \/ Crash(x)
    BY <2>3, HandlerRevokeKeeps, RequestKeeps
  <2>4. CASE ListRevoked \/ RevokeStep(Worker) \/ Crash(Worker)
    BY <2>4, WorkerStepKeeps
  <2>5. CASE \E x \in Deliveries : DeliveryStep(x)
    BY <2>5, DeliveryStepKeeps
  <2>6. CASE \/ \E s \in Sessions : Due(s) \/ Expire(s) \/ LockExpires(s)
             \/ \E p \in Sids : ProviderEnds(p)
    BY <2>6, OutsideKeeps
  <2>7. CASE UNCHANGED sessionVars
    <3>1. Quiet /\ at' = at
      BY <2>7 DEF sessionVars, SessionsInv, SessionsTypeOK, Quiet, QuietKey, QuietStore,
         QuietDevice, QuietIndex, QuietRest
    <3> QED
      BY <3>1, QuietKeeps
  <2> QED
    BY <2>1, <2>2, <2>3, <2>4, <2>5, <2>6, <2>7 DEF SessionsNext
<1> QED
  BY <1>1, SessionsInitInv, PTL DEF SessionsSpec

\* Every variable keeps its type, and every actor holds what its place needs.
THEOREM SessionsTypeCorrect == SessionsSpec => []SessionsTypeOK
<1>1. SessionsInv => SessionsTypeOK
  BY DEF SessionsInv
<1> QED
  BY <1>1, SessionsInvariance, PTL

\* A request that comes after its device was revoked never gets past the check.
THEOREM RevokedStaysOut == SessionsSpec => []RevokedIsRefused
<1>1. SessionsInv => RevokedIsRefused
  BY DEF SessionsInv, StillRevoked, RevokedIsRefused
<1> QED
  BY <1>1, SessionsInvariance, PTL

\* A delivery that did its work leaves none of the sessions it found.
THEOREM LogoutCleans == SessionsSpec => []CompletedLogoutCleans
<1>1. SessionsInv => CompletedLogoutCleans
  BY DEF SessionsInv, Cleaned, CleanedBy, Gone, CompletedLogoutCleans
<1> QED
  BY <1>1, SessionsInvariance, PTL

\* Only the sign-in of a session makes its key: every other step is quiet.
LEMMA StepMakesNoKey ==
  ASSUME SessionsTypeOK, [SessionsNext]_sessionVars,
         NEW s \in Sessions, store[s] = None, store'[s] # None
  PROVE  \E x \in Handlers : at[x].pc = "store" /\ at[x].sess = s
<1>1. PICK x \in Handlers : SignInStep(x)
  <2> USE DEF SessionsTypeOK
  <2>1. ASSUME NEW x \in Handlers, RequestStep(x) PROVE FALSE
    BY <2>1 DEF RequestStep, RefreshStep, ReadSession, CheckDevice, LockRefresh, Refresh, RefreshLost,
       DropSession, Save, SaveFails, Handle, Logout, Unlock
  <2>2. ASSUME NEW x \in Actors, RevokeStep(x) \/ Crash(x) PROVE FALSE
    BY <2>2 DEF RevokeStep, RevokeRow, FetchTokens, LogoutProvider, DeleteKey, LogoutProviderFails,
       RevokeFails, Crash
  <2>3. ASSUME NEW x \in Deliveries, DeliveryStep(x) PROVE FALSE
    BY <2>3 DEF DeliveryStep, ReceiveLogout, ListSessions, ScanSession, MarkDevice, CleanSession,
       LeaveIndex, LogoutFails
  <2>4. CASE \/ ListRevoked \/ \E t \in Sessions : Due(t) \/ Expire(t) \/ LockExpires(t)
             \/ \E p \in Sids : ProviderEnds(p)
             \/ UNCHANGED sessionVars
    BY <2>4 DEF ListRevoked, Due, Expire, LockExpires, ProviderEnds, sessionVars
  <2> QED
    BY <2>1, <2>2, <2>3, <2>4 DEF SessionsNext
<1>2. StoreSession(x) \/ SignInFails(x)
  BY <1>1 DEF SignInStep, SignIn, IndexSession, RegisterDevice, ReplaceSession, UndoSignIn, SessionsTypeOK
<1> QED
  BY <1>2 DEF StoreSession, SignInFails, SessionsTypeOK

\* A session key that is gone stays gone.
THEOREM NothingResurrects == SessionsSpec => OnlySignInCreates
<1>1. SessionsTypeOK /\ [SessionsNext]_sessionVars =>
        [\A s \in Sessions : store[s] = None /\ store'[s] # None =>
           \E x \in Handlers : at[x].pc = "store" /\ at[x].sess = s]_sessionVars
  BY StepMakesNoKey
<1> QED
  BY <1>1, SessionsTypeCorrect, PTL DEF SessionsSpec, OnlySignInCreates

-----------------------------------------------------------------------------
\* The refresh lock.

Refreshing == {"refresh", "save", "drop"}

\* The requests that think they hold the lock of a session.
Holders(s) == {x \in Handlers : at[x].locked /\ at[x].sess = s}

\* There is one for the lock and one for each lock that was lost.
LocksCounted ==
  \A s \in Sessions :
    /\ IsFiniteSet(Holders(s))
    /\ Cardinality(Holders(s)) <= faults + (IF s \in lock THEN 1 ELSE 0)

\* Who refreshes thinks so.
LockedRefresh == \A x \in Handlers : at[x].pc \in Refreshing => at[x].locked

LocksInv == LocksCounted /\ LockedRefresh

\* A request keeps its lock or gives it up, and begins no refresh.
Yields(row, new) ==
  /\ new.locked => row.locked /\ new.sess = row.sess
  /\ new.pc \in Refreshing => row.pc \in Refreshing /\ new.locked = row.locked

\* A step in which nobody takes a lock, and a lock goes with its holder or by
\* a failure.
LEMMA YieldKeeps ==
  ASSUME SessionsTypeOK, LocksInv, faults' \in {faults, faults + 1},
         \A y \in Handlers : Yields(at[y], at'[y]),
         \A s \in lock \ lock' :
           \/ faults' = faults + 1
           \/ \E x \in Handlers : at[x].locked /\ at[x].sess = s /\ ~at'[x].locked
  PROVE  LocksInv'
<1>1. LockedRefresh'
  BY DEF LocksInv, LockedRefresh, Yields
<1>2. ASSUME NEW s \in Sessions
      PROVE  /\ IsFiniteSet(Holders(s))'
             /\ (Cardinality(Holders(s)) <= faults + (IF s \in lock THEN 1 ELSE 0))'
  <2>1. /\ IsFiniteSet(Holders(s)) /\ faults \in Nat
        /\ Cardinality(Holders(s)) <= faults + (IF s \in lock THEN 1 ELSE 0)
    BY <1>2 DEF LocksInv, LocksCounted, SessionsTypeOK
  <2>2. Holders(s)' \subseteq Holders(s)
    BY DEF Holders, Yields
  <2>3. IsFiniteSet(Holders(s)') /\ Cardinality(Holders(s)') <= Cardinality(Holders(s))
    BY <2>1, <2>2, FS_Subset
  <2>4. Cardinality(Holders(s)) \in Nat /\ Cardinality(Holders(s)') \in Nat
    BY <2>1, <2>3, FS_CardinalityType
  <2>5. CASE (s \in lock => s \in lock') \/ faults' = faults + 1
    BY <2>1, <2>3, <2>4, <2>5
  <2>6. CASE s \in lock \ lock' /\ faults' = faults
    <3>1. PICK x \in Handlers : at[x].locked /\ at[x].sess = s /\ ~at'[x].locked
      BY <2>1, <2>6
    <3>2. x \in Holders(s) /\ Holders(s)' \subseteq Holders(s) \ {x}
      BY <2>2, <3>1 DEF Holders
    <3>3. IsFiniteSet(Holders(s) \ {x}) /\ Cardinality(Holders(s) \ {x}) = Cardinality(Holders(s)) - 1
      BY <2>1, <3>2, FS_RemoveElement
    <3>4. Cardinality(Holders(s)') <= Cardinality(Holders(s) \ {x})
      BY <3>2, <3>3, FS_Subset
    <3> QED
      BY <2>1, <2>3, <2>4, <2>6, <3>3, <3>4
  <2> QED
    BY <2>3, <2>5, <2>6
<1> QED
  BY <1>1, <1>2 DEF LocksInv, LocksCounted

\* The lock is taken: it was free, so whoever thinks to hold it lost it.
LEMMA LockKeeps ==
  ASSUME SessionsTypeOK, LocksInv, NEW x \in Handlers, LockRefresh(x), at[x].sess \notin lock
  PROVE  LocksInv'
<1>0. PICK s : s = at[x].sess
  OBVIOUS
<1> DEFINE row == [at[x] EXCEPT !.pc = "refresh", !.locked = TRUE]
<1>1. /\ at \in [Actors -> ActorRow] /\ faults \in Nat /\ at[x] \in ActorRow
      /\ lock' = lock \cup {s} /\ s \notin lock /\ faults' = faults /\ Hold(x, row)
  BY <1>0 DEF LockRefresh, SessionsTypeOK
<1>2. row.pc = "refresh" /\ row.locked /\ row.sess = s
  BY <1>0, <1>1 DEF ActorRow
<1> HIDE DEF row
<1>3. at'[x] = row /\ \A y \in Handlers : y # x => at'[y] = at[y]
  BY <1>1 DEF Hold
<1>4. LockedRefresh'
  BY <1>2, <1>3 DEF LocksInv, LockedRefresh
<1>5. ASSUME NEW t \in Sessions
      PROVE  /\ IsFiniteSet(Holders(t))'
             /\ (Cardinality(Holders(t)) <= faults + (IF t \in lock THEN 1 ELSE 0))'
  <2>1. /\ IsFiniteSet(Holders(t))
        /\ Cardinality(Holders(t)) <= faults + (IF t \in lock THEN 1 ELSE 0)
    BY <1>5 DEF LocksInv, LocksCounted
  <2>2. Cardinality(Holders(t)) \in Nat
    BY <2>1, FS_CardinalityType
  <2>3. CASE t = s
    <3>1. Holders(t)' \subseteq Holders(t) \cup {x}
      BY <1>3 DEF Holders
    <3>2. /\ IsFiniteSet(Holders(t) \cup {x})
          /\ Cardinality(Holders(t) \cup {x}) \in {Cardinality(Holders(t)), Cardinality(Holders(t)) + 1}
      BY <2>1, FS_AddElement
    <3>3. IsFiniteSet(Holders(t)') /\ Cardinality(Holders(t)') <= Cardinality(Holders(t) \cup {x})
      BY <3>1, <3>2, FS_Subset
    <3>4. Cardinality(Holders(t)') \in Nat
      BY <3>3, FS_CardinalityType
    <3> QED
      BY <1>1, <2>1, <2>2, <2>3, <3>2, <3>3, <3>4
  <2>4. CASE t # s
    <3>1. Holders(t)' \subseteq Holders(t)
      BY <1>2, <1>3, <2>4 DEF Holders
    <3>2. IsFiniteSet(Holders(t)') /\ Cardinality(Holders(t)') <= Cardinality(Holders(t))
      BY <2>1, <3>1, FS_Subset
    <3>3. Cardinality(Holders(t)') \in Nat
      BY <3>2, FS_CardinalityType
    <3> QED
      BY <1>1, <2>1, <2>2, <2>4, <3>2, <3>3
  <2> QED
    BY <2>3, <2>4
<1> QED
  BY <1>4, <1>5 DEF LocksInv, LocksCounted

\* A step of one request, with its new row.
LEMMA RowYields ==
  ASSUME SessionsTypeOK, LocksInv, NEW x \in Handlers, NEW row, Hold(x, row), Yields(at[x], row),
         faults' \in {faults, faults + 1}, lock' = lock
  PROVE  LocksInv'
<1>1. at'[x] = row /\ \A y \in Handlers : y # x => at'[y] = at[y]
  BY DEF SessionsTypeOK, Hold
<1>2. \A y \in Handlers : Yields(at[y], at'[y])
  BY <1>1 DEF Yields
<1> QED
  BY <1>2, YieldKeeps

\* The end of a request, or its next place.
LEMMA GoYields ==
  ASSUME SessionsTypeOK, LocksInv, NEW x \in Handlers, NEW p, Go(x, p),
         p \in Refreshing => at[x].pc \in Refreshing,
         faults' \in {faults, faults + 1}, lock' = lock
  PROVE  LocksInv'
<1>1. at[x] \in ActorRow
  BY DEF SessionsTypeOK
<1>2. CASE p \in {"idle", "done"}
  <2> DEFINE row == [Idle EXCEPT !.pc = p]
  <2>1. Hold(x, row) /\ ~row.locked /\ row.pc \notin Refreshing
    BY <1>2 DEF Go, Idle, Refreshing
  <2> HIDE DEF row
  <2> QED
    BY <2>1, RowYields DEF Yields
<1>3. CASE p \notin {"idle", "done"}
  <2> DEFINE row == [at[x] EXCEPT !.pc = p]
  <2>1. Hold(x, row) /\ row.locked = at[x].locked /\ row.sess = at[x].sess /\ row.pc = p
    BY <1>1, <1>3 DEF Go, ActorRow
  <2> HIDE DEF row
  <2> QED
    BY <2>1, RowYields DEF Yields
<1> QED
  BY <1>2, <1>3

\* Steps of others than requests.
LEMMA OthersYield ==
  ASSUME SessionsTypeOK, LocksInv, \A y \in Handlers : at'[y] = at[y],
         faults' \in {faults, faults + 1}, \A s \in lock \ lock' : faults' = faults + 1
  PROVE  LocksInv'
<1>1. \A y \in Handlers : Yields(at[y], at'[y])
  BY DEF Yields
<1> QED
  BY <1>1, YieldKeeps

\* A request that signs in or reads its session holds no lock yet.
LEMMA BeginYields ==
  ASSUME SessionsTypeOK, LocksInv, NEW x \in Handlers, SignIn(x) \/ ReadSession(x)
  PROVE  LocksInv'
<1>1. PICK row : Hold(x, row) /\ ~row.locked /\ row.pc \notin Refreshing
  <2>1. CASE SignIn(x)
    <3>1. PICK s \in Sessions, p \in sso :
            Hold(x, [Idle EXCEPT !.pc = "store", !.sess = s,
                                 !.copy = [sid |-> p, rt |-> 1, due |-> FALSE]])
      BY <2>1 DEF SignIn
    <3> DEFINE row == [Idle EXCEPT !.pc = "store", !.sess = s,
                                   !.copy = [sid |-> p, rt |-> 1, due |-> FALSE]]
    <3>2. Hold(x, row) /\ ~row.locked /\ row.pc \notin Refreshing
      BY <3>1 DEF Idle, Refreshing
    <3> HIDE DEF row
    <3> QED
      BY <3>2
  <2>2. CASE ReadSession(x)
    <3>1. PICK s \in Sessions :
            Hold(x, [Idle EXCEPT !.pc = "check", !.sess = s, !.copy = store[s],
                                 !.late = device[s].revoked])
      BY <2>2 DEF ReadSession
    <3> DEFINE row == [Idle EXCEPT !.pc = "check", !.sess = s, !.copy = store[s],
                                   !.late = device[s].revoked]
    <3>2. Hold(x, row) /\ ~row.locked /\ row.pc \notin Refreshing
      BY <3>1 DEF Idle, Refreshing
    <3> HIDE DEF row
    <3> QED
      BY <3>2
  <2> QED
    BY <2>1, <2>2
<1>2. faults' = faults /\ lock' = lock
  BY DEF SignIn, ReadSession
<1> QED
  BY <1>1, <1>2, RowYields DEF Yields

\* Steps that only go on.
Going(x) ==
  \/ SignInWrites(x) \/ ReplaceSession(x) \/ UndoSignIn(x)
  \/ CheckDevice(x) \/ RefreshLost(x) \/ DropSession(x) \/ Save(x) \/ SaveFails(x)
  \/ LogoutProvider(x) \/ LogoutProviderFails(x) \/ DeleteKey(x) \/ RevokeFails(x) \/ Crash(x)
LEMMA GoingYields ==
  ASSUME SessionsTypeOK, LocksInv, NEW x \in Handlers, Going(x) PROVE LocksInv'
<1>1. faults' \in {faults, faults + 1} /\ lock' = lock
  BY DEF Going, SignInWrites, StoreSession, IndexSession, RegisterDevice, SignInFails, ReplaceSession,
     UndoSignIn, CheckDevice, RefreshLost,
     DropSession, Save, SaveFails, LogoutProvider, LogoutProviderFails, DeleteKey, RevokeFails,
     Crash, Fault
<1> DEFINE Next(p) == Go(x, p) /\ (p \in Refreshing => at[x].pc \in Refreshing)
<1>2. PICK p : Next(p)
  <2>1. CASE SignInWrites(x) \/ ReplaceSession(x) \/ UndoSignIn(x)
    <3>1. Next("index") \/ Next("device") \/ Next("replace") \/ Next("undo") \/ Next("done")
      BY <2>1 DEF SignInWrites, StoreSession, IndexSession, RegisterDevice, SignInFails, ReplaceSession,
         UndoSignIn, Refreshing
    <3> QED
      BY <3>1
  <2>2. CASE CheckDevice(x)
    <3>1. Next("done") \/ Next("lock") \/ Next("handle")
      BY <2>2 DEF CheckDevice, Refreshing
    <3> QED
      BY <3>1
  <2>3. CASE RefreshLost(x) \/ DropSession(x) \/ Save(x) \/ SaveFails(x)
    <3>1. Next("drop") \/ Next("unlock") \/ Next("handle")
      BY <2>3 DEF RefreshLost, DropSession, Save, SaveFails, Refreshing
    <3> QED
      BY <3>1
  <2>4. CASE LogoutProvider(x) \/ LogoutProviderFails(x) \/ DeleteKey(x) \/ RevokeFails(x) \/ Crash(x)
    <3>1. Next("del") \/ Next("revoke") \/ Next("unlock") \/ Next("idle") \/ Next("done")
      BY <2>4 DEF LogoutProvider, LogoutProviderFails, DeleteKey, RevokeFails, Crash, Refreshing
    <3> QED
      BY <3>1
  <2> QED
    BY <2>1, <2>2, <2>3, <2>4 DEF Going
<1> QED
  BY <1>1, <1>2, GoYields

\* Steps that take up something.
LEMMA HoldingYields ==
  ASSUME SessionsTypeOK, LocksInv, NEW x \in Handlers,
         Refresh(x) \/ Handle(x) \/ Logout(x) \/ RevokeRow(x) \/ FetchTokens(x)
  PROVE  LocksInv'
<1>1. faults' = faults /\ lock' = lock /\ at[x] \in ActorRow
  BY DEF Refresh, Handle, Logout, RevokeRow, FetchTokens, SessionsTypeOK
<1>2. ASSUME NEW copy, at[x].pc = "refresh", Hold(x, [at[x] EXCEPT !.pc = "save", !.copy = copy])
      PROVE  LocksInv'
  <2> DEFINE row == [at[x] EXCEPT !.pc = "save", !.copy = copy]
  <2>1. Hold(x, row) /\ row.locked = at[x].locked /\ row.sess = at[x].sess
    BY <1>1, <1>2 DEF ActorRow
  <2> HIDE DEF row
  <2> QED
    BY <1>1, <1>2, <2>1, RowYields DEF Yields, Refreshing
<1>3. ASSUME NEW todo, Hold(x, [at[x] EXCEPT !.pc = "revoke", !.todo = todo]) PROVE LocksInv'
  <2> DEFINE row == [at[x] EXCEPT !.pc = "revoke", !.todo = todo]
  <2>1. Hold(x, row) /\ row.locked = at[x].locked /\ row.sess = at[x].sess /\ row.pc = "revoke"
    BY <1>1, <1>3 DEF ActorRow
  <2> HIDE DEF row
  <2> QED
    BY <1>1, <2>1, RowYields DEF Yields, Refreshing
<1>4. ASSUME NEW s, Hold(x, [at[x] EXCEPT !.pc = "del", !.cur = s]) PROVE LocksInv'
  <2> DEFINE row == [at[x] EXCEPT !.pc = "del", !.cur = s]
  <2>1. Hold(x, row) /\ row.locked = at[x].locked /\ row.sess = at[x].sess /\ row.pc = "del"
    BY <1>1, <1>4 DEF ActorRow
  <2> HIDE DEF row
  <2> QED
    BY <1>1, <2>1, RowYields DEF Yields, Refreshing
<1>5. ASSUME NEW t, Hold(x, [at[x] EXCEPT !.pc = "fetch", !.cur = t, !.todo = @ \ {t}])
      PROVE  LocksInv'
  <2> DEFINE row == [at[x] EXCEPT !.pc = "fetch", !.cur = t, !.todo = @ \ {t}]
  <2>1. Hold(x, row) /\ row.locked = at[x].locked /\ row.sess = at[x].sess /\ row.pc = "fetch"
    BY <1>1, <1>5 DEF ActorRow
  <2> HIDE DEF row
  <2> QED
    BY <1>1, <2>1, RowYields DEF Yields, Refreshing
<1>6. ASSUME NEW p \in {"del", "provider"}, NEW sid, Hold(x, [at[x] EXCEPT !.pc = p, !.csid = sid])
      PROVE  LocksInv'
  <2> DEFINE row == [at[x] EXCEPT !.pc = p, !.csid = sid]
  <2>1. Hold(x, row) /\ row.locked = at[x].locked /\ row.sess = at[x].sess /\ row.pc = p
    BY <1>1, <1>6 DEF ActorRow
  <2> HIDE DEF row
  <2> QED
    BY <1>1, <2>1, RowYields DEF Yields, Refreshing
<1>7. ASSUME NEW p, Go(x, p), p \in Refreshing => at[x].pc \in Refreshing PROVE LocksInv'
  BY <1>1, <1>7, GoYields
<1>8. CASE Refresh(x)
  BY <1>2, <1>7, <1>8 DEF Refresh, Refreshing
<1>9. CASE Handle(x)
  BY <1>3, <1>7, <1>9 DEF Handle, Refreshing
<1>10. CASE Logout(x)
  BY <1>4, <1>10 DEF Logout
<1>11. CASE RevokeRow(x)
  BY <1>5, <1>7, <1>11 DEF RevokeRow, Finished, Refreshing
<1>12. CASE FetchTokens(x)
  <2>1. CASE store[at[x].cur] = None
    BY <1>7, <1>12, <2>1 DEF FetchTokens, Refreshing
  <2>2. CASE store[at[x].cur] # None
    <3>1. PICK p \in {"del", "provider"} :
            Hold(x, [at[x] EXCEPT !.pc = p, !.csid = store[at[x].cur].sid])
      BY <1>12, <2>2 DEF FetchTokens
    <3> QED
      BY <1>6, <3>1
  <2> QED
    BY <2>1, <2>2
<1> QED
  BY <1>8, <1>9, <1>10, <1>11, <1>12

\* The lock is given back by one who thinks to hold it, or stays.
LEMMA UnlockYields ==
  ASSUME SessionsTypeOK, LocksInv, NEW x \in Handlers, Unlock(x) PROVE LocksInv'
<1> DEFINE row == [Idle EXCEPT !.pc = "done"]
<1>1. Hold(x, row) /\ ~row.locked /\ row.pc \notin Refreshing
  BY DEF Unlock, Go, Idle, Refreshing
<1> HIDE DEF row
<1>2. at'[x] = row /\ \A y \in Handlers : y # x => at'[y] = at[y]
  BY <1>1 DEF SessionsTypeOK, Hold
<1>3. \A y \in Handlers : Yields(at[y], at'[y])
  BY <1>1, <1>2 DEF Yields
<1>4. faults' \in {faults, faults + 1}
      /\ \A s \in lock \ lock' : at[x].locked /\ at[x].sess = s /\ ~at'[x].locked
  BY <1>1, <1>2 DEF Unlock, Fault
<1> QED
  BY <1>3, <1>4, YieldKeeps

\* The worker, the deliveries, time and Keycloak take part in no refresh.
LEMMA BystandersYield ==
  ASSUME SessionsTypeOK, LocksInv,
         \/ ListRevoked \/ RevokeStep(Worker) \/ Crash(Worker)
         \/ \E x \in Deliveries : DeliveryStep(x)
         \/ \E s \in Sessions : Due(s) \/ Expire(s) \/ LockExpires(s)
         \/ \E p \in Sids : ProviderEnds(p)
         \/ UNCHANGED sessionVars
  PROVE  LocksInv'
<1>1. ASSUME NEW x \in {Worker} \cup Deliveries, NEW row, Hold(x, row)
      PROVE  \A y \in Handlers : at'[y] = at[y]
  BY <1>1 DEF SessionsTypeOK, Hold
<1>2. ASSUME NEW x \in {Worker} \cup Deliveries, NEW p, Go(x, p)
      PROVE  \A y \in Handlers : at'[y] = at[y]
  BY <1>1, <1>2 DEF Go
<1>3. CASE ListRevoked \/ RevokeStep(Worker) \/ Crash(Worker)
  <2>1. faults' \in {faults, faults + 1} /\ lock' = lock
    BY <1>3 DEF ListRevoked, RevokeStep, RevokeRow, FetchTokens, LogoutProvider, DeleteKey,
       LogoutProviderFails, RevokeFails, Crash, Fault
  <2>2. \A y \in Handlers : at'[y] = at[y]
    BY <1>1, <1>2, <1>3 DEF ListRevoked, RevokeStep, RevokeRow, FetchTokens, LogoutProvider, DeleteKey,
       LogoutProviderFails, RevokeFails, Crash
  <2> QED
    BY <2>1, <2>2, OthersYield
<1>4. ASSUME NEW x \in Deliveries, DeliveryStep(x) PROVE LocksInv'
  <2>1. faults' \in {faults, faults + 1} /\ lock' = lock
    BY <1>4 DEF DeliveryStep, ReceiveLogout, ListSessions, ScanSession, MarkDevice, CleanSession,
       LeaveIndex, LogoutFails, Fault
  <2>2. \A y \in Handlers : at'[y] = at[y]
    BY <1>1, <1>2, <1>4 DEF DeliveryStep, ReceiveLogout, ListSessions, ScanSession, MarkDevice,
       CleanSession, LeaveIndex, LogoutFails
  <2> QED
    BY <2>1, <2>2, OthersYield
<1>5. CASE \/ \E s \in Sessions : Due(s) \/ Expire(s) \/ LockExpires(s)
           \/ \E p \in Sids : ProviderEnds(p)
  BY <1>5, OthersYield DEF Due, Expire, LockExpires, ProviderEnds, Fault
<1>6. CASE UNCHANGED sessionVars
  BY <1>6, OthersYield DEF sessionVars
<1> QED
  BY <1>3, <1>4, <1>5, <1>6

\* Locks and failures account for whoever refreshes.
THEOREM LocksInvariance == SessionsSpec => []LocksInv
<1>1. SessionsInit => LocksInv
  <2> SUFFICES ASSUME SessionsInit PROVE LocksInv
    OBVIOUS
  <2>1. \A x \in Handlers : ~at[x].locked /\ at[x].pc = "idle"
    BY DEF SessionsInit, Idle
  <2>2. \A s \in Sessions : Holders(s) = {}
    BY <2>1 DEF Holders
  <2>3. LocksCounted
    <3>1. IsFiniteSet({}) /\ Cardinality({}) = 0
      BY FS_EmptySet
    <3>2. faults = 0 /\ lock = {}
      BY DEF SessionsInit
    <3>3. ASSUME NEW s \in Sessions
          PROVE  /\ IsFiniteSet(Holders(s))
                 /\ Cardinality(Holders(s)) <= faults + (IF s \in lock THEN 1 ELSE 0)
      BY <2>2, <3>1, <3>2
    <3> QED
      BY <3>3 DEF LocksCounted
  <2>4. LockedRefresh
    BY <2>1 DEF LockedRefresh, Refreshing
  <2> QED
    BY <2>3, <2>4 DEF LocksInv
<1>2. SessionsTypeOK /\ LocksInv /\ [SessionsNext]_sessionVars => LocksInv'
  <2> SUFFICES ASSUME SessionsTypeOK, LocksInv, [SessionsNext]_sessionVars PROVE LocksInv'
    OBVIOUS
  <2>1. ASSUME NEW x \in Handlers, SignInStep(x) \/ RequestStep(x) \/ RevokeStep(x) \/ Crash(x)
        PROVE  LocksInv'
    <3>1. CASE LockRefresh(x) /\ at[x].sess \in lock
      BY <3>1, GoYields DEF LockRefresh, Refreshing
    <3>2. CASE LockRefresh(x) /\ at[x].sess \notin lock
      BY <3>2, LockKeeps
    <3> QED
      BY <2>1, <3>1, <3>2, BeginYields, GoingYields, HoldingYields, UnlockYields
         DEF SignInStep, SignInWrites, RequestStep, RefreshStep, RevokeStep, Going
  <2> QED
    BY <2>1, BystandersYield DEF SessionsNext
<1> QED
  BY <1>1, <1>2, SessionsTypeCorrect, PTL DEF SessionsSpec

\* A session is refreshed by one request, and one more for each lock that was
\* lost (refreshSession), however late the holders give it back.
THEOREM RefreshesBounded == SessionsSpec => []RefreshExclusive
<1>1. SessionsTypeOK /\ LocksInv => RefreshExclusive
  <2> SUFFICES ASSUME SessionsTypeOK, LocksInv, NEW s \in Sessions
               PROVE  Cardinality({x \in Handlers : at[x].sess = s /\ at[x].pc \in Refreshing})
                        <= 1 + faults
    BY DEF RefreshExclusive, Refreshing
  <2> DEFINE R == {x \in Handlers : at[x].sess = s /\ at[x].pc \in Refreshing}
  <2>1. R \subseteq Holders(s)
    BY DEF LocksInv, LockedRefresh, Holders
  <2>2. /\ IsFiniteSet(Holders(s)) /\ faults \in Nat
        /\ Cardinality(Holders(s)) <= faults + (IF s \in lock THEN 1 ELSE 0)
    BY DEF LocksInv, LocksCounted, SessionsTypeOK
  <2>3. IsFiniteSet(R) /\ Cardinality(R) <= Cardinality(Holders(s))
    BY <2>1, <2>2, FS_Subset
  <2>4. Cardinality(R) \in Nat /\ Cardinality(Holders(s)) \in Nat
    BY <2>2, <2>3, FS_CardinalityType
  <2> QED
    BY <2>2, <2>3, <2>4
<1> QED
  BY <1>1, SessionsTypeCorrect, LocksInvariance, PTL
=============================================================================
