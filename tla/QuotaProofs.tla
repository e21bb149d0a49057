---------------------------- MODULE QuotaProofs ----------------------------
(***************************************************************************)
(* The safety of admission, for every number of accounts, applications,    *)
(* requests and calls: IInv is inductive.                                  *)
(*                                                                         *)
(* First the types: what a step stores is well typed because a transaction *)
(* carries what its place needs (RequestShape, CallShape), so that the     *)
(* induction is over the three together.                                   *)
(*                                                                         *)
(* The rest is an argument of isolation.  A step of transaction x writes   *)
(* only rows that x has locked (Isolated), so whatever any other           *)
(* transaction knows of the rows it holds stays true (OthersKeep); what is *)
(* left is to show each action's isolation and what x itself knows after   *)
(* the step.                                                               *)
(***************************************************************************)
EXTENDS QuotaInvariant, FiniteSetTheorems, TLAPS

-----------------------------------------------------------------------------
\* Types.  One lemma per group of actions, one step per action.

USE ConstantsAssumption, DatabaseAssumption, QuotaAssumption

Shapes == TypeOK /\ RequestShape /\ CallShape

OpOK(o)   == o \in OpRow /\ RequestShaped(o)
CallOK(k) == k \in CallRow /\ CallShaped(k)

\* The step of one request, or of one call, touches no other.
OpStep(r)   == op' = [op EXCEPT ![r] = op'[r]] /\ OpOK(op'[r])
CallStep(c) == call' = [call EXCEPT ![c] = call'[c]] /\ CallOK(call'[c])

\* The database and the locks keep their types.
RowTypes ==
  /\ user \in [Users -> UserRow]
  /\ token \in [Tokens -> TokenRow]
  /\ policy \in Policies
LockTypes ==
  /\ userLock \in [Users -> Tx \cup {None}]
  /\ tokenLock \in [Tokens -> Tx \cup {None}]

\* The initial database is well typed and nobody is in a transaction.
LEMMA InitShapes == Init => Shapes
<1>1. 1 \in Days
  BY DEF Days
<1>2. IdleOp \in OpRow
  BY DEF IdleOp, OpRow
<1>3. NewCall \in CallRow
  BY DEF NewCall, CallRow
<1>4. Init => TypeOK
  BY <1>1, <1>2, <1>3 DEF Init, AccountsInit, TypeOK
<1>5. RequestShaped(IdleOp) /\ CallShaped(NewCall)
  BY DEF RequestShaped, CallShaped, IdleOp, NewCall
<1> QED
  BY <1>4, <1>5 DEF Init, AccountsInit, Shapes, RequestShape, CallShape

\* Giving back every row of a transaction keeps the lock tables well typed.
LEMMA ReleaseTypes ==
  ASSUME TypeOK, NEW x \in Tx, Release(x)
  PROVE  LockTypes'
  BY DEF TypeOK, Release, Freed, LockTypes

\* A step of a request alone keeps the request table well shaped.
LEMMA OpStepShapes ==
  ASSUME Shapes, NEW r \in Requests, OpStep(r), RowTypes', LockTypes', UNCHANGED quotaVars
  PROVE  Shapes'
<1>1. op' \in [Requests -> OpRow] /\ RequestShape'
  BY DEF Shapes, TypeOK, OpStep, OpOK, RequestShape
<1>2. CallShape'
  BY DEF Shapes, CallShape, quotaVars
<1> QED
  BY <1>1, <1>2 DEF Shapes, TypeOK, quotaVars, RowTypes, LockTypes

\* A step of a call alone keeps the call table well shaped.
LEMMA CallStepShapes ==
  ASSUME Shapes, NEW c \in Calls, CallStep(c)
  PROVE  call' \in [Calls -> CallRow] /\ CallShape'
  BY DEF Shapes, TypeOK, CallStep, CallOK, CallShape

\* A finished request carries nothing.
LEMMA FinishShapes ==
  ASSUME Shapes, NEW r \in Requests, Finish(r)
  PROVE  OpStep(r) /\ LockTypes' /\ op'[r].pc = "done"
<1> DEFINE o == [IdleOp EXCEPT !.pc = "done", !.kind = op[r].kind]
<1>1. op' = [op EXCEPT ![r] = o] /\ LockTypes'
  BY ReleaseTypes DEF Finish, Shapes, Tx
<1>2. OpOK(o)
  BY DEF Shapes, TypeOK, OpRow, IdleOp, OpOK, RequestShaped
<1> QED
  BY <1>1, <1>2 DEF OpStep, Shapes, TypeOK, IdleOp

\* What a request carries when its handler enters the transaction.
LEMMA BeginKeeps ==
  ASSUME Shapes, NEW r \in Requests, BeginRequest(r)
  PROVE  /\ OpStep(r)
         /\ op[r].pc = "idle" /\ op'[r].pc \in {"user", "token"}
         /\ op'[r].pc = "token" => op'[r].kind = "regulate"
         /\ UNCHANGED <<rows, locks>>
<1> USE DEF Shapes, TypeOK, OpStep
<1>1. CASE BeginOwn(r)
  <2>1. PICK k \in Kinds \cap OwnerKinds, u \in Users, t \in Tokens \cup {None} :
          /\ k = "create" <=> t = None
          /\ op' = [op EXCEPT ![r] = [IdleOp EXCEPT !.pc = Then(k, "idle"), !.kind = k,
                !.actor = u, !.user = u, !.token = t,
                !.cap = user[u].daily, !.seen = policy]]
    BY <1>1 DEF BeginOwn
  <2>2. Then(k, "idle") = "user"
    BY DEF Then, OwnerKinds
  <2> DEFINE o == [IdleOp EXCEPT !.pc = Then(k, "idle"), !.kind = k,
                !.actor = u, !.user = u, !.token = t,
                !.cap = user[u].daily, !.seen = policy]
  <2>3. o \in OpRow
    BY <2>2 DEF OpRow, IdleOp, OwnerKinds, AllKinds, UserRow
  <2>4. RequestShaped(o)
    BY <2>1, <2>2 DEF RequestShaped, IdleOp, OwnerKinds, AllKinds, TokenKinds
  <2>5. op[r].pc = "idle" /\ UNCHANGED <<rows, locks>>
    BY <1>1 DEF BeginOwn
  <2>6. o.pc = "user"
    BY <2>2 DEF IdleOp
  <2>7. op' = [op EXCEPT ![r] = o] /\ op'[r] = o
    BY <2>1
  <2> HIDE DEF o
  <2> QED BY <2>3, <2>4, <2>5, <2>6, <2>7 DEF OpOK
<1>2. CASE BeginRegulate(r)
  <2>1. PICK t \in Tokens :
          op' = [op EXCEPT ![r] = [IdleOp EXCEPT !.pc = Then("regulate", "idle"),
                   !.kind = "regulate", !.token = t]]
    BY <1>2 DEF BeginRegulate
  <2> DEFINE o == [IdleOp EXCEPT !.pc = Then("regulate", "idle"),
                !.kind = "regulate", !.token = t]
  <2>2. Then("regulate", "idle") = "token"
    BY DEF Then
  <2>3. OpOK(o)
    BY <2>2 DEF OpRow, IdleOp, RequestShaped, OpOK, TokenKinds, OwnerKinds, AllKinds
  <2>5. op[r].pc = "idle" /\ UNCHANGED <<rows, locks>>
    BY <1>2 DEF BeginRegulate
  <2>6. o.pc = "token" /\ o.kind = "regulate"
    BY <2>2 DEF IdleOp
  <2>7. op' = [op EXCEPT ![r] = o] /\ op'[r] = o
    BY <2>1
  <2> HIDE DEF o
  <2> QED BY <2>3, <2>5, <2>6, <2>7
<1>3. CASE BeginUpdateUser(r)
  <2>1. PICK a \in Users, u \in Users :
          op' = [op EXCEPT ![r] = [IdleOp EXCEPT !.pc = Then("updateUser", "idle"),
                   !.kind = "updateUser", !.actor = a, !.user = u, !.seen = policy]]
    BY <1>3 DEF BeginUpdateUser
  <2> DEFINE o == [IdleOp EXCEPT !.pc = Then("updateUser", "idle"),
                   !.kind = "updateUser", !.actor = a, !.user = u, !.seen = policy]
  <2>2. Then("updateUser", "idle") = "user"
    BY DEF Then
  <2>3. OpOK(o)
    BY <2>2 DEF OpRow, IdleOp, RequestShaped, OpOK, TokenKinds, OwnerKinds, AllKinds
  <2>5. op[r].pc = "idle" /\ UNCHANGED <<rows, locks>>
    BY <1>3 DEF BeginUpdateUser
  <2>6. o.pc = "user"
    BY <2>2 DEF IdleOp
  <2>7. op' = [op EXCEPT ![r] = o] /\ op'[r] = o
    BY <2>1
  <2> HIDE DEF o
  <2> QED BY <2>3, <2>5, <2>6, <2>7
<1>4. CASE BeginSignIn(r)
  <2>1. PICK u \in Users :
          op' = [op EXCEPT ![r] = [IdleOp EXCEPT !.pc = Then("signIn", "idle"),
                   !.kind = "signIn", !.user = u, !.seen = policy]]
    BY <1>4 DEF BeginSignIn
  <2> DEFINE o == [IdleOp EXCEPT !.pc = Then("signIn", "idle"),
                   !.kind = "signIn", !.user = u, !.seen = policy]
  <2>2. Then("signIn", "idle") = "user"
    BY DEF Then
  <2>3. OpOK(o)
    BY <2>2 DEF OpRow, IdleOp, RequestShaped, OpOK, TokenKinds, OwnerKinds, AllKinds
  <2>5. op[r].pc = "idle" /\ UNCHANGED <<rows, locks>>
    BY <1>4 DEF BeginSignIn
  <2>6. o.pc = "user"
    BY <2>2 DEF IdleOp
  <2>7. op' = [op EXCEPT ![r] = o] /\ op'[r] = o
    BY <2>1
  <2> HIDE DEF o
  <2> QED BY <2>3, <2>5, <2>6, <2>7
<1> QED
  BY <1>1, <1>2, <1>3, <1>4 DEF BeginRequest

\* A request takes its account row.
LEMMA LockUserKeeps ==
  ASSUME Shapes, NEW r \in Requests, LockUserRow(r)
  PROVE  OpStep(r) /\ LockTypes'
<1> DEFINE o == [op[r] EXCEPT !.pc = Then(op[r].kind, "user")]
<1>1. op' = [op EXCEPT ![r] = o] /\ op[r].pc = "user" /\ RequestShaped(op[r]) /\ op[r] \in OpRow
  BY DEF LockUserRow, Shapes, TypeOK, RequestShape
<1>2. op[r].kind \in AllKinds \ {"regulate"} /\ op[r].user \in Users
  BY <1>1 DEF RequestShaped
<1>3. /\ Then(op[r].kind, "user") \in {"count", "token", "write"}
      /\ Then(op[r].kind, "user") = "count" => op[r].kind = "create"
      /\ Then(op[r].kind, "user") = "token" <=> op[r].kind \in TokenKinds
  BY <1>2 DEF Then, AllKinds, OwnerKinds, TokenKinds
<1>4. o \in OpRow
  BY <1>1, <1>3 DEF OpRow
<1>5. RequestShaped(o)
  BY <1>1, <1>2, <1>3 DEF RequestShaped, OpRow
<1>6. LockTypes'
  BY DEF LockUserRow, Shapes, TypeOK, LockTypes, Tx
<1> QED
  BY <1>1, <1>4, <1>5, <1>6 DEF OpStep, OpOK, Shapes, TypeOK

\* A request takes its application row and keeps a copy of it.
LEMMA LockTokenKeeps ==
  ASSUME Shapes, NEW r \in Requests, LockTokenRow(r)
  PROVE  OpStep(r) /\ LockTypes'
<1> DEFINE o == [op[r] EXCEPT !.pc = Then(op[r].kind, "token"), !.row = token[op[r].token]]
<1>1. op' = [op EXCEPT ![r] = o] /\ op[r].pc = "token" /\ RequestShaped(op[r]) /\ op[r] \in OpRow
  BY DEF LockTokenRow, Shapes, TypeOK, RequestShape
<1>2. op[r].kind \in TokenKinds /\ op[r].token \in Tokens /\ token[op[r].token] \in TokenRow
  BY <1>1 DEF RequestShaped, Shapes, TypeOK
<1>3. Then(op[r].kind, "token") = "write"
  BY DEF Then
<1>4. o \in OpRow
  BY <1>1, <1>2, <1>3 DEF OpRow
<1>5. RequestShaped(o)
  BY <1>1, <1>2, <1>3 DEF RequestShaped, OpRow
<1>6. LockTypes'
  BY DEF LockTokenRow, Shapes, TypeOK, LockTypes, Tx
<1> QED
  BY <1>1, <1>4, <1>5, <1>6 DEF OpStep, OpOK, Shapes, TypeOK

\* createToken counts a finite set of applications.
LEMMA CountAppsKeeps ==
  ASSUME Shapes, NEW r \in Requests, CountApps(r)
  PROVE  OpStep(r)
<1> DEFINE n == Cardinality(AppsOf(op[r].user))
           o == [op[r] EXCEPT !.pc = Then(op[r].kind, "count"), !.apps = n]
<1>1. op' = [op EXCEPT ![r] = o] /\ op[r].pc = "count" /\ RequestShaped(op[r]) /\ op[r] \in OpRow
  BY DEF CountApps, Shapes, TypeOK, RequestShape
<1>2. op[r].kind = "create"
  BY <1>1 DEF RequestShaped
<1>3. Then(op[r].kind, "count") = "write"
  BY DEF Then
<1>4. n \in Nat
  <2>1. AppsOf(op[r].user) \in SUBSET Tokens
    BY DEF AppsOf
  <2> QED
    BY <2>1, FS_Subset, FS_CardinalityType, TokensAssumption
<1>5. o \in OpRow
  BY <1>1, <1>3, <1>4 DEF OpRow
<1>6. RequestShaped(o)
  BY <1>1, <1>2, <1>3 DEF RequestShaped, OpRow, TokenKinds
<1> QED
  BY <1>1, <1>5, <1>6 DEF OpStep, OpOK, Shapes, TypeOK

\* A row that replaces a row of the table keeps the table well typed.
LEMMA TokenWrite ==
  ASSUME TypeOK, NEW t \in Tokens, NEW row \in TokenRow, token' = [token EXCEPT ![t] = row]
  PROVE  token' \in [Tokens -> TokenRow]
  BY DEF TypeOK

\* One account row is replaced by another.
LEMMA UserWrite ==
  ASSUME TypeOK, NEW u \in Users, NEW row \in UserRow, user' = [user EXCEPT ![u] = row]
  PROVE  user' \in [Users -> UserRow]
  BY DEF TypeOK

\* What a request writes before it commits is well typed.
LEMMA WriteKeeps ==
  ASSUME Shapes, NEW r \in Requests, WriteRequest(r)
  PROVE  RowTypes' /\ Finish(r) /\ op[r].pc = "write"
<1> USE DEF RowTypes
<1> DEFINE u == op[r].user
           t == op[r].token
<1>0. /\ user \in [Users -> UserRow] /\ token \in [Tokens -> TokenRow]
      /\ policy \in Policies /\ op[r] \in OpRow
  BY DEF Shapes, TypeOK
<1>a. op[r].pc = "write" /\ op[r].kind \in TokenKinds => t \in Tokens /\ token[t] \in TokenRow
  BY <1>0 DEF Shapes, RequestShape, RequestShaped
<1>b. op[r].pc = "write" /\ op[r].kind \in AllKinds \ {"regulate"} => u \in Users /\ user[u] \in UserRow
  BY <1>0 DEF Shapes, RequestShape, RequestShaped
<1>1. CASE WriteCreate(r)
  <2>1. PICK n \in Tokens, g \in Grants, d \in Limits, q \in Quotas, x \in {"never", "ahead"} :
          /\ op[r].pc = "write" /\ op[r].kind = "create"
          /\ token[n].state = "free"
          /\ ValidInput(r, g, d, x)
          /\ token' = [token EXCEPT ![n] =
               [state |-> "live", owner |-> op[r].user, key |-> 1, grant |-> g,
                enabled |-> TRUE, suspended |-> FALSE, revoked |-> FALSE,
                expiry |-> x, daily |-> d, quota |-> q, used |-> 0]]
          /\ Finish(r)
          /\ UNCHANGED <<user, policy>>
    BY <1>1 DEF WriteCreate
  <2> DEFINE w == [state |-> "live", owner |-> op[r].user, key |-> 1, grant |-> g,
         enabled |-> TRUE, suspended |-> FALSE, revoked |-> FALSE,
         expiry |-> x, daily |-> d, quota |-> q, used |-> 0]
  <2>2. w \in TokenRow
    BY <1>b, <2>1 DEF TokenRow, AllKinds, OwnerKinds
  <2>3. token' = [token EXCEPT ![n] = w]
    BY <2>1
  <2> HIDE DEF w
  <2>4. token' \in [Tokens -> TokenRow]
    BY <2>2, <2>3, TokenWrite DEF Shapes
  <2> QED
    BY <1>0, <2>1, <2>4
<1>2. CASE WriteUpdate(r)
  <2>1. PICK g \in Grants, d \in Limits, q \in Quotas, x \in {"never", "ahead"}, on \in BOOLEAN :
          /\ op[r].pc = "write" /\ op[r].kind = "update"
          /\ ValidInput(r, g, d, x)
          /\ UpdateAccepted(r, q)
          /\ token' = [token EXCEPT ![op[r].token] =
               [@ EXCEPT !.grant = g, !.daily = d, !.quota = q, !.expiry = x, !.enabled = on]]
          /\ Finish(r)
          /\ UNCHANGED <<user, policy>>
    BY <1>2 DEF WriteUpdate
  <2> DEFINE w == [token[t] EXCEPT !.grant = g, !.daily = d, !.quota = q, !.expiry = x, !.enabled = on]
  <2>2. t \in Tokens /\ w \in TokenRow
    BY <1>a, <2>1 DEF TokenRow, TokenKinds
  <2>3. token' = [token EXCEPT ![t] = w]
    BY <2>1
  <2> HIDE DEF w
  <2>4. token' \in [Tokens -> TokenRow]
    BY <2>2, <2>3, TokenWrite DEF Shapes
  <2> QED
    BY <1>0, <2>1, <2>4
<1>3. CASE WriteRotate(r)
  <2> DEFINE w == [token[t] EXCEPT !.key = @ + 1]
  <2>2. t \in Tokens /\ w \in TokenRow
    BY <1>a, <1>3 DEF WriteRotate, TokenRow, TokenKinds
  <2>3. token' = [token EXCEPT ![t] = w]
    BY <1>3 DEF WriteRotate
  <2> HIDE DEF w
  <2>4. token' \in [Tokens -> TokenRow]
    BY <2>2, <2>3, TokenWrite DEF Shapes
  <2> QED
    BY <1>0, <1>3, <2>4 DEF WriteRotate
<1>4. CASE WriteDelete(r)
  <2> DEFINE w == [token[t] EXCEPT !.state = "deleted"]
  <2>2. t \in Tokens /\ w \in TokenRow
    BY <1>a, <1>4 DEF WriteDelete, TokenRow, TokenKinds
  <2>3. token' = [token EXCEPT ![t] = w]
    BY <1>4 DEF WriteDelete
  <2> HIDE DEF w
  <2>4. token' \in [Tokens -> TokenRow]
    BY <2>2, <2>3, TokenWrite DEF Shapes
  <2> QED
    BY <1>0, <1>4, <2>4 DEF WriteDelete
<1>5. CASE WriteRegulate(r)
  <2>1. PICK action \in {"suspend", "resume", "revoke"} :
          /\ op[r].pc = "write" /\ op[r].kind = "regulate"
          /\ ~op[r].row.revoked
          /\ token' = [token EXCEPT ![op[r].token] =
               [@ EXCEPT !.suspended = (action # "resume"), !.revoked = (action = "revoke")]]
          /\ Finish(r)
          /\ UNCHANGED <<user, policy>>
    BY <1>5 DEF WriteRegulate
  <2> DEFINE w == [token[t] EXCEPT !.suspended = (action # "resume"), !.revoked = (action = "revoke")]
  <2>2. t \in Tokens /\ w \in TokenRow
    BY <1>a, <2>1 DEF TokenRow, TokenKinds
  <2>3. token' = [token EXCEPT ![t] = w]
    BY <2>1
  <2> HIDE DEF w
  <2>4. token' \in [Tokens -> TokenRow]
    BY <2>2, <2>3, TokenWrite DEF Shapes
  <2> QED
    BY <1>0, <2>1, <2>4
<1>6. CASE WriteUser(r)
  <2>1. PICK on \in BOOLEAN, inherit \in BOOLEAN, d \in Limits :
          /\ op[r].pc = "write" /\ op[r].kind = "updateUser"
          /\ user[u].known
          /\ on \/ op[r].actor # u
          /\ inherit => d = op[r].seen.daily
          /\ user' = [user EXCEPT ![u] =
               [@ EXCEPT !.enabled = on, !.inherit = inherit, !.daily = d]]
          /\ Finish(r)
          /\ UNCHANGED <<token, policy>>
    BY <1>6 DEF WriteUser
  <2> DEFINE w == [user[u] EXCEPT !.enabled = on, !.inherit = inherit, !.daily = d]
  <2>2. u \in Users /\ w \in UserRow
    BY <1>b, <2>1 DEF UserRow, AllKinds
  <2>3. user' = [user EXCEPT ![u] = w]
    BY <2>1
  <2> HIDE DEF w
  <2>4. user' \in [Users -> UserRow]
    BY <2>2, <2>3, UserWrite DEF Shapes
  <2> QED
    BY <1>0, <2>1, <2>4
<1>7. CASE WriteSignIn(r)
  <2> DEFINE w == [known |-> TRUE, enabled |-> TRUE,
                   inherit |-> TRUE, daily |-> op[r].seen.daily]
  <2>1. op[r].seen.daily \in Limits
    BY <1>0 DEF OpRow
  <2>2. u \in Users /\ w \in UserRow
    BY <1>b, <1>7, <2>1 DEF WriteSignIn, UserRow, AllKinds
  <2>3. user' = user \/ user' = [user EXCEPT ![u] = w]
    BY <1>7 DEF WriteSignIn
  <2> HIDE DEF w
  <2>4. user' \in [Users -> UserRow]
    BY <1>0, <2>2, <2>3, UserWrite DEF Shapes
  <2> QED
    BY <1>0, <1>7, <2>4 DEF WriteSignIn
<1> QED
  BY <1>1, <1>2, <1>3, <1>4, <1>5, <1>6, <1>7 DEF WriteRequest

\* Every step of a request.
LEMMA RequestShapes ==
  ASSUME Shapes, NEW r \in Requests,
         BeginRequest(r) \/ AdvanceRequest(r) \/ AbortRequest(r),
         UNCHANGED quotaVars
  PROVE  Shapes'
<1>1. RowTypes /\ LockTypes
  BY DEF Shapes, TypeOK, RowTypes, LockTypes
<1>2. UNCHANGED <<user, token, policy>> => RowTypes'
  BY <1>1 DEF RowTypes
<1>3. UNCHANGED <<userLock, tokenLock>> => LockTypes'
  BY <1>1 DEF LockTypes
<1>4. CASE BeginRequest(r)
  BY <1>2, <1>3, <1>4, BeginKeeps, OpStepShapes DEF rows, locks
<1>5. CASE LockUserRow(r)
  BY <1>2, <1>5, LockUserKeeps, OpStepShapes DEF LockUserRow, rows
<1>6. CASE LockTokenRow(r)
  BY <1>2, <1>6, LockTokenKeeps, OpStepShapes DEF LockTokenRow, rows
<1>7. CASE CountApps(r)
  BY <1>2, <1>3, <1>7, CountAppsKeeps, OpStepShapes DEF CountApps, rows, locks
<1>8. CASE WriteRequest(r)
  BY <1>8, WriteKeeps, FinishShapes, OpStepShapes
<1>9. CASE RejectRequest(r) \/ AbortRequest(r)
  BY <1>2, <1>9, FinishShapes, OpStepShapes DEF RejectRequest, AbortRequest, rows
<1> QED
  BY <1>4, <1>5, <1>6, <1>7, <1>8, <1>9 DEF AdvanceRequest

\* A call that leaves with an answer carries nothing but its outcome.
LEMMA LeaveKeeps ==
  ASSUME Shapes, NEW c \in Calls,
         NEW result \in {"refused", "disabled", "quota", "endpoint", "unavailable", "admitted"},
         NEW pc \in {"upstream", "answer"},
         call' = [call EXCEPT ![c] = [NewCall EXCEPT !.pc = pc, !.result = result]]
  PROVE  CallStep(c) /\ call'[c].pc = pc /\ call'[c].result = result
<1> DEFINE k == [NewCall EXCEPT !.pc = pc, !.result = result]
<1>1. k \in CallRow
  BY DEF NewCall, CallRow
<1>2. CallShaped(k)
  BY DEF CallShaped, NewCall
<1>3. k.pc = pc /\ k.result = result
  BY DEF NewCall
<1> HIDE DEF k
<1>4. call' = [call EXCEPT ![c] = k] /\ call'[c] = k
  BY DEF Shapes, TypeOK, k
<1> QED
  BY <1>1, <1>2, <1>3, <1>4 DEF CallStep, CallOK

\* authenticateAPI fills the credential from a row and its owner.
LEMMA AuthenticateKeeps ==
  ASSUME Shapes, NEW c \in Calls, Authenticate(c)
  PROVE  CallStep(c) /\ call'[c].pc = "authed"
<1>1. PICK t \in Tokens, e \in Endpoints, ip \in Ips :
        /\ ip \in token[t].grant.ips
        /\ user[token[t].owner].known
        /\ call' = [call EXCEPT ![c] = [NewCall EXCEPT !.pc = "authed",
                      !.endpoint = e, !.ip = ip, !.user = token[t].owner, !.token = t,
                      !.key = token[t].key, !.grant = token[t].grant]]
  BY DEF Authenticate
<1> DEFINE k == [NewCall EXCEPT !.pc = "authed",
                   !.endpoint = e, !.ip = ip, !.user = token[t].owner, !.token = t,
                   !.key = token[t].key, !.grant = token[t].grant]
<1>2. token[t].owner \in Users /\ token[t].key \in Nat /\ token[t].grant \in Grants
  BY DEF Shapes, TypeOK, TokenRow
<1>3. k \in CallRow
  BY <1>2 DEF NewCall, CallRow
<1>4. CallShaped(k) /\ k.pc = "authed"
  BY <1>1, <1>2 DEF CallShaped, NewCall
<1>5. call' = [call EXCEPT ![c] = k]
  BY <1>1
<1> HIDE DEF k
<1> QED
  BY <1>3, <1>4, <1>5 DEF CallStep, CallOK, Shapes, TypeOK

\* The endpoint check of gateway only moves the call on.
LEMMA CheckEndpointKeeps ==
  ASSUME Shapes, NEW c \in Calls, CheckEndpoint(c)
  PROVE  CallStep(c) /\ call'[c].pc = "admit"
<1> DEFINE k == [call[c] EXCEPT !.pc = "admit"]
<1>1. call' = [call EXCEPT ![c] = k] /\ call[c].pc = "authed" /\ call[c] \in CallRow /\ CallShaped(call[c])
  BY DEF CheckEndpoint, Shapes, TypeOK, CallShape
<1>2. k \in CallRow
  BY <1>1 DEF CallRow
<1>3. CallShaped(k) /\ k.pc = "admit"
  BY <1>1 DEF CallShaped, CallRow
<1> HIDE DEF k
<1> QED
  BY <1>1, <1>2, <1>3 DEF CallStep, CallOK, Shapes, TypeOK

\* reserve takes the account row and keeps a copy of it.
LEMMA CallLockUserKeeps ==
  ASSUME Shapes, NEW c \in Calls, LockUser(c)
  PROVE  CallStep(c) /\ LockTypes' /\ call'[c].pc = "user"
<1> DEFINE k == [call[c] EXCEPT !.pc = "user", !.urow = user[call[c].user]]
<1>1. call' = [call EXCEPT ![c] = k] /\ call[c].pc = "admit" /\ call[c] \in CallRow /\ CallShaped(call[c])
  BY DEF LockUser, Shapes, TypeOK, CallShape
<1>2. call[c].user \in Users /\ user[call[c].user] \in UserRow
  BY <1>1 DEF CallShaped, Shapes, TypeOK
<1>3. k \in CallRow
  BY <1>1, <1>2 DEF CallRow
<1>4. CallShaped(k) /\ k.pc = "user"
  BY <1>1, <1>2 DEF CallShaped, CallRow
<1>5. LockTypes'
  BY DEF LockUser, Shapes, TypeOK, LockTypes, Tx
<1> HIDE DEF k
<1> QED
  BY <1>1, <1>3, <1>4, <1>5 DEF CallStep, CallOK, Shapes, TypeOK

\* reserve takes the application row and keeps a copy of it.
LEMMA CallLockTokenKeeps ==
  ASSUME Shapes, NEW c \in Calls, LockToken(c)
  PROVE  CallStep(c) /\ LockTypes' /\ call'[c].pc = "token"
<1> DEFINE k == [call[c] EXCEPT !.pc = "token", !.trow = token[call[c].token]]
<1>1. call' = [call EXCEPT ![c] = k] /\ call[c].pc = "user" /\ call[c] \in CallRow /\ CallShaped(call[c])
  BY DEF LockToken, Shapes, TypeOK, CallShape
<1>2. call[c].token \in Tokens /\ token[call[c].token] \in TokenRow
  BY <1>1 DEF CallShaped, Shapes, TypeOK
<1>3. k \in CallRow
  BY <1>1, <1>2 DEF CallRow
<1>4. CallShaped(k) /\ k.pc = "token"
  BY <1>1, <1>2 DEF CallShaped, CallRow
<1>5. LockTypes'
  BY DEF LockToken, Shapes, TypeOK, LockTypes, Tx
<1> HIDE DEF k
<1> QED
  BY <1>1, <1>3, <1>4, <1>5 DEF CallStep, CallOK, Shapes, TypeOK

\* reserve keeps the day and the endpoint limit of its snapshot.
LEMMA CountKeeps ==
  ASSUME Shapes, NEW c \in Calls, Count(c)
  PROVE  CallStep(c) /\ call'[c].pc = "counted"
<1> DEFINE k == [call[c] EXCEPT !.pc = "counted", !.day = day,
                                !.elimit = endpoint[call[c].endpoint].daily]
<1>1. call' = [call EXCEPT ![c] = k] /\ call[c].pc = "token" /\ call[c] \in CallRow /\ CallShaped(call[c])
  BY DEF Count, Shapes, TypeOK, CallShape
<1>2. endpoint[call[c].endpoint].daily \in Limits /\ day \in Days
  BY <1>1 DEF CallShaped, Shapes, TypeOK, EndpointRow
<1>3. k \in CallRow
  BY <1>1, <1>2 DEF CallRow
<1>4. CallShaped(k) /\ k.pc = "counted"
  BY <1>1, <1>2 DEF CallShaped, CallRow
<1> HIDE DEF k
<1> QED
  BY <1>1, <1>3, <1>4 DEF CallStep, CallOK, Shapes, TypeOK

\* What a reservation writes is well typed.
LEMMA WriteChargeTypes ==
  ASSUME Shapes, NEW c \in Calls, call[c].pc = "counted", WriteCharge(c)
  PROVE  /\ usage' \in [Bucket -> [Days -> Nat]]
         /\ token' \in [Tokens -> TokenRow]
         /\ charges' \subseteq Charge
         /\ open' \subseteq Calls
<1>1. /\ call[c].user \in Users /\ call[c].token \in Tokens
      /\ call[c].endpoint \in Endpoints /\ call[c].day \in Days
  BY DEF Shapes, CallShape, CallShaped
<1>2. usage' \in [Bucket -> [Days -> Nat]]
  BY <1>1 DEF WriteCharge, Shapes, TypeOK
<1>3. token' \in [Tokens -> TokenRow]
  <2> DEFINE t == call[c].token
             w == [token[t] EXCEPT !.used = @ + 1]
  <2>0. token[t] \in TokenRow
    BY <1>1 DEF Shapes, TypeOK
  <2>1. w \in TokenRow
    BY <2>0 DEF TokenRow
  <2>2. token' = [token EXCEPT ![t] = w]
    BY DEF WriteCharge
  <2> HIDE DEF w
  <2> QED
    BY <1>1, <2>1, <2>2, TokenWrite DEF Shapes
<1>4. charges' \subseteq Charge /\ open' \subseteq Calls
  BY <1>1 DEF WriteCharge, ChargeOf, Charge, Shapes, TypeOK
<1> QED
  BY <1>2, <1>3, <1>4

\* The end of a reservation gives back its locks and leaves an answer.
LEMMA EndReservationKeeps ==
  ASSUME Shapes, NEW c \in Calls,
         NEW result \in {"disabled", "quota", "endpoint", "unavailable"},
         EndReservation(c, result)
  PROVE  /\ CallStep(c) /\ LockTypes' /\ UNCHANGED <<user, policy, op, endpoint, refusals, day>>
         /\ call'[c].pc = "answer" /\ call'[c].result = result
  BY LeaveKeeps, ReleaseTypes DEF EndReservation, Leave, Shapes, Tx

\* Every denial of reserve is the end of a reservation.
LEMMA DenyKeeps ==
  ASSUME Shapes, NEW c \in Calls, Deny(c)
  PROVE  \E result \in {"disabled", "quota", "endpoint", "unavailable"} :
            EndReservation(c, result) /\ UNCHANGED <<token, usage, charges, open>>
  BY DEF Deny

\* The answer of the campus service changes no shape.
LEMMA ForwardKeeps ==
  ASSUME Shapes, NEW c \in Calls, Forward(c)
  PROVE  CallStep(c) /\ call'[c].pc = "answer"
<1> DEFINE k == [call[c] EXCEPT !.pc = "answer"]
<1>1. call' = [call EXCEPT ![c] = k] /\ call[c] \in CallRow
  BY DEF Forward, Shapes, TypeOK
<1>2. k \in CallRow
  BY <1>1 DEF CallRow
<1>3. CallShaped(k) /\ k.pc = "answer"
  BY <1>1 DEF CallShaped, CallRow
<1> HIDE DEF k
<1> QED
  BY <1>1, <1>2, <1>3 DEF CallStep, CallOK, Shapes, TypeOK

\* recordRequest only names calls.
LEMMA RecordKeeps ==
  ASSUME Shapes, NEW c \in Calls, Record(c)
  PROVE  CallStep(c) /\ call'[c].pc = "done" /\ open' \subseteq Calls /\ refusals' \subseteq Calls
<1> DEFINE k == [call[c] EXCEPT !.pc = "done"]
<1>1. call' = [call EXCEPT ![c] = k] /\ call[c] \in CallRow
  BY DEF Record, Shapes, TypeOK
<1>2. k \in CallRow
  BY <1>1 DEF CallRow
<1>3. CallShaped(k) /\ k.pc = "done"
  BY <1>1 DEF CallShaped, CallRow
<1>4. open' \subseteq Calls /\ refusals' \subseteq Calls
  BY DEF Record, Shapes, TypeOK
<1> HIDE DEF k
<1> QED
  BY <1>1, <1>2, <1>3, <1>4 DEF CallStep, CallOK, Shapes, TypeOK

\* The end of a replica gives back the locks of its call.
LEMMA DieKeeps ==
  ASSUME Shapes, NEW c \in Calls, Die(c)
  PROVE  CallStep(c) /\ LockTypes' /\ call'[c].pc = "dead"
<1> DEFINE k == [NewCall EXCEPT !.pc = "dead", !.result = call[c].result]
<1>1. call' = [call EXCEPT ![c] = k] /\ call[c].result \in {None, "refused", "disabled", "quota", "endpoint", "unavailable", "admitted"}
  BY DEF Die, Shapes, TypeOK, CallRow
<1>2. k \in CallRow
  BY <1>1 DEF CallRow, NewCall
<1>3. CallShaped(k) /\ k.pc = "dead"
  BY <1>1 DEF CallShaped, NewCall
<1>4. LockTypes'
  BY ReleaseTypes DEF Die, Shapes, Tx
<1> HIDE DEF k
<1> QED
  BY <1>1, <1>2, <1>3, <1>4 DEF CallStep, CallOK, Shapes, TypeOK

\* Every step of a call.
LEMMA CallShapes ==
  ASSUME Shapes, NEW c \in Calls,
         \/ Authenticate(c) \/ Refuse(c) \/ AdvanceCall(c)
         \/ CommitUnseen(c) \/ CancelReserve(c) \/ Die(c)
  PROVE  Shapes'
<1>1. /\ RowTypes /\ LockTypes /\ op \in [Requests -> OpRow]
      /\ endpoint \in [Endpoints -> EndpointRows]
      /\ usage \in [Bucket -> [Days -> Nat]]
      /\ charges \subseteq Charge /\ open \subseteq Calls /\ refusals \subseteq Calls
      /\ day \in Days
  BY DEF Shapes, TypeOK, RowTypes, LockTypes
<1>2. SUFFICES /\ CallStep(c) /\ RowTypes' /\ LockTypes' /\ UNCHANGED <<op, endpoint, day>>
               /\ usage' \in [Bucket -> [Days -> Nat]]
               /\ charges' \subseteq Charge /\ open' \subseteq Calls /\ refusals' \subseteq Calls
  BY <1>1, CallStepShapes DEF Shapes, TypeOK, RowTypes, LockTypes, RequestShape
<1>3. UNCHANGED <<user, token, policy>> => RowTypes'
  BY <1>1 DEF RowTypes
<1>4. UNCHANGED <<userLock, tokenLock>> => LockTypes'
  BY <1>1 DEF LockTypes
<1>5. CASE Authenticate(c)
  BY <1>1, <1>3, <1>4, <1>5, AuthenticateKeeps DEF Authenticate, accountVars
<1>6. CASE Refuse(c)
  BY <1>1, <1>3, <1>4, <1>6, LeaveKeeps DEF Refuse, Leave, accountVars
<1>7. CASE CheckEndpoint(c)
  BY <1>1, <1>3, <1>4, <1>7, CheckEndpointKeeps DEF CheckEndpoint, accountVars
<1>8. CASE LockUser(c)
  BY <1>1, <1>3, <1>8, CallLockUserKeeps DEF LockUser, rows
<1>9. CASE LockToken(c)
  BY <1>1, <1>3, <1>9, CallLockTokenKeeps DEF LockToken, rows
<1>10. CASE Count(c)
  BY <1>1, <1>3, <1>4, <1>10, CountKeeps DEF Count, accountVars
<1>11. CASE Deny(c)
  <2>1. PICK result \in {"disabled", "quota", "endpoint", "unavailable"} :
          EndReservation(c, result) /\ UNCHANGED <<token, usage, charges, open>>
    BY <1>11, DenyKeeps
  <2> QED
    BY <1>1, <1>3, <2>1, EndReservationKeeps
<1>12. CASE CancelReserve(c)
  BY <1>1, <1>3, <1>12, EndReservationKeeps DEF CancelReserve
<1>13. CASE Commit(c)
  <2>1. CallStep(c)
    BY <1>13, LeaveKeeps DEF Commit
  <2>2. LockTypes'
    BY <1>13, ReleaseTypes DEF Commit, Shapes, Tx
  <2>3. RowTypes'
    BY <1>1, <1>13, WriteChargeTypes DEF Commit, RowTypes
  <2> QED
    BY <1>1, <1>13, <2>1, <2>2, <2>3, WriteChargeTypes DEF Commit
<1>14. CASE CommitUnseen(c)
  <2>1. CallStep(c) /\ LockTypes' /\ UNCHANGED <<user, policy, op, endpoint, refusals, day>>
    BY <1>14, EndReservationKeeps DEF CommitUnseen
  <2>2. RowTypes'
    BY <1>1, <1>14, <2>1, WriteChargeTypes DEF CommitUnseen, RowTypes
  <2> QED
    BY <1>1, <1>14, <2>1, <2>2, WriteChargeTypes DEF CommitUnseen
<1>15. CASE Forward(c)
  BY <1>1, <1>3, <1>4, <1>15, ForwardKeeps DEF Forward, accountVars
<1>16. CASE Record(c)
  BY <1>1, <1>3, <1>4, <1>16, RecordKeeps DEF Record, accountVars
<1>17. CASE Die(c)
  BY <1>1, <1>3, <1>17, DieKeeps DEF Die, rows
<1> QED
  BY <1>5, <1>6, <1>7, <1>8, <1>9, <1>10, <1>11, <1>12, <1>13, <1>14, <1>15, <1>16, <1>17
     DEF AdvanceCall

\* The administrator's settings, the clock and the passing of an expiry.
LEMMA SettingShapes ==
  ASSUME Shapes,
         \/ UpdatePolicy /\ UNCHANGED quotaVars
         \/ \E t \in Tokens : Lapse(t) /\ UNCHANGED quotaVars
         \/ \E e \in Endpoints : UpdateEndpoint(e)
         \/ NextDay
  PROVE  Shapes'
<1>1. CASE UpdatePolicy /\ UNCHANGED quotaVars
  <2>1. PICK p \in Policies :
          /\ policy' = p
          /\ user' = [u \in Users |->
               IF user[u].known /\ user[u].inherit THEN [user[u] EXCEPT !.daily = p.daily]
                                                   ELSE user[u]]
          /\ UNCHANGED <<token, locks, op>>
    BY <1>1 DEF UpdatePolicy
  <2>2. ASSUME NEW u \in Users PROVE [user[u] EXCEPT !.daily = p.daily] \in UserRow
    <3>1. user[u] \in UserRow /\ p.daily \in Limits
      BY DEF Shapes, TypeOK
    <3> QED BY <3>1 DEF UserRow
  <2>3. user' \in [Users -> UserRow]
    BY <2>1, <2>2 DEF Shapes, TypeOK
  <2> QED
    BY <1>1, <2>1, <2>3 DEF Shapes, TypeOK, RequestShape, CallShape, locks, quotaVars
<1>2. CASE \E t \in Tokens : Lapse(t) /\ UNCHANGED quotaVars
  <2>1. PICK t \in Tokens : Lapse(t)
    BY <1>2
  <2> DEFINE w == [token[t] EXCEPT !.expiry = "past"]
  <2>2. token[t] \in TokenRow
    BY DEF Shapes, TypeOK
  <2>3. w \in TokenRow /\ token' = [token EXCEPT ![t] = w]
    BY <2>1, <2>2 DEF Lapse, TokenRow
  <2> HIDE DEF w
  <2>4. token' \in [Tokens -> TokenRow]
    BY <2>3, TokenWrite DEF Shapes
  <2> QED
    BY <1>2, <2>1, <2>4 DEF Lapse, Shapes, TypeOK, RequestShape, CallShape, locks, quotaVars
<1>3. CASE \E e \in Endpoints : UpdateEndpoint(e)
  <2>1. PICK e \in Endpoints, row \in EndpointRows :
          /\ endpoint' = [endpoint EXCEPT ![e] = row]
          /\ UNCHANGED <<accountVars, usage, charges, open, refusals, day, call>>
    BY <1>3 DEF UpdateEndpoint
  <2> QED
    BY <2>1 DEF Shapes, TypeOK, RequestShape, CallShape, accountVars
<1>4. CASE NextDay
  BY <1>4 DEF NextDay, Days, Shapes, TypeOK, RequestShape, CallShape, accountVars
<1> QED
  BY <1>1, <1>2, <1>3, <1>4

\* Every step keeps the types and the shapes.
LEMMA NextShapes == Shapes /\ [Next]_vars => Shapes'
<1> SUFFICES ASSUME Shapes, [Next]_vars PROVE Shapes'
  OBVIOUS
<1>1. CASE UNCHANGED vars
  BY <1>1 DEF vars, accountVars, quotaVars, Shapes, TypeOK, RequestShape, CallShape
<1>2. CASE AccountsNext /\ UNCHANGED quotaVars
  BY <1>2, RequestShapes, SettingShapes DEF AccountsNext
<1>3. CASE \E c \in Calls :
             Authenticate(c) \/ Refuse(c) \/ AdvanceCall(c)
               \/ CommitUnseen(c) \/ CancelReserve(c) \/ Die(c)
  BY <1>3, CallShapes
<1>4. CASE NextDay \/ \E e \in Endpoints : UpdateEndpoint(e)
  BY <1>4, SettingShapes
<1> QED
  BY <1>1, <1>2, <1>3, <1>4 DEF Next

\* Every behaviour keeps its tables well typed, and every transaction carries
\* what its place in the code needs.
THEOREM TypeCorrect == Spec => []TypeOK
<1>1. Shapes => TypeOK
  BY DEF Shapes
<1> QED
  BY InitShapes, NextShapes, <1>1, PTL DEF Spec

\* Rows, requests and calls carry what their place needs, always: the typed
\* fields every other proof starts from.
THEOREM ShapesAlways == Spec => []Shapes
  BY InitShapes, NextShapes, PTL DEF Spec

-----------------------------------------------------------------------------
\* Isolation.

HIDE QuotaAssumption
HIDE DatabaseAssumption
HIDE ConstantsAssumption

Safe == Shapes /\ (\A r \in Requests : RequestOK(r)) /\ (\A c \in Calls : CallSafe(c))

\* What a step of transaction x leaves alone; x = None is a step of nobody.
RowsIsolated(x) ==
  /\ \A u \in Users : user'[u] # user[u] => userLock[u] = x
  /\ \A t \in Tokens :
       SameRow(token'[t], token[t]) \/ tokenLock[t] = x \/ token[t].state = "free"
LocksIsolated(x) ==
  \A y \in Tx : y # x =>
    /\ \A u \in Users : userLock'[u] = y <=> userLock[u] = y
    /\ \A t \in Tokens : tokenLock'[t] = y <=> tokenLock[t] = y
PlacesIsolated(x) ==
  /\ \A r \in Requests : r # x => op'[r] = op[r]
  /\ \A c \in Calls : c # x => call'[c] = call[c]
ChargesIsolated(x) ==
  /\ \A u \in Users : usage'[UserBucket(u)] # usage[UserBucket(u)] => userLock[u] = x
  /\ \A t \in Tokens : usage'[TokenBucket(t)] # usage[TokenBucket(t)] => tokenLock[t] = x
  /\ \A u \in Users, e \in Endpoints :
       usage'[EndpointBucket(u, e)] # usage[EndpointBucket(u, e)] => userLock[u] = x
  /\ \A z \in charges' : z \in charges \/ z.call = x
Isolated(x) ==
  RowsIsolated(x) /\ LocksIsolated(x) /\ PlacesIsolated(x) /\ ChargesIsolated(x)

\* The lock tables are disjoint in the transactions they name.
LEMMA TxApart == \A r \in Requests, c \in Calls : r # c /\ r # None /\ c # None
  BY ConstantsAssumption DEF Tx

\* What another request knows survives the step of x.
LEMMA OtherRequestKeeps ==
  ASSUME Safe, NEW x, Isolated(x), NEW r \in Requests, r # x
  PROVE  RequestOK(r)'
<1>1. op'[r] = op[r] /\ RequestLocked(r) /\ RequestHolds(r) /\ RequestShaped(op[r]) /\ r \in Tx
  BY DEF Safe, Shapes, RequestShape, RequestOK, Isolated, PlacesIsolated, Tx
<1>2. RequestHolds(r)'
  BY <1>1 DEF RequestHolds, Isolated, LocksIsolated
<1>3. ASSUME op[r].pc \in {"token", "count", "write"}, op[r].kind # "regulate"
      PROVE  userLock'[op[r].user] = r
  BY <1>1, <1>3 DEF RequestLocked, RequestShaped, Isolated, LocksIsolated
<1>4. ASSUME op[r].pc = "write", op[r].kind \in TokenKinds
      PROVE  /\ tokenLock'[op[r].token] = r
             /\ op[r].row.state = "live"
             /\ SameRow(op[r].row, token'[op[r].token])
  <2> DEFINE t == op[r].token
  <2>1. /\ t \in Tokens /\ tokenLock[t] = r /\ op[r].row.state = "live"
        /\ SameRow(op[r].row, token[t])
    BY <1>1, <1>4 DEF RequestLocked, RequestShaped
  <2>2. tokenLock'[t] = r
    BY <1>1, <2>1 DEF Isolated, LocksIsolated
  <2>3. token[t].state # "free" /\ tokenLock[t] # x
    BY <2>1 DEF SameRow
  <2>4. SameRow(token'[t], token[t])
    BY <2>1, <2>3 DEF Isolated, RowsIsolated
  <2>5. SameRow(op[r].row, token'[t])
    BY <2>1, <2>4 DEF SameRow
  <2> QED BY <2>1, <2>2, <2>5
<1>5. RequestLocked(r)'
  BY <1>1, <1>3, <1>4 DEF RequestLocked
<1> QED
  BY <1>2, <1>5 DEF RequestOK

\* What another call knows survives the step of x.
LEMMA OtherCallKeeps ==
  ASSUME Safe, NEW x, Isolated(x), NEW c \in Calls, c # x
  PROVE  CallSafe(c)'
<1> DEFINE k == call[c]
<1>1. /\ call'[c] = call[c] /\ CallShaped(k) /\ c \in Tx
      /\ CallLocked(c) /\ CallHolds(c) /\ CountedStands(c) /\ Uncharged(c)
  BY DEF Safe, Shapes, CallShape, CallSafe, Isolated, PlacesIsolated, Tx
<1>2. CallHolds(c)'
  BY <1>1 DEF CallHolds, Isolated, LocksIsolated
<1>3. ASSUME k.pc \in {"user", "token", "counted"}
      PROVE  /\ k.user \in Users /\ userLock[k.user] = c /\ userLock'[k.user] = c
             /\ k.urow = user'[k.user]
  <2>1. k.user \in Users /\ userLock[k.user] = c /\ k.urow = user[k.user]
    BY <1>1, <1>3 DEF CallShaped, CallLocked
  <2>2. userLock'[k.user] = c
    BY <1>1, <2>1 DEF Isolated, LocksIsolated
  <2>3. user'[k.user] = user[k.user]
    BY <2>1 DEF Isolated, RowsIsolated
  <2> QED BY <2>1, <2>2, <2>3
<1>4. ASSUME k.pc \in {"token", "counted"}
      PROVE  /\ k.token \in Tokens /\ tokenLock[k.token] = c /\ tokenLock'[k.token] = c
             /\ k.trow.state = "live" /\ SameRow(k.trow, token'[k.token])
  <2> DEFINE t == k.token
  <2>1. /\ t \in Tokens /\ tokenLock[t] = c /\ k.trow.state = "live"
        /\ SameRow(k.trow, token[t])
    BY <1>1, <1>4 DEF CallShaped, CallLocked
  <2>2. tokenLock'[t] = c
    BY <1>1, <2>1 DEF Isolated, LocksIsolated
  <2>3. token[t].state # "free"
    BY <2>1 DEF SameRow
  <2>4. SameRow(token'[t], token[t])
    BY <2>1, <2>3 DEF Isolated, RowsIsolated
  <2>5. SameRow(k.trow, token'[t])
    BY <2>1, <2>4 DEF SameRow
  <2> QED BY <2>1, <2>2, <2>5
<1>5. CallLocked(c)'
  BY <1>1, <1>3, <1>4 DEF CallLocked
<1>6. ASSUME k.pc = "counted"
      PROVE  /\ usage'[UserBucket(k.user)] = usage[UserBucket(k.user)]
             /\ usage'[TokenBucket(k.token)] = usage[TokenBucket(k.token)]
             /\ usage'[EndpointBucket(k.user, k.endpoint)] = usage[EndpointBucket(k.user, k.endpoint)]
  <2>1. k.endpoint \in Endpoints
    BY <1>1, <1>6 DEF CallShaped
  <2> QED
    BY <1>3, <1>4, <1>6, <2>1 DEF Isolated, ChargesIsolated
<1>7. CountedStands(c)'
  BY <1>1, <1>6 DEF CountedStands, Spent
<1>8. Uncharged(c)'
  BY <1>1 DEF Uncharged, Isolated, ChargesIsolated
<1> QED
  BY <1>2, <1>5, <1>7, <1>8 DEF CallSafe

\* So a step of one transaction only has to re-establish its own part.
LEMMA OthersKeep ==
  ASSUME Safe, NEW x, Isolated(x),
         x \in Requests => RequestOK(x)',
         x \in Calls => CallSafe(x)'
  PROVE  (\A r \in Requests : RequestOK(r)') /\ (\A c \in Calls : CallSafe(c)')
  BY OtherRequestKeeps, OtherCallKeeps

-----------------------------------------------------------------------------
\* Requests.

\* Giving back the rows of x moves no other lock, and x holds nothing after.
LEMMA ReleaseIsolated ==
  ASSUME Shapes, NEW x \in Tx, Release(x)
  PROVE  /\ LocksIsolated(x)
         /\ \A u \in Users : userLock'[u] # x
         /\ \A t \in Tokens : tokenLock'[t] # x
  BY ConstantsAssumption DEF Shapes, TypeOK, Release, Freed, LocksIsolated

\* A request that ends touches no lock, place or charge of another.
LEMMA FinishIsolated ==
  ASSUME Shapes, NEW r \in Requests, Finish(r), UNCHANGED quotaVars
  PROVE  LocksIsolated(r) /\ PlacesIsolated(r) /\ ChargesIsolated(r) /\ RequestOK(r)'
<1>1. LocksIsolated(r) /\ (\A u \in Users : userLock'[u] # r) /\ (\A t \in Tokens : tokenLock'[t] # r)
  BY ReleaseIsolated DEF Finish, Tx
<1>2. OpStep(r) /\ op'[r].pc = "done"
  BY FinishShapes
<1>3. PlacesIsolated(r)
  BY <1>2 DEF OpStep, PlacesIsolated, quotaVars, Shapes, TypeOK
<1>4. ChargesIsolated(r)
  BY DEF ChargesIsolated, quotaVars
<1>5. RequestOK(r)'
  BY <1>1, <1>2 DEF RequestOK, RequestLocked, RequestHolds
<1> QED
  BY <1>1, <1>3, <1>4, <1>5

\* A request that has not reached a row lock holds none.
LEMMA BeginIsolated ==
  ASSUME Safe, NEW r \in Requests, BeginRequest(r), UNCHANGED quotaVars
  PROVE  Isolated(r) /\ RequestOK(r)'
<1>1. /\ OpStep(r) /\ UNCHANGED <<rows, locks>>
      /\ op[r].pc = "idle" /\ op'[r].pc \in {"user", "token"}
      /\ op'[r].pc = "token" => op'[r].kind = "regulate"
  BY BeginKeeps DEF Safe
<1>2. RequestHolds(r)
  BY DEF Safe, RequestOK
<1>3. (\A u \in Users : userLock'[u] # r) /\ (\A t \in Tokens : tokenLock'[t] # r)
  BY <1>1, <1>2 DEF RequestHolds, locks
<1>4. RequestOK(r)'
  BY <1>1, <1>3 DEF RequestOK, RequestHolds, RequestLocked
<1>5. PlacesIsolated(r)
  BY <1>1 DEF OpStep, PlacesIsolated, quotaVars, Safe, Shapes, TypeOK
<1>6. RowsIsolated(r) /\ LocksIsolated(r) /\ ChargesIsolated(r)
  BY <1>1 DEF RowsIsolated, LocksIsolated, ChargesIsolated, quotaVars, rows, locks, SameRow
<1> QED
  BY <1>4, <1>5, <1>6 DEF Isolated

\* A request that takes its account row takes a free one.
LEMMA LockUserRowIsolated ==
  ASSUME Safe, NEW r \in Requests, LockUserRow(r), UNCHANGED quotaVars
  PROVE  Isolated(r) /\ RequestOK(r)'
<1> DEFINE u == op[r].user
<1>1. /\ op[r].pc = "user" /\ userLock[u] = None
      /\ userLock' = [userLock EXCEPT ![u] = r]
      /\ op' = [op EXCEPT ![r].pc = Then(op[r].kind, "user")]
      /\ UNCHANGED <<user, token, policy, tokenLock>>
  BY DEF LockUserRow, rows
<1>2. /\ op[r] \in OpRow /\ RequestShaped(op[r]) /\ RequestHolds(r)
      /\ userLock \in [Users -> Tx \cup {None}]
      /\ op \in [Requests -> OpRow]
  BY DEF Safe, Shapes, TypeOK, RequestShape, RequestOK
<1>3. op[r].kind \in AllKinds \ {"regulate"} /\ u \in Users
  BY <1>1, <1>2 DEF RequestShaped
<1>4. /\ Then(op[r].kind, "user") \in {"count", "token", "write"}
      /\ Then(op[r].kind, "user") = "token" <=> op[r].kind \in TokenKinds
  BY <1>3 DEF Then, AllKinds, OwnerKinds, TokenKinds
<1>5. op'[r] = [op[r] EXCEPT !.pc = Then(op[r].kind, "user")] /\ \A q \in Requests : q # r => op'[q] = op[q]
  BY <1>1, <1>2
<1>6. /\ op'[r].pc = Then(op[r].kind, "user") /\ op'[r].kind = op[r].kind /\ op'[r].user = u
  BY <1>2, <1>5 DEF OpRow
<1>7. userLock'[u] = r /\ \A v \in Users : v # u => userLock'[v] = userLock[v]
  BY <1>1, <1>2, <1>3
<1>8. RequestLocked(r)'
  BY <1>4, <1>6, <1>7 DEF RequestLocked
<1>9. RequestHolds(r)'
  BY <1>1, <1>2, <1>4, <1>6 DEF RequestHolds
<1>10. LocksIsolated(r)
  BY <1>1, <1>7, ConstantsAssumption DEF LocksIsolated
<1>11. RowsIsolated(r) /\ PlacesIsolated(r) /\ ChargesIsolated(r)
  BY <1>1, <1>5 DEF RowsIsolated, PlacesIsolated, ChargesIsolated, quotaVars, SameRow
<1> QED
  BY <1>8, <1>9, <1>10, <1>11 DEF Isolated, RequestOK

\* A request that takes its application row knows the row it copied.
LEMMA LockTokenRowIsolated ==
  ASSUME Safe, NEW r \in Requests, LockTokenRow(r), UNCHANGED quotaVars
  PROVE  Isolated(r) /\ RequestOK(r)'
<1> DEFINE t == op[r].token
<1>1. /\ op[r].pc = "token" /\ tokenLock[t] = None /\ Found(r)
      /\ tokenLock' = [tokenLock EXCEPT ![t] = r]
      /\ op' = [op EXCEPT ![r].pc = Then(op[r].kind, "token"), ![r].row = token[t]]
      /\ UNCHANGED <<user, token, policy, userLock>>
  BY DEF LockTokenRow, rows
<1>2. /\ op[r] \in OpRow /\ RequestShaped(op[r]) /\ RequestHolds(r) /\ RequestLocked(r)
      /\ tokenLock \in [Tokens -> Tx \cup {None}]
      /\ op \in [Requests -> OpRow]
  BY DEF Safe, Shapes, TypeOK, RequestShape, RequestOK
<1>3. op[r].kind \in TokenKinds /\ t \in Tokens
  BY <1>1, <1>2 DEF RequestShaped
<1>4. Then(op[r].kind, "token") = "write"
  BY DEF Then
<1>5. op'[r] = [op[r] EXCEPT !.pc = "write", !.row = token[t]] /\ \A q \in Requests : q # r => op'[q] = op[q]
  BY <1>1, <1>2, <1>4
<1>6. /\ op'[r].pc = "write" /\ op'[r].kind = op[r].kind /\ op'[r].user = op[r].user
      /\ op'[r].token = t /\ op'[r].row = token[t]
  BY <1>2, <1>5 DEF OpRow
<1>7. tokenLock'[t] = r /\ \A v \in Tokens : v # t => tokenLock'[v] = tokenLock[v]
  BY <1>1, <1>2, <1>3
<1>8. RequestLocked(r)'
  BY <1>1, <1>2, <1>6, <1>7 DEF RequestLocked, SameRow, Found
<1>9. RequestHolds(r)'
  BY <1>6 DEF RequestHolds
<1>10. LocksIsolated(r)
  BY <1>1, <1>7, ConstantsAssumption DEF LocksIsolated
<1>11. RowsIsolated(r) /\ PlacesIsolated(r) /\ ChargesIsolated(r)
  BY <1>1, <1>5 DEF RowsIsolated, PlacesIsolated, ChargesIsolated, quotaVars, SameRow
<1> QED
  BY <1>8, <1>9, <1>10, <1>11 DEF Isolated, RequestOK

\* Counting applications changes nothing another transaction knows.
LEMMA CountAppsIsolated ==
  ASSUME Safe, NEW r \in Requests, CountApps(r), UNCHANGED quotaVars
  PROVE  Isolated(r) /\ RequestOK(r)'
<1>1. /\ op[r].pc = "count"
      /\ op' = [op EXCEPT ![r].pc = Then(op[r].kind, "count"), ![r].apps = Cardinality(AppsOf(op[r].user))]
      /\ UNCHANGED <<user, token, policy, userLock, tokenLock>>
  BY DEF CountApps, rows, locks
<1>2. /\ op[r] \in OpRow /\ RequestShaped(op[r]) /\ RequestHolds(r) /\ RequestLocked(r)
      /\ op \in [Requests -> OpRow]
  BY DEF Safe, Shapes, TypeOK, RequestShape, RequestOK
<1>3. op[r].kind = "create"
  BY <1>1, <1>2 DEF RequestShaped
<1>4. Then(op[r].kind, "count") = "write"
  BY DEF Then
<1>5. /\ op'[r].pc = "write" /\ op'[r].kind = "create" /\ op'[r].user = op[r].user
      /\ \A q \in Requests : q # r => op'[q] = op[q]
  BY <1>1, <1>2, <1>3, <1>4 DEF OpRow
<1>6. RequestOK(r)'
  BY <1>1, <1>2, <1>3, <1>5 DEF RequestOK, RequestLocked, RequestHolds, TokenKinds
<1>7. RowsIsolated(r) /\ LocksIsolated(r) /\ PlacesIsolated(r) /\ ChargesIsolated(r)
  BY <1>1, <1>5 DEF RowsIsolated, LocksIsolated, PlacesIsolated, ChargesIsolated, quotaVars, SameRow
<1> QED
  BY <1>6, <1>7 DEF Isolated

\* A write changes the row the request locked, or gives out a free id.
LEMMA WriteRowsIsolated ==
  ASSUME Safe, NEW r \in Requests, WriteRequest(r)
  PROVE  RowsIsolated(r)
<1> DEFINE u == op[r].user
           t == op[r].token
<1>1. /\ RequestLocked(r) /\ RequestShaped(op[r])
      /\ token \in [Tokens -> TokenRow] /\ user \in [Users -> UserRow]
  BY DEF Safe, Shapes, TypeOK, RequestShape, RequestOK
<1>2. CASE WriteCreate(r)
  <2>1. /\ UNCHANGED user
        /\ \E n \in Tokens : /\ token[n].state = "free"
                             /\ \A m \in Tokens : m # n => token'[m] = token[m]
    BY <1>1, <1>2 DEF WriteCreate
  <2> QED
    BY <2>1 DEF RowsIsolated, SameRow
<1>3. CASE WriteUpdate(r) \/ WriteRotate(r) \/ WriteDelete(r) \/ WriteRegulate(r)
  <2>1. /\ op[r].pc = "write" /\ op[r].kind \in TokenKinds
        /\ UNCHANGED user
        /\ \A m \in Tokens : m # t => token'[m] = token[m]
    BY <1>1, <1>3 DEF WriteUpdate, WriteRotate, WriteDelete, WriteRegulate, TokenKinds
  <2>2. tokenLock[t] = r
    BY <1>1, <2>1 DEF RequestLocked
  <2> QED
    BY <2>1, <2>2 DEF RowsIsolated, SameRow
<1>4. CASE WriteUser(r) \/ WriteSignIn(r)
  <2>1. /\ op[r].pc = "write" /\ op[r].kind # "regulate"
        /\ UNCHANGED token
        /\ \A v \in Users : v # u => user'[v] = user[v]
    BY <1>1, <1>4 DEF WriteUser, WriteSignIn
  <2>2. userLock[u] = r
    BY <1>1, <2>1 DEF RequestLocked
  <2> QED
    BY <2>1, <2>2 DEF RowsIsolated, SameRow
<1> QED
  BY <1>2, <1>3, <1>4 DEF WriteRequest

\* Every step of a request.
LEMMA RequestIsolated ==
  ASSUME Safe, NEW r \in Requests,
         BeginRequest(r) \/ AdvanceRequest(r) \/ AbortRequest(r),
         UNCHANGED quotaVars
  PROVE  Isolated(r) /\ RequestOK(r)'
<1>1. CASE WriteRequest(r)
  BY <1>1, WriteKeeps, FinishIsolated, WriteRowsIsolated DEF Safe, Isolated
<1>2. CASE RejectRequest(r) \/ AbortRequest(r)
  <2>1. Finish(r) /\ UNCHANGED <<user, token, policy>>
    BY <1>2 DEF RejectRequest, AbortRequest, rows
  <2>2. RowsIsolated(r)
    BY <2>1 DEF RowsIsolated, SameRow
  <2> QED
    BY <2>1, <2>2, FinishIsolated DEF Safe, Isolated
<1> QED
  BY <1>1, <1>2, BeginIsolated, LockUserRowIsolated, LockTokenRowIsolated, CountAppsIsolated
     DEF AdvanceRequest

-----------------------------------------------------------------------------
\* Calls.

\* A call outside a reservation, with no lock: it knows nothing.
LEMMA OutsideSafe ==
  ASSUME NEW c \in Calls,
         call'[c].pc \notin {"new", "authed", "admit", "user", "token", "counted"},
         \A u \in Users : userLock'[u] # c,
         \A t \in Tokens : tokenLock'[t] # c
  PROVE  CallSafe(c)'
  BY DEF CallSafe, CallLocked, CallHolds, CountedStands, Uncharged

\* A step of a call leaves the place of every other transaction alone.
LEMMA CallPlaces ==
  ASSUME Shapes, NEW c \in Calls, CallStep(c), UNCHANGED op
  PROVE  PlacesIsolated(c)
  BY DEF CallStep, PlacesIsolated, Shapes, TypeOK

\* A step that writes neither rows nor counters.
LEMMA QuietIsolated ==
  ASSUME Shapes, NEW c \in Calls, CallStep(c), UNCHANGED <<op, user, token, usage, charges>>
  PROVE  RowsIsolated(c) /\ PlacesIsolated(c) /\ ChargesIsolated(c)
  BY CallPlaces DEF RowsIsolated, ChargesIsolated, SameRow

\* Steps outside the reservation: nothing is locked and nothing written.
LEMMA OutsideIsolated ==
  ASSUME Safe, NEW c \in Calls,
         Authenticate(c) \/ Refuse(c) \/ CheckEndpoint(c) \/ Forward(c) \/ Record(c)
  PROVE  Isolated(c) /\ CallSafe(c)'
<1>1. /\ CallStep(c)
      /\ call[c].pc \in {"new", "authed", "upstream", "answer"}
      /\ call'[c].pc \in {"authed", "admit"} => call[c].pc \in {"new", "authed"}
      /\ call'[c].pc \in {"authed", "admit", "answer", "done"}
      /\ UNCHANGED <<op, user, token, userLock, tokenLock, usage, charges>>
  <2>1. CASE Authenticate(c)
    BY <2>1, AuthenticateKeeps DEF Authenticate, Safe, accountVars
  <2>2. CASE Refuse(c)
    BY <2>2, LeaveKeeps DEF Refuse, Leave, Safe, accountVars
  <2>3. CASE CheckEndpoint(c)
    BY <2>3, CheckEndpointKeeps DEF CheckEndpoint, Safe, accountVars
  <2>4. CASE Forward(c)
    BY <2>4, ForwardKeeps DEF Forward, Safe, accountVars
  <2>5. CASE Record(c)
    BY <2>5, RecordKeeps DEF Record, Safe, accountVars
  <2> QED
    BY <2>1, <2>2, <2>3, <2>4, <2>5
<1>2. CallHolds(c) /\ Uncharged(c)
  BY DEF Safe, CallSafe
<1>3. CallSafe(c)'
  BY <1>1, <1>2 DEF CallSafe, CallLocked, CallHolds, CountedStands, Uncharged
<1>4. LocksIsolated(c)
  BY <1>1 DEF LocksIsolated
<1> QED
  BY <1>1, <1>3, <1>4, QuietIsolated DEF Isolated, Safe

\* reserve takes a free account row and knows it.
LEMMA CallLockUserIsolated ==
  ASSUME Safe, NEW c \in Calls, LockUser(c)
  PROVE  Isolated(c) /\ CallSafe(c)'
<1> DEFINE u == call[c].user
<1>1. /\ call[c].pc = "admit" /\ userLock[u] = None
      /\ userLock' = [userLock EXCEPT ![u] = c]
      /\ call' = [call EXCEPT ![c].pc = "user", ![c].urow = user[u]]
      /\ UNCHANGED <<op, user, token, tokenLock, usage, charges>>
  BY DEF LockUser, rows
<1>2. /\ call[c] \in CallRow /\ CallShaped(call[c]) /\ CallHolds(c) /\ Uncharged(c)
      /\ userLock \in [Users -> Tx \cup {None}] /\ call \in [Calls -> CallRow]
  BY DEF Safe, Shapes, TypeOK, CallShape, CallSafe
<1>3. u \in Users
  BY <1>1, <1>2 DEF CallShaped
<1>4. /\ call'[c].pc = "user" /\ call'[c].user = u /\ call'[c].urow = user[u]
  BY <1>1, <1>2 DEF CallRow
<1>5. userLock'[u] = c /\ \A v \in Users : v # u => userLock'[v] = userLock[v]
  BY <1>1, <1>2, <1>3
<1>6. CallSafe(c)'
  BY <1>1, <1>2, <1>4, <1>5 DEF CallSafe, CallLocked, CallHolds, CountedStands, Uncharged
<1>7. LocksIsolated(c)
  BY <1>1, <1>5, ConstantsAssumption DEF LocksIsolated
<1> QED
  BY <1>1, <1>6, <1>7, CallLockUserKeeps, QuietIsolated DEF Isolated, Safe

\* reserve takes a free application row and knows it.
LEMMA CallLockTokenIsolated ==
  ASSUME Safe, NEW c \in Calls, LockToken(c)
  PROVE  Isolated(c) /\ CallSafe(c)'
<1> DEFINE t == call[c].token
<1>1. /\ call[c].pc = "user" /\ tokenLock[t] = None /\ token[t].state = "live"
      /\ tokenLock' = [tokenLock EXCEPT ![t] = c]
      /\ call' = [call EXCEPT ![c].pc = "token", ![c].trow = token[t]]
      /\ UNCHANGED <<op, user, token, userLock, usage, charges>>
  BY DEF LockToken, rows
<1>2. /\ call[c] \in CallRow /\ CallShaped(call[c]) /\ CallLocked(c) /\ CallHolds(c) /\ Uncharged(c)
      /\ tokenLock \in [Tokens -> Tx \cup {None}] /\ call \in [Calls -> CallRow]
  BY DEF Safe, Shapes, TypeOK, CallShape, CallSafe
<1>3. t \in Tokens
  BY <1>1, <1>2 DEF CallShaped
<1>4. /\ call'[c].pc = "token" /\ call'[c].user = call[c].user /\ call'[c].urow = call[c].urow
      /\ call'[c].token = t /\ call'[c].trow = token[t]
  BY <1>1, <1>2 DEF CallRow
<1>5. tokenLock'[t] = c /\ \A v \in Tokens : v # t => tokenLock'[v] = tokenLock[v]
  BY <1>1, <1>2, <1>3
<1>6. CallLocked(c)'
  BY <1>1, <1>2, <1>4, <1>5 DEF CallLocked, SameRow
<1>7. CallSafe(c)'
  BY <1>1, <1>2, <1>4, <1>6 DEF CallSafe, CallHolds, CountedStands, Uncharged
<1>8. LocksIsolated(c)
  BY <1>1, <1>5, ConstantsAssumption DEF LocksIsolated
<1> QED
  BY <1>1, <1>7, <1>8, CallLockTokenKeeps, QuietIsolated DEF Isolated, Safe

\* What Count checks is what it then knows.
LEMMA CountIsolated ==
  ASSUME Safe, NEW c \in Calls, Count(c)
  PROVE  Isolated(c) /\ CallSafe(c)'
<1> DEFINE k == call[c]
           e == endpoint[k.endpoint].daily
<1>1. /\ k.pc = "token" /\ ~Disabled(c) /\ ~Spent(c) /\ ~Full(c)
      /\ call' = [call EXCEPT ![c].pc = "counted", ![c].day = day, ![c].elimit = e]
      /\ UNCHANGED <<op, user, token, userLock, tokenLock, usage, charges>>
  BY DEF Count, accountVars
<1>2. /\ k \in CallRow /\ CallShaped(k) /\ CallLocked(c) /\ CallHolds(c) /\ Uncharged(c)
      /\ call \in [Calls -> CallRow]
      /\ usage \in [Bucket -> [Days -> Nat]] /\ day \in Days
      /\ endpoint \in [Endpoints -> EndpointRows]
  BY DEF Safe, Shapes, TypeOK, CallShape, CallSafe
<1>3. call'[c] = [k EXCEPT !.pc = "counted", !.day = day, !.elimit = e]
  BY <1>1, <1>2
<1>4. /\ call'[c].pc = "counted" /\ call'[c].day = day /\ call'[c].elimit = e
      /\ call'[c].user = k.user /\ call'[c].urow = k.urow /\ call'[c].endpoint = k.endpoint
      /\ call'[c].token = k.token /\ call'[c].trow = k.trow
      /\ call'[c].key = k.key /\ call'[c].grant = k.grant
  BY <1>2, <1>3 DEF CallRow
<1>5. /\ k.urow \in UserRow /\ k.trow \in TokenRow /\ e \in Nat
      /\ k.user \in Users /\ k.token \in Tokens /\ k.endpoint \in Endpoints
  BY <1>1, <1>2, ConstantsAssumption, QuotaAssumption DEF CallShaped, EndpointRow
<1>6. /\ k.urow.daily \in Nat /\ k.trow.daily \in Nat
      /\ usage[UserBucket(k.user)][day] \in Nat
      /\ usage[TokenBucket(k.token)][day] \in Nat
      /\ usage[EndpointBucket(k.user, k.endpoint)][day] \in Nat
  BY <1>2, <1>5, ConstantsAssumption DEF UserRow, TokenRow, Bucket
<1>7. /\ usage[UserBucket(k.user)][day] < k.urow.daily
      /\ usage[TokenBucket(k.token)][day] < k.trow.daily
      /\ usage[EndpointBucket(k.user, k.endpoint)][day] < e
  BY <1>1, <1>5, <1>6 DEF Full
<1>8. Spent(c)' = Spent(c)
  BY <1>4 DEF Spent
<1>9. CountedStands(c)'
  BY <1>1, <1>4, <1>7, <1>8 DEF CountedStands, Disabled
<1>10. CallSafe(c)'
  BY <1>1, <1>2, <1>4, <1>9 DEF CallSafe, CallLocked, CallHolds, Uncharged
<1>11. LocksIsolated(c)
  BY <1>1 DEF LocksIsolated
<1> QED
  BY <1>1, <1>10, <1>11, CountKeeps, QuietIsolated DEF Isolated, Safe

\* The three kinds of counter are apart, and one counter belongs to one row.
LEMMA BucketsApart ==
  ASSUME NEW u \in Users, NEW t \in Tokens, NEW e \in Endpoints
  PROVE  /\ \A v \in Users : UserBucket(v) \in BucketsOf(u, t, e) <=> v = u
         /\ \A w \in Tokens : TokenBucket(w) \in BucketsOf(u, t, e) <=> w = t
         /\ \A v \in Users, f \in Endpoints :
              EndpointBucket(v, f) \in BucketsOf(u, t, e) <=> v = u /\ f = e
         /\ BucketsOf(u, t, e) \subseteq Bucket
  BY DEF BucketsOf, UserBucket, TokenBucket, EndpointBucket, Bucket

\* The rolled-back reservations.
LEMMA EndIsolated ==
  ASSUME Safe, NEW c \in Calls, Deny(c) \/ CancelReserve(c)
  PROVE  Isolated(c) /\ CallSafe(c)'
<1>1. PICK result \in {"disabled", "quota", "endpoint", "unavailable"} :
        EndReservation(c, result) /\ UNCHANGED <<token, usage, charges, open>>
  BY DenyKeeps DEF CancelReserve, Safe
<1>2. CallStep(c) /\ UNCHANGED <<op, user, token, usage, charges>> /\ call'[c].pc = "answer"
  BY <1>1, EndReservationKeeps DEF Safe
<1>3. LocksIsolated(c) /\ (\A u \in Users : userLock'[u] # c) /\ (\A t \in Tokens : tokenLock'[t] # c)
  BY <1>1, ReleaseIsolated DEF EndReservation, Safe, Tx
<1> QED
  BY <1>2, <1>3, QuietIsolated, OutsideSafe DEF Isolated, Safe

\* The end of a replica disturbs no other transaction.
LEMMA DieIsolated ==
  ASSUME Safe, NEW c \in Calls, Die(c)
  PROVE  Isolated(c) /\ CallSafe(c)'
<1>1. CallStep(c) /\ UNCHANGED <<op, user, token, usage, charges>> /\ call'[c].pc = "dead"
  BY DieKeeps DEF Die, Safe, rows
<1>2. LocksIsolated(c) /\ (\A u \in Users : userLock'[u] # c) /\ (\A t \in Tokens : tokenLock'[t] # c)
  BY ReleaseIsolated DEF Die, Safe, Tx
<1> QED
  BY <1>1, <1>2, QuietIsolated, OutsideSafe DEF Isolated, Safe

\* The charge touches the rows and counters of the call and nothing else.
LEMMA ChargeIsolated ==
  ASSUME Safe, NEW c \in Calls, call[c].pc = "counted", WriteCharge(c)
  PROVE  /\ ChargesIsolated(c)
         /\ \A t \in Tokens : t # call[c].token => token'[t] = token[t]
         /\ tokenLock[call[c].token] = c
<1> DEFINE k == call[c]
<1>1. /\ CallShaped(k) /\ CallLocked(c)
      /\ token \in [Tokens -> TokenRow] /\ usage \in [Bucket -> [Days -> Nat]]
  BY DEF Safe, Shapes, TypeOK, CallShape, CallSafe
<1>2. k.user \in Users /\ k.token \in Tokens /\ k.endpoint \in Endpoints
  BY <1>1 DEF CallShaped
<1>3. userLock[k.user] = c /\ tokenLock[k.token] = c
  BY <1>1 DEF CallLocked
<1>4. \A b \in Bucket : b \notin BucketsOf(k.user, k.token, k.endpoint) => usage'[b] = usage[b]
  BY DEF WriteCharge
<1>5. \A u \in Users : usage'[UserBucket(u)] # usage[UserBucket(u)] => userLock[u] = c
  <2>1. \A u \in Users : UserBucket(u) \in Bucket
    BY DEF Bucket
  <2> QED
    BY <1>2, <1>3, <1>4, <2>1, BucketsApart
<1>6. \A t \in Tokens : usage'[TokenBucket(t)] # usage[TokenBucket(t)] => tokenLock[t] = c
  <2>1. \A t \in Tokens : TokenBucket(t) \in Bucket
    BY DEF Bucket
  <2> QED
    BY <1>2, <1>3, <1>4, <2>1, BucketsApart
<1>7. \A u \in Users, e \in Endpoints :
        usage'[EndpointBucket(u, e)] # usage[EndpointBucket(u, e)] => userLock[u] = c
  <2>1. \A u \in Users, e \in Endpoints : EndpointBucket(u, e) \in Bucket
    BY DEF Bucket
  <2> QED
    BY <1>2, <1>3, <1>4, <2>1, BucketsApart
<1>8. \A z \in charges' : z \in charges \/ z.call = c
  BY DEF WriteCharge, ChargeOf
<1>9. \A t \in Tokens : t # k.token => token'[t] = token[t]
  BY <1>1 DEF WriteCharge
<1> QED
  BY <1>3, <1>5, <1>6, <1>7, <1>8, <1>9 DEF ChargesIsolated

\* A commit, seen or not, disturbs no other transaction.
LEMMA CommitIsolated ==
  ASSUME Safe, NEW c \in Calls, Commit(c) \/ CommitUnseen(c)
  PROVE  Isolated(c) /\ CallSafe(c)'
<1>1. call[c].pc = "counted" /\ WriteCharge(c) /\ Release(c) /\ UNCHANGED <<op, user>>
  BY DEF Commit, CommitUnseen, EndReservation
<1>2. CallStep(c) /\ call'[c].pc \in {"upstream", "answer"}
  BY LeaveKeeps DEF Commit, CommitUnseen, EndReservation, Leave, Safe
<1>3. LocksIsolated(c) /\ (\A u \in Users : userLock'[u] # c) /\ (\A t \in Tokens : tokenLock'[t] # c)
  BY <1>1, ReleaseIsolated DEF Safe, Tx
<1>4. RowsIsolated(c) /\ ChargesIsolated(c)
  BY <1>1, ChargeIsolated DEF RowsIsolated, SameRow
<1>5. PlacesIsolated(c)
  BY <1>1, <1>2, CallPlaces DEF Safe
<1> QED
  BY <1>2, <1>3, <1>4, <1>5, OutsideSafe DEF Isolated

\* Every step of a call.
LEMMA CallIsolated ==
  ASSUME Safe, NEW c \in Calls,
         \/ Authenticate(c) \/ Refuse(c) \/ AdvanceCall(c)
         \/ CommitUnseen(c) \/ CancelReserve(c) \/ Die(c)
  PROVE  Isolated(c) /\ CallSafe(c)'
  BY OutsideIsolated, CallLockUserIsolated, CallLockTokenIsolated, CountIsolated,
     EndIsolated, DieIsolated, CommitIsolated DEF AdvanceCall

\* The settings and the clock: a policy change waits until nobody holds an
\* account, and only an expiry passes by itself.
LEMMA SettingIsolated ==
  ASSUME Safe,
         \/ UpdatePolicy /\ UNCHANGED quotaVars
         \/ \E t \in Tokens : Lapse(t) /\ UNCHANGED quotaVars
         \/ \E e \in Endpoints : UpdateEndpoint(e)
         \/ NextDay
         \/ UNCHANGED vars
  PROVE  Isolated(None)
<1>0. token \in [Tokens -> TokenRow] /\ user \in [Users -> UserRow]
  BY DEF Safe, Shapes, TypeOK
<1>1. CASE UpdatePolicy /\ UNCHANGED quotaVars
  BY <1>0, <1>1 DEF UpdatePolicy, Isolated, RowsIsolated, LocksIsolated, PlacesIsolated,
     ChargesIsolated, quotaVars, locks, SameRow
<1>2. CASE \E t \in Tokens : Lapse(t) /\ UNCHANGED quotaVars
  <2>1. PICK t \in Tokens : Lapse(t) /\ UNCHANGED quotaVars
    BY <1>2
  <2>2. \A m \in Tokens : SameRow(token'[m], token[m])
    BY <1>0, <2>1 DEF Lapse, SameRow, TokenRow
  <2>3. UNCHANGED <<user, userLock, tokenLock, op, call, usage, charges>>
    BY <2>1 DEF Lapse, locks, quotaVars
  <2> QED
    BY <2>2, <2>3 DEF Isolated, RowsIsolated, LocksIsolated, PlacesIsolated, ChargesIsolated
<1>3. CASE (\E e \in Endpoints : UpdateEndpoint(e)) \/ NextDay \/ UNCHANGED vars
  <2>1. UNCHANGED <<user, token, userLock, tokenLock, op, call, usage, charges>>
    BY <1>3 DEF UpdateEndpoint, NextDay, vars, accountVars, quotaVars
  <2> QED
    BY <2>1 DEF Isolated, RowsIsolated, LocksIsolated, PlacesIsolated, ChargesIsolated, SameRow
<1> QED
  BY <1>1, <1>2, <1>3

-----------------------------------------------------------------------------
\* Isolation is inductive.

\* Isolation holds at the start: nobody holds a row.
LEMMA InitSafe == Init => Safe
<1> SUFFICES ASSUME Init PROVE Safe
  OBVIOUS
<1>1. Shapes
  BY InitShapes
<1>2. ASSUME NEW r \in Requests PROVE RequestOK(r)
  BY TxApart, ConstantsAssumption
     DEF Init, AccountsInit, IdleOp, RequestOK, RequestLocked, RequestHolds, Tx
<1>3. ASSUME NEW c \in Calls PROVE CallSafe(c)
  BY TxApart, ConstantsAssumption
     DEF Init, AccountsInit, NewCall, CallSafe, CallLocked, CallHolds, CountedStands, Uncharged, Tx
<1> QED
  BY <1>1, <1>2, <1>3 DEF Safe

\* Every step keeps isolation.
LEMMA NextSafe == Safe /\ [Next]_vars => Safe'
<1> SUFFICES ASSUME Safe, [Next]_vars PROVE Safe'
  OBVIOUS
<1>1. Shapes'
  BY NextShapes DEF Safe
<1>2. (\A r \in Requests : RequestOK(r)') /\ (\A c \in Calls : CallSafe(c)')
  <2>1. CASE \/ UpdatePolicy /\ UNCHANGED quotaVars
             \/ \E t \in Tokens : Lapse(t) /\ UNCHANGED quotaVars
             \/ \E e \in Endpoints : UpdateEndpoint(e)
             \/ NextDay
             \/ UNCHANGED vars
    <3>1. None \notin Requests /\ None \notin Calls
      BY ConstantsAssumption DEF Tx
    <3> QED
      BY <2>1, <3>1, SettingIsolated, OthersKeep
  <2>2. ASSUME NEW r \in Requests,
               BeginRequest(r) \/ AdvanceRequest(r) \/ AbortRequest(r), UNCHANGED quotaVars
        PROVE  (\A q \in Requests : RequestOK(q)') /\ (\A c \in Calls : CallSafe(c)')
    <3>1. Isolated(r) /\ RequestOK(r)' /\ r \notin Calls
      BY <2>2, RequestIsolated, ConstantsAssumption
    <3> QED
      BY <3>1, OthersKeep
  <2>3. ASSUME NEW c \in Calls,
               \/ Authenticate(c) \/ Refuse(c) \/ AdvanceCall(c)
               \/ CommitUnseen(c) \/ CancelReserve(c) \/ Die(c)
        PROVE  (\A q \in Requests : RequestOK(q)') /\ (\A d \in Calls : CallSafe(d)')
    <3>1. Isolated(c) /\ CallSafe(c)' /\ c \notin Requests
      BY <2>3, CallIsolated, ConstantsAssumption
    <3> QED
      BY <3>1, OthersKeep
  <2> QED
    BY <2>1, <2>2, <2>3 DEF Next, AccountsNext
<1> QED
  BY <1>1, <1>2 DEF Safe

\* Every transaction holds what its place says, and what it read under a lock
\* is what the row still says.
THEOREM SafeAlways == Spec => []Safe
  BY InitSafe, NextSafe, PTL DEF Spec

-----------------------------------------------------------------------------
\* Deadlock.

\* Who holds a row waits for nothing but an application; who holds an
\* application waits for nothing.  So no transaction of a circle, each
\* waiting for a row the next one holds, can exist.
THEOREM DeadlockFree == Spec => []NoCircularWait
<1>1. Safe => NoCircularWait
  <2> SUFFICES ASSUME Safe, NEW S \in SUBSET Tx, S # {}, \A x \in S : WaitsFor(x) \in S
               PROVE  FALSE
    BY DEF NoCircularWait
  <2> DEFINE HoldsToken(y) == \E t \in Tokens : tokenLock[t] = y
             HoldsUser(y) == \E u \in Users : userLock[u] = y
  <2>1. None \notin S
    BY ConstantsAssumption
  <2>2. ASSUME NEW x \in S PROVE HoldsToken(WaitsFor(x)) \/ HoldsUser(WaitsFor(x))
    <3>1. CASE x \in Requests
      <4>1. RequestShaped(op[x])
        BY <3>1 DEF Safe, Shapes, RequestShape
      <4>2. WaitsFor(x) = RequestWaitsFor(x) /\ WaitsFor(x) # None
        BY <2>1, <3>1 DEF WaitsFor
      <4>3. CASE op[x].pc = "user"
        <5>1. op[x].user \in Users
          BY <4>1, <4>3 DEF RequestShaped
        <5> QED BY <4>2, <4>3, <5>1 DEF RequestWaitsFor
      <4>4. CASE op[x].pc = "token"
        <5>1. op[x].token \in Tokens
          BY <4>1, <4>4 DEF RequestShaped
        <5> QED BY <4>2, <4>4, <5>1 DEF RequestWaitsFor
      <4> QED
        BY <4>2, <4>3, <4>4 DEF RequestWaitsFor
    <3>2. CASE x \in Calls
      <4>1. CallShaped(call[x]) /\ x \notin Requests
        BY <3>2, ConstantsAssumption DEF Safe, Shapes, CallShape
      <4>2. WaitsFor(x) # None
        BY <2>1
      <4>3. CASE call[x].pc = "admit"
        <5>1. call[x].user \in Users
          BY <4>1, <4>3 DEF CallShaped
        <5> QED BY <4>1, <4>3, <5>1 DEF WaitsFor
      <4>4. CASE call[x].pc = "user"
        <5>1. call[x].token \in Tokens
          BY <4>1, <4>4 DEF CallShaped
        <5> QED BY <4>1, <4>4, <5>1 DEF WaitsFor
      <4> QED
        BY <4>1, <4>2, <4>3, <4>4 DEF WaitsFor
    <3> QED
      BY <3>1, <3>2 DEF Tx
  <2>3. ASSUME NEW y \in S, HoldsToken(y) PROVE WaitsFor(y) = None
    <3>1. CASE y \in Requests
      <4>1. op[y].pc = "write"
        BY <2>3, <3>1 DEF Safe, RequestOK, RequestHolds
      <4> QED BY <3>1, <4>1 DEF WaitsFor, RequestWaitsFor
    <3>2. CASE y \in Calls
      <4>1. call[y].pc \in {"token", "counted"} /\ y \notin Requests
        BY <2>3, <3>2, ConstantsAssumption DEF Safe, CallSafe, CallHolds
      <4> QED BY <4>1 DEF WaitsFor
    <3> QED
      BY <3>1, <3>2 DEF Tx
  <2>4. ASSUME NEW y \in S, HoldsUser(y) PROVE WaitsFor(y) = None \/ HoldsToken(WaitsFor(y))
    <3>1. CASE y \in Requests
      <4>1. op[y].pc \in {"token", "count", "write"} /\ RequestShaped(op[y])
        BY <2>4, <3>1 DEF Safe, Shapes, RequestShape, RequestOK, RequestHolds
      <4>2. op[y].pc = "token" => op[y].token \in Tokens
        BY <4>1 DEF RequestShaped
      <4> QED BY <3>1, <4>1, <4>2 DEF WaitsFor, RequestWaitsFor
    <3>2. CASE y \in Calls
      <4>1. call[y].pc \in {"user", "token", "counted"} /\ y \notin Requests /\ CallShaped(call[y])
        BY <2>4, <3>2, ConstantsAssumption DEF Safe, Shapes, CallShape, CallSafe, CallHolds
      <4>2. call[y].pc = "user" => call[y].token \in Tokens
        BY <4>1 DEF CallShaped
      <4> QED BY <4>1, <4>2 DEF WaitsFor
    <3> QED
      BY <3>1, <3>2 DEF Tx
  <2>5. PICK x \in S : TRUE
    OBVIOUS
  <2>6. ~ HoldsToken(WaitsFor(x))
    BY <2>1, <2>3
  <2>7. HoldsUser(WaitsFor(x))
    BY <2>2, <2>6
  <2>8. HoldsToken(WaitsFor(WaitsFor(x)))
    BY <2>1, <2>4, <2>7
  <2> QED
    BY <2>1, <2>3, <2>8
<1> QED
  BY <1>1, SafeAlways, PTL

-----------------------------------------------------------------------------
\* The ledger and the total quota.

Ledger == IsFiniteSet(charges) /\ FreshRows /\ LedgerMatches /\ QuotaRespected

Charging == \E c \in Calls : Commit(c) \/ CommitUnseen(c)

\* A console write keeps what is used, and a new total quota covers it.
LEMMA WriteKeepsUsed ==
  ASSUME Safe, FreshRows, NEW r \in Requests, WriteRequest(r), NEW m \in Tokens
  PROVE  /\ token'[m].used = token[m].used
         /\ token'[m].state = "free" => token[m].state = "free"
         /\ \/ token'[m].quota = token[m].quota
            \/ token'[m].quota > 0 => token'[m].used <= token'[m].quota
<1> DEFINE t == op[r].token
<1>1. /\ RequestLocked(r) /\ RequestShaped(op[r])
      /\ token \in [Tokens -> TokenRow] /\ token[m] \in TokenRow
  BY DEF Safe, Shapes, TypeOK, RequestShape, RequestOK
<1>2. CASE WriteCreate(r)
  <2>1. PICK n \in Tokens, g \in Grants, d \in Limits, q \in Quotas, x \in {"never", "ahead"} :
          /\ op[r].pc = "write" /\ op[r].kind = "create"
          /\ token[n].state = "free"
          /\ ValidInput(r, g, d, x)
          /\ token' = [token EXCEPT ![n] =
               [state |-> "live", owner |-> op[r].user, key |-> 1, grant |-> g,
                enabled |-> TRUE, suspended |-> FALSE, revoked |-> FALSE,
                expiry |-> x, daily |-> d, quota |-> q, used |-> 0]]
          /\ Finish(r)
          /\ UNCHANGED <<user, policy>>
    BY <1>2 DEF WriteCreate
  <2>2. CASE m = n
    <3>1. token'[m].used = 0 /\ token'[m].state = "live" /\ token'[m].quota = q /\ q \in Nat
      BY <1>1, <2>1, <2>2, ConstantsAssumption
    <3>2. token[m].used = 0
      BY <2>1, <2>2 DEF FreshRows
    <3> QED BY <3>1, <3>2
  <2>3. CASE m # n
    BY <1>1, <2>1, <2>3
  <2> QED BY <2>2, <2>3
<1>3. CASE WriteUpdate(r)
  <2>1. PICK g \in Grants, d \in Limits, q \in Quotas, x \in {"never", "ahead"}, on \in BOOLEAN :
          /\ op[r].pc = "write" /\ op[r].kind = "update"
          /\ ValidInput(r, g, d, x)
          /\ UpdateAccepted(r, q)
          /\ token' = [token EXCEPT ![op[r].token] =
               [@ EXCEPT !.grant = g, !.daily = d, !.quota = q, !.expiry = x, !.enabled = on]]
          /\ Finish(r)
          /\ UNCHANGED <<user, policy>>
    BY <1>3 DEF WriteUpdate
  <2>2. CASE m = t
    <3>1. op[r].row.used = token[m].used /\ token[m].used \in Nat
      BY <1>1, <2>1, <2>2 DEF RequestLocked, SameRow, TokenKinds, TokenRow
    <3>2. token'[m] = [token[m] EXCEPT !.grant = g, !.daily = d, !.quota = q, !.expiry = x, !.enabled = on]
      BY <1>1, <2>1, <2>2
    <3>3. token'[m].used = token[m].used /\ token'[m].state = token[m].state /\ token'[m].quota = q
      BY <1>1, <3>2 DEF TokenRow
    <3>4. q \in Nat /\ ~(q > 0 /\ q < token[m].used)
      BY <2>1, <3>1, ConstantsAssumption DEF UpdateAccepted
    <3> QED BY <3>1, <3>3, <3>4
  <2>3. CASE m # t
    BY <1>1, <2>1, <2>3
  <2> QED BY <2>2, <2>3
<1>4. CASE WriteRotate(r)
  BY <1>1, <1>4 DEF WriteRotate, TokenRow
<1>5. CASE WriteDelete(r)
  BY <1>1, <1>5 DEF WriteDelete, TokenRow
<1>6. CASE WriteRegulate(r)
  BY <1>1, <1>6 DEF WriteRegulate, TokenRow
<1>7. CASE WriteUser(r) \/ WriteSignIn(r)
  BY <1>7 DEF WriteUser, WriteSignIn
<1> QED
  BY <1>2, <1>3, <1>4, <1>5, <1>6, <1>7 DEF WriteRequest

\* Every step but a commit leaves the counters, the log and used_quota alone.
LEMMA NoChargeKeeps ==
  ASSUME Safe, FreshRows, [Next]_vars, ~Charging
  PROVE  /\ UNCHANGED <<usage, charges>>
         /\ \A m \in Tokens :
              /\ token'[m].used = token[m].used
              /\ token'[m].state = "free" => token[m].state = "free"
              /\ \/ token'[m].quota = token[m].quota
                 \/ token'[m].quota > 0 => token'[m].used <= token'[m].quota
<1>1. CASE UNCHANGED vars
  BY <1>1 DEF vars, accountVars, quotaVars
<1>2. ASSUME NEW r \in Requests,
             BeginRequest(r) \/ AdvanceRequest(r) \/ AbortRequest(r), UNCHANGED quotaVars
      PROVE  \/ UNCHANGED <<usage, charges, token>>
             \/ UNCHANGED <<usage, charges>> /\ WriteRequest(r)
  <2>1. UNCHANGED <<usage, charges>>
    BY <1>2 DEF quotaVars
  <2>2. BeginRequest(r) => UNCHANGED token
    BY BeginKeeps DEF Safe, rows
  <2>3. LockUserRow(r) \/ LockTokenRow(r) \/ CountApps(r) \/ RejectRequest(r) \/ AbortRequest(r)
          => UNCHANGED token
    BY DEF LockUserRow, LockTokenRow, CountApps, RejectRequest, AbortRequest, rows
  <2> QED
    BY <1>2, <2>1, <2>2, <2>3 DEF AdvanceRequest
<1>3. CASE \E r \in Requests :
             (BeginRequest(r) \/ AdvanceRequest(r) \/ AbortRequest(r)) /\ UNCHANGED quotaVars
  BY <1>2, <1>3, WriteKeepsUsed
<1>4. CASE (UpdatePolicy \/ \E t \in Tokens : Lapse(t)) /\ UNCHANGED quotaVars
  <2>1. token \in [Tokens -> TokenRow]
    BY DEF Safe, Shapes, TypeOK
  <2>2. ASSUME NEW t \in Tokens, Lapse(t), NEW m \in Tokens
        PROVE  /\ token'[m].used = token[m].used /\ token'[m].state = token[m].state
               /\ token'[m].quota = token[m].quota
    BY <2>1, <2>2 DEF Lapse, TokenRow
  <2>3. UpdatePolicy => UNCHANGED token
    BY DEF UpdatePolicy
  <2> QED
    BY <1>4, <2>2, <2>3 DEF quotaVars
<1>5. ASSUME NEW c \in Calls,
             Authenticate(c) \/ Refuse(c) \/ AdvanceCall(c) \/ CancelReserve(c) \/ Die(c)
      PROVE  UNCHANGED <<usage, charges, token>>
  <2>1. ~Commit(c)
    BY DEF Charging
  <2>2. Deny(c) \/ CancelReserve(c) => UNCHANGED <<usage, charges, token>>
    BY DEF Deny, CancelReserve
  <2> QED
    BY <1>5, <2>1, <2>2 DEF Authenticate, Refuse, AdvanceCall, CheckEndpoint, LockUser,
       LockToken, Count, Forward, Record, Die, accountVars, rows
<1>6. CASE NextDay \/ \E e \in Endpoints : UpdateEndpoint(e)
  BY <1>6 DEF NextDay, UpdateEndpoint, accountVars
<1> QED
  BY <1>1, <1>3, <1>4, <1>5, <1>6 DEF Next, AccountsNext, Charging

\* What a commit writes, counter by counter and row by row.
LEMMA ChargeWrites ==
  ASSUME Safe, NEW c \in Calls, Commit(c) \/ CommitUnseen(c)
  PROVE  /\ call[c].pc = "counted" /\ WriteCharge(c) /\ CallShaped(call[c])
         /\ call[c].token \in Tokens /\ call[c].user \in Users
         /\ call[c].endpoint \in Endpoints /\ call[c].day \in Days
         /\ charges' = charges \cup {ChargeOf(c)} /\ ChargeOf(c) \notin charges
         /\ \A b \in Bucket, d \in Days :
              usage'[b][d] = usage[b][d] +
                (IF b \in BucketsOf(call[c].user, call[c].token, call[c].endpoint)
                    /\ d = call[c].day THEN 1 ELSE 0)
         /\ \A t \in Tokens :
              token'[t] = IF t = call[c].token THEN [token[t] EXCEPT !.used = @ + 1] ELSE token[t]
<1> DEFINE k == call[c]
<1>1. k.pc = "counted" /\ WriteCharge(c)
  BY DEF Commit, CommitUnseen
<1>2. /\ CallShaped(k) /\ Uncharged(c)
      /\ token \in [Tokens -> TokenRow] /\ usage \in [Bucket -> [Days -> Nat]]
  BY DEF Safe, Shapes, TypeOK, CallShape, CallSafe
<1>3. k.token \in Tokens /\ k.user \in Users /\ k.endpoint \in Endpoints /\ k.day \in Days
  BY <1>1, <1>2 DEF CallShaped
<1>4. charges' = charges \cup {ChargeOf(c)} /\ ChargeOf(c) \notin charges
  BY <1>1, <1>2 DEF WriteCharge, Uncharged, ChargeOf
<1>5. \A t \in Tokens :
        token'[t] = IF t = k.token THEN [token[t] EXCEPT !.used = @ + 1] ELSE token[t]
  BY <1>1, <1>2, <1>3 DEF WriteCharge
<1>6. ASSUME NEW b \in Bucket, NEW d \in Days
      PROVE  usage'[b][d] = usage[b][d] +
               (IF b \in BucketsOf(k.user, k.token, k.endpoint) /\ d = k.day THEN 1 ELSE 0)
  <2>1. usage[b] \in [Days -> Nat] /\ usage[b][d] \in Nat
    BY <1>2
  <2>2. usage'[b] = IF b \in BucketsOf(k.user, k.token, k.endpoint)
                      THEN [usage[b] EXCEPT ![k.day] = @ + 1] ELSE usage[b]
    BY <1>1 DEF WriteCharge
  <2> QED
    BY <1>3, <2>1, <2>2
<1> QED
  BY <1>1, <1>2, <1>3, <1>4, <1>5, <1>6

\* A charge moves the counters and the log together.
LEMMA ChargeKeepsLedger ==
  ASSUME Safe, Ledger, NEW c \in Calls, Commit(c) \/ CommitUnseen(c)
  PROVE  Ledger'
<1> DEFINE k == call[c]
           z == ChargeOf(c)
<1>1. /\ k.pc = "counted" /\ CallShaped(k)
      /\ charges' = charges \cup {z} /\ z \notin charges /\ IsFiniteSet(charges)
      /\ k.token \in Tokens
      /\ \A t \in Tokens :
           token'[t] = IF t = k.token THEN [token[t] EXCEPT !.used = @ + 1] ELSE token[t]
  BY ChargeWrites DEF Ledger
<1>2. z.user = k.user /\ z.token = k.token /\ z.endpoint = k.endpoint /\ z.day = k.day
  BY DEF ChargeOf
<1>3. IsFiniteSet(charges')
  BY <1>1, FS_AddElement
<1>4. token[k.token] \in TokenRow /\ CallLocked(c) /\ CountedStands(c)
  BY <1>1 DEF Safe, Shapes, TypeOK, CallSafe
<1>5. /\ token'[k.token].used = token[k.token].used + 1
      /\ token'[k.token].quota = token[k.token].quota
      /\ token'[k.token].state = token[k.token].state
      /\ token[k.token].used \in Nat /\ token[k.token].quota \in Nat
  BY <1>1, <1>4, ConstantsAssumption DEF TokenRow
<1>6. FreshRows'
  <2>1. token[k.token].state = "live"
    BY <1>1, <1>4 DEF CallLocked, SameRow
  <2> QED
    BY <1>1, <1>5, <2>1 DEF Ledger, FreshRows
<1>7. QuotaRespected'
  <2>1. k.trow.used = token[k.token].used /\ k.trow.quota = token[k.token].quota /\ ~Spent(c)
    BY <1>1, <1>4 DEF CallLocked, SameRow, CountedStands
  <2>2. token[k.token].quota > 0 => token[k.token].used < token[k.token].quota
    BY <1>5, <2>1 DEF Spent
  <2>3. token'[k.token].quota > 0 => token'[k.token].used <= token'[k.token].quota
    BY <1>5, <2>2
  <2>4. ASSUME NEW t \in Tokens, t # k.token
        PROVE  token'[t].quota > 0 => token'[t].used <= token'[t].quota
    BY <1>1, <2>4 DEF Ledger, QuotaRespected
  <2> QED
    BY <2>3, <2>4 DEF QuotaRespected
<1>8. ASSUME NEW b \in Bucket, NEW d \in Days
      PROVE  usage'[b][d] = Cardinality({x \in charges' :
               b \in BucketsOf(x.user, x.token, x.endpoint) /\ x.day = d})
  <2> DEFINE old == {x \in charges : b \in BucketsOf(x.user, x.token, x.endpoint) /\ x.day = d}
             new == {x \in charges' : b \in BucketsOf(x.user, x.token, x.endpoint) /\ x.day = d}
             mine == b \in BucketsOf(k.user, k.token, k.endpoint) /\ d = k.day
  <2>1. usage'[b][d] = usage[b][d] + (IF mine THEN 1 ELSE 0)
    BY ChargeWrites
  <2>2. usage[b][d] = Cardinality(old)
    BY DEF Ledger, LedgerMatches
  <2>3. IsFiniteSet(old) /\ Cardinality(old) \in Nat
    BY <1>1, FS_Subset, FS_CardinalityType
  <2>4. new = (IF mine THEN old \cup {z} ELSE old) /\ z \notin old
    BY <1>1, <1>2
  <2> HIDE DEF old, new, mine
  <2>5. CASE mine
    <3>1. new = old \cup {z} /\ usage'[b][d] = usage[b][d] + 1
      BY <2>1, <2>4, <2>5
    <3>2. Cardinality(new) = Cardinality(old) + 1
      BY <2>3, <2>4, <3>1, FS_AddElement
    <3>3. usage'[b][d] = Cardinality(new)
      BY <2>2, <3>1, <3>2
    <3> QED
      BY <3>3 DEF new
  <2>6. CASE ~mine
    <3>1. usage'[b][d] = Cardinality(new)
      BY <2>1, <2>2, <2>3, <2>4, <2>6
    <3> QED
      BY <3>1 DEF new
  <2> QED
    BY <2>5, <2>6
<1>9. ASSUME NEW t \in Tokens
      PROVE  token'[t].used = Cardinality({x \in charges' : x.token = t})
  <2> DEFINE old == {x \in charges : x.token = t}
             new == {x \in charges' : x.token = t}
  <2>1. token[t].used = Cardinality(old)
    BY DEF Ledger, LedgerMatches
  <2>2. IsFiniteSet(old) /\ Cardinality(old) \in Nat
    BY <1>1, FS_Subset, FS_CardinalityType
  <2>3. new = (IF t = k.token THEN old \cup {z} ELSE old) /\ z \notin old
    BY <1>1, <1>2
  <2> HIDE DEF old, new
  <2>4. CASE t = k.token
    <3>1. new = old \cup {z} /\ token'[t].used = token[t].used + 1
      BY <1>5, <2>3, <2>4
    <3>2. Cardinality(new) = Cardinality(old) + 1
      BY <2>2, <2>3, <3>1, FS_AddElement
    <3>3. token'[t].used = Cardinality(new)
      BY <2>1, <3>1, <3>2
    <3> QED
      BY <3>3 DEF new
  <2>5. CASE t # k.token
    <3>1. token'[t].used = Cardinality(new)
      BY <1>1, <2>1, <2>3, <2>5
    <3> QED
      BY <3>1 DEF new
  <2> QED
    BY <2>4, <2>5
<1>10. LedgerMatches'
  BY <1>8, <1>9 DEF LedgerMatches
<1> QED
  BY <1>3, <1>6, <1>7, <1>10 DEF Ledger

\* The ledger is empty at the start.
LEMMA InitLedger == Init => Ledger
<1> SUFFICES ASSUME Init PROVE Ledger
  OBVIOUS
<1>1. charges = {} /\ IsFiniteSet(charges)
  BY FS_EmptySet DEF Init
<1>2. \A t \in Tokens : token[t].used = 0
  BY DatabaseAssumption DEF Init, AccountsInit
<1>3. ASSUME NEW b \in Bucket, NEW d \in Days PROVE usage[b][d] = 0
  BY DEF Init
<1>4. LedgerMatches
  BY <1>1, <1>2, <1>3, FS_EmptySet DEF LedgerMatches
<1>5. QuotaRespected
  <2>1. \A t \in Tokens : token[t].quota \in Nat
    BY DatabaseAssumption, ConstantsAssumption DEF Init, AccountsInit, TokenRow
  <2> QED
    BY <1>2, <2>1 DEF QuotaRespected
<1> QED
  BY <1>1, <1>2, <1>4, <1>5 DEF Ledger, FreshRows

\* Every step keeps the ledger.
LEMMA NextLedger == Safe /\ Ledger /\ [Next]_vars => Ledger'
<1> SUFFICES ASSUME Safe, Ledger, [Next]_vars PROVE Ledger'
  OBVIOUS
<1>1. CASE Charging
  BY <1>1, ChargeKeepsLedger DEF Charging
<1>2. CASE ~Charging
  <2>1. /\ UNCHANGED <<usage, charges>>
        /\ \A m \in Tokens :
             /\ token'[m].used = token[m].used
             /\ token'[m].state = "free" => token[m].state = "free"
             /\ \/ token'[m].quota = token[m].quota
                \/ token'[m].quota > 0 => token'[m].used <= token'[m].quota
    BY <1>2, NoChargeKeeps DEF Ledger
  <2>2. IsFiniteSet(charges') /\ FreshRows' /\ QuotaRespected'
    BY <2>1 DEF Ledger, FreshRows, QuotaRespected
  <2>3. LedgerMatches'
    BY <2>1 DEF Ledger, LedgerMatches
  <2> QED
    BY <2>2, <2>3 DEF Ledger
<1> QED
  BY <1>1, <1>2

\* The counters are the sums of the admitted rows of the log, whatever was
\* cancelled, lost, rotated or deleted on the way.
THEOREM LedgerCorrect == Spec => []LedgerMatches
<1>1. Ledger => LedgerMatches
  BY DEF Ledger
<1> QED
  BY InitSafe, NextSafe, InitLedger, NextLedger, <1>1, PTL DEF Spec

\* No application uses more than its total quota.
THEOREM QuotaCorrect == Spec => []QuotaRespected
<1>1. Ledger => QuotaRespected
  BY DEF Ledger
<1> QED
  BY InitSafe, NextSafe, InitLedger, NextLedger, <1>1, PTL DEF Spec

-----------------------------------------------------------------------------
\* What a commit may rely on.

\* Only the commit of c charges c and moves it out of the reservation.
LEMMA ChargedCommits ==
  ASSUME Safe, Ledger, [Next]_vars, NEW c \in Calls, Charged(c)
  PROVE  Commit(c) \/ CommitUnseen(c)
<1>1. charges' # charges /\ call[c].pc = "counted" /\ call'[c].pc # "counted"
  BY DEF Charged
<1>2. Charging
  BY <1>1, NoChargeKeeps DEF Ledger
<1>3. PICK d \in Calls : Commit(d) \/ CommitUnseen(d)
  BY <1>2 DEF Charging
<1>4. c # d => call'[c] = call[c]
  BY <1>3, CommitIsolated DEF Isolated, PlacesIsolated
<1> QED
  BY <1>1, <1>3, <1>4

\* When a call is charged, the account's and the application's limit in force
\* and the endpoint limit it read have room for it.
THEOREM LimitsRespected == Spec => AdmitWithinLimits
<1>1. Safe /\ Ledger /\ [Next]_vars => ChargedWithinLimits
  <2> SUFFICES ASSUME Safe, Ledger, [Next]_vars, NEW c \in Calls, Charged(c)
               PROVE  LET k == call[c]
                      IN  /\ usage'[UserBucket(k.user)][k.day] <= user[k.user].daily
                          /\ usage'[TokenBucket(k.token)][k.day] <= token[k.token].daily
                          /\ usage'[EndpointBucket(k.user, k.endpoint)][k.day] <= k.elimit
    BY DEF ChargedWithinLimits
  <2> DEFINE k == call[c]
  <2>1. Commit(c) \/ CommitUnseen(c)
    BY ChargedCommits
  <2>2. /\ k.pc = "counted" /\ CallShaped(k) /\ k.token \in Tokens /\ k.user \in Users
        /\ k.endpoint \in Endpoints /\ k.day \in Days
        /\ \A b \in Bucket, d \in Days :
             usage'[b][d] = usage[b][d] +
               (IF b \in BucketsOf(k.user, k.token, k.endpoint) /\ d = k.day THEN 1 ELSE 0)
    BY <2>1, ChargeWrites
  <2>3. CallLocked(c) /\ CountedStands(c)
    BY DEF Safe, CallSafe
  <2>4. /\ k.urow = user[k.user] /\ k.trow.daily = token[k.token].daily
        /\ k.urow \in UserRow /\ k.trow \in TokenRow /\ k.elimit \in Limits
    BY <2>2, <2>3 DEF CallLocked, SameRow, CallShaped
  <2>5. k.urow.daily \in Nat /\ k.trow.daily \in Nat /\ k.elimit \in Nat
    BY <2>4, ConstantsAssumption DEF UserRow, TokenRow
  <2>6. ASSUME NEW b \in BucketsOf(k.user, k.token, k.endpoint)
        PROVE  usage'[b][k.day] = usage[b][k.day] + 1 /\ usage[b][k.day] \in Nat
    <3>1. b \in Bucket
      BY <2>2, BucketsApart
    <3> QED
      BY <2>2, <3>1 DEF Safe, Shapes, TypeOK
  <2>7. {UserBucket(k.user), TokenBucket(k.token), EndpointBucket(k.user, k.endpoint)}
          \subseteq BucketsOf(k.user, k.token, k.endpoint)
    BY DEF BucketsOf
  <2>8. /\ usage[UserBucket(k.user)][k.day] < k.urow.daily
        /\ usage[TokenBucket(k.token)][k.day] < k.trow.daily
        /\ usage[EndpointBucket(k.user, k.endpoint)][k.day] < k.elimit
    BY <2>2, <2>3 DEF CountedStands
  <2> QED
    BY <2>4, <2>5, <2>6, <2>7, <2>8
<1> QED
  BY InitSafe, NextSafe, InitLedger, NextLedger, <1>1, PTL DEF Spec, AdmitWithinLimits

\* A call is charged only on a credential that is good when it commits.
THEOREM CredentialCurrent == Spec => AdmitCurrentCredential
<1>1. Safe /\ Ledger /\ [Next]_vars => ChargedOnCredential
  <2> SUFFICES ASSUME Safe, Ledger, [Next]_vars, NEW c \in Calls, Charged(c)
               PROVE  LET k == call[c]
                          t == token[k.token]
                      IN  /\ user[k.user].enabled
                          /\ t.state = "live" /\ t.owner = k.user
                          /\ t.enabled /\ ~t.suspended /\ ~t.revoked
                          /\ t.key = k.key /\ k.ip \in t.grant.ips
    BY DEF ChargedOnCredential
  <2>1. call[c].pc = "counted"
    BY DEF Charged
  <2>2. CallShaped(call[c]) /\ CallLocked(c) /\ CountedStands(c)
    BY DEF Safe, Shapes, CallShape, CallSafe
  <2> QED
    BY <2>1, <2>2 DEF CallShaped, CallLocked, CountedStands, SameRow
<1> QED
  BY InitSafe, NextSafe, InitLedger, NextLedger, <1>1, PTL DEF Spec, AdmitCurrentCredential

-----------------------------------------------------------------------------
\* The administrator's word on an application.

\* What each step may do to the row of one application.
LEMMA TokenSteps ==
  ASSUME Safe, Ledger, [Next]_vars, NEW t \in Tokens
  PROVE  \/ token'[t] = token[t]
         \/ token'[t] = [token[t] EXCEPT !.expiry = "past"]
         \/ \E c \in Calls : /\ call[c].pc = "counted" /\ call[c].token = t
                             /\ token'[t] = [token[t] EXCEPT !.used = @ + 1]
         \/ \E r \in Requests : /\ op[r].pc = "write" /\ op[r].kind \in TokenKinds
                                /\ op[r].token = t
                                /\ WriteRequest(r)
         \/ token[t].state = "free" /\ \E r \in Requests : WriteCreate(r)
<1>0. token \in [Tokens -> TokenRow]
  BY DEF Safe, Shapes, TypeOK
<1>1. CASE Charging
  <2>1. PICK c \in Calls : Commit(c) \/ CommitUnseen(c)
    BY <1>1 DEF Charging
  <2>2. /\ call[c].pc = "counted"
        /\ token'[t] = IF t = call[c].token THEN [token[t] EXCEPT !.used = @ + 1] ELSE token[t]
    BY <2>1, ChargeWrites
  <2> QED
    BY <2>2
<1>2. CASE \E r \in Requests : WriteRequest(r)
  <2>1. PICK r \in Requests : WriteRequest(r)
    BY <1>2
  <2>2. CASE WriteCreate(r)
    <3>1. \E n \in Tokens : /\ token[n].state = "free"
                            /\ \A m \in Tokens : m # n => token'[m] = token[m]
      BY <1>0, <2>2 DEF WriteCreate
    <3> QED
      BY <2>2, <3>1
  <2>3. CASE WriteUpdate(r) \/ WriteRotate(r) \/ WriteDelete(r) \/ WriteRegulate(r)
    <3>1. /\ op[r].pc = "write" /\ op[r].kind \in TokenKinds
          /\ \A m \in Tokens : m # op[r].token => token'[m] = token[m]
      BY <1>0, <2>3 DEF WriteUpdate, WriteRotate, WriteDelete, WriteRegulate, TokenKinds
    <3> QED
      BY <2>1, <3>1
  <2>4. CASE WriteUser(r) \/ WriteSignIn(r)
    BY <2>4 DEF WriteUser, WriteSignIn
  <2> QED
    BY <2>1, <2>2, <2>3, <2>4 DEF WriteRequest
<1>3. CASE \E m \in Tokens : Lapse(m)
  BY <1>0, <1>3 DEF Lapse
<1>4. CASE UNCHANGED token
  BY <1>4
<1>5. ASSUME NEW r \in Requests, BeginRequest(r) \/ AdvanceRequest(r) \/ AbortRequest(r),
             ~WriteRequest(r)
      PROVE  UNCHANGED token
  <2>1. BeginRequest(r) => UNCHANGED token
    BY BeginKeeps DEF Safe, rows
  <2> QED
    BY <1>5, <2>1 DEF AdvanceRequest, LockUserRow, LockTokenRow, CountApps, RejectRequest,
       AbortRequest, rows
<1>6. ASSUME NEW c \in Calls,
             Authenticate(c) \/ Refuse(c) \/ AdvanceCall(c) \/ CancelReserve(c) \/ Die(c),
             ~Commit(c)
      PROVE  UNCHANGED token
  <2>1. Deny(c) \/ CancelReserve(c) => UNCHANGED token
    BY DEF Deny, CancelReserve
  <2> QED
    BY <1>6, <2>1 DEF Authenticate, Refuse, AdvanceCall, CheckEndpoint, LockUser,
       LockToken, Count, Forward, Record, Die, accountVars, rows
<1>7. UpdatePolicy \/ NextDay \/ (\E e \in Endpoints : UpdateEndpoint(e)) \/ UNCHANGED vars
        => UNCHANGED token
  BY DEF UpdatePolicy, NextDay, UpdateEndpoint, vars, accountVars
<1> QED
  BY <1>1, <1>2, <1>3, <1>4, <1>5, <1>6, <1>7 DEF Next, AccountsNext, Charging

\* Nobody writes a revoked application but to delete it.
LEMMA NextRevoked == Safe /\ Ledger /\ [Next]_vars => RevokedStands
<1> SUFFICES ASSUME Safe, Ledger, [Next]_vars, NEW t \in Tokens,
                    token[t].state = "live", token[t].revoked
             PROVE  \/ token'[t].state = "deleted"
                    \/ [token'[t] EXCEPT !.expiry = token[t].expiry] = token[t]
  BY DEF RevokedStands
<1> DEFINE w == token[t]
<1>1. w \in TokenRow
  BY DEF Safe, Shapes, TypeOK
<1>2. [w EXCEPT !.expiry = w.expiry] = w
  BY <1>1 DEF TokenRow
<1>3. [[w EXCEPT !.expiry = "past"] EXCEPT !.expiry = w.expiry] = w
  BY <1>1 DEF TokenRow
<1>4. ASSUME NEW c \in Calls, call[c].pc = "counted", call[c].token = t
      PROVE  FALSE
  <2>1. CallLocked(c) /\ CountedStands(c)
    BY DEF Safe, CallSafe
  <2> QED
    BY <1>4, <2>1 DEF CallLocked, CountedStands, SameRow
<1>5. ASSUME NEW r \in Requests, op[r].pc = "write", op[r].kind \in TokenKinds,
             op[r].token = t, WriteRequest(r)
      PROVE  token'[t].state = "deleted"
  <2>1. op[r].row.revoked
    BY <1>5 DEF Safe, RequestOK, RequestLocked, SameRow
  <2>2. WriteDelete(r)
    BY <1>5, <2>1 DEF WriteRequest, WriteCreate, WriteUpdate, WriteRotate, WriteRegulate,
       WriteUser, WriteSignIn, UpdateAccepted, TokenKinds
  <2>3. token \in [Tokens -> TokenRow]
    BY DEF Safe, Shapes, TypeOK
  <2> QED
    BY <1>5, <2>2, <2>3 DEF WriteDelete, TokenRow
<1> HIDE DEF w
<1> QED
  BY <1>2, <1>3, <1>4, <1>5, TokenSteps DEF w

\* A revoked application keeps its row to the end: who was waiting for the row
\* when it was revoked finds that out under the lock.
THEOREM RevocationFinal == Spec => RevokedIsFinal
  BY InitSafe, NextSafe, InitLedger, NextLedger, NextRevoked, PTL DEF Spec, RevokedIsFinal

\* Only an administrator's request lifts a suspension.
THEOREM SuspensionFinal == Spec => SuspensionStands
<1>1. Safe /\ Ledger /\ [Next]_vars => LiftedByAdmin
  <2> SUFFICES ASSUME Safe, Ledger, [Next]_vars, NEW t \in Tokens,
                      token[t].state = "live", token[t].suspended, ~token'[t].suspended
               PROVE  \E r \in Requests : /\ op[r].kind = "regulate" /\ op[r].token = t
                                          /\ op[r].pc = "write" /\ op'[r].pc = "done"
    BY DEF LiftedByAdmin
  <2>1. token \in [Tokens -> TokenRow] /\ token[t] \in TokenRow
    BY DEF Safe, Shapes, TypeOK
  <2>2. token'[t] # token[t] /\ token'[t] # [token[t] EXCEPT !.expiry = "past"]
        /\ token'[t] # [token[t] EXCEPT !.used = @ + 1]
    BY <2>1 DEF TokenRow
  <2>3. PICK r \in Requests : /\ op[r].pc = "write" /\ op[r].kind \in TokenKinds
                              /\ op[r].token = t /\ WriteRequest(r)
    BY <2>2, TokenSteps
  <2>4. ~(WriteUpdate(r) \/ WriteRotate(r) \/ WriteDelete(r))
    <3>1. ASSUME WriteUpdate(r) PROVE token'[t].suspended = token[t].suspended
      <4>1. PICK g \in Grants, d \in Limits, q \in Quotas, x \in {"never", "ahead"}, on \in BOOLEAN :
              /\ op[r].pc = "write" /\ op[r].kind = "update"
              /\ ValidInput(r, g, d, x)
              /\ UpdateAccepted(r, q)
              /\ token' = [token EXCEPT ![op[r].token] =
                   [@ EXCEPT !.grant = g, !.daily = d, !.quota = q, !.expiry = x, !.enabled = on]]
              /\ Finish(r)
              /\ UNCHANGED <<user, policy>>
        BY <3>1 DEF WriteUpdate
      <4>2. token'[t] = [token[t] EXCEPT !.grant = g, !.daily = d, !.quota = q, !.expiry = x, !.enabled = on]
        BY <2>1, <2>3, <4>1
      <4> QED
        BY <2>1, <4>2 DEF TokenRow
    <3>2. ASSUME WriteRotate(r) PROVE token'[t].suspended = token[t].suspended
      BY <2>1, <2>3, <3>2 DEF WriteRotate, TokenRow
    <3>3. ASSUME WriteDelete(r) PROVE token'[t].suspended = token[t].suspended
      BY <2>1, <2>3, <3>3 DEF WriteDelete, TokenRow
    <3> QED
      BY <3>1, <3>2, <3>3
  <2>5. WriteRegulate(r)
    BY <2>3, <2>4 DEF WriteRequest, WriteCreate, WriteUser, WriteSignIn, TokenKinds
  <2>6. op'[r].pc = "done"
    BY <2>3, WriteKeeps, FinishShapes DEF Safe
  <2> QED
    BY <2>3, <2>5, <2>6 DEF WriteRegulate
<1> QED
  BY InitSafe, NextSafe, InitLedger, NextLedger, <1>1, PTL DEF Spec, SuspensionStands

\* What the administrator decided about an application (regulateToken) stands.
THEOREM RegulationCorrect == Spec => RegulationStands
  BY RevocationFinal, SuspensionFinal DEF RegulationStands

-----------------------------------------------------------------------------
\* The number of applications.

Rooms == \A r \in Requests : RoomLeft(r)

\* The write of a request leaves the application with its owner, and alive if
\* it was.
LEMMA WriteKeepsOwner ==
  ASSUME Safe, NEW r \in Requests, WriteRequest(r), op[r].kind \in TokenKinds
  PROVE  /\ token'[op[r].token].owner = token[op[r].token].owner
         /\ token[op[r].token].state = "live"
<1> DEFINE t == op[r].token
<1>1. token \in [Tokens -> TokenRow] /\ op[r].pc = "write"
  BY WriteKeeps DEF Safe, Shapes, TypeOK
<1>2. t \in Tokens /\ token[t] \in TokenRow
  BY <1>1 DEF Safe, Shapes, RequestShape, RequestShaped
<1>3. token[t].state = "live"
  BY <1>1 DEF Safe, RequestOK, RequestLocked, SameRow
<1>4. CASE WriteUpdate(r)
  <2>1. PICK g \in Grants, d \in Limits, q \in Quotas, x \in {"never", "ahead"}, on \in BOOLEAN :
          /\ op[r].pc = "write" /\ op[r].kind = "update"
          /\ ValidInput(r, g, d, x)
          /\ UpdateAccepted(r, q)
          /\ token' = [token EXCEPT ![op[r].token] =
               [@ EXCEPT !.grant = g, !.daily = d, !.quota = q, !.expiry = x, !.enabled = on]]
          /\ Finish(r)
          /\ UNCHANGED <<user, policy>>
    BY <1>4 DEF WriteUpdate
  <2>2. token'[t] = [token[t] EXCEPT !.grant = g, !.daily = d, !.quota = q, !.expiry = x, !.enabled = on]
    BY <1>1, <1>2, <2>1
  <2> QED BY <1>2, <1>3, <2>2 DEF TokenRow
<1>5. CASE WriteRotate(r)
  BY <1>1, <1>2, <1>3, <1>5 DEF WriteRotate, TokenRow
<1>6. CASE WriteDelete(r)
  BY <1>1, <1>2, <1>3, <1>6 DEF WriteDelete, TokenRow
<1>7. CASE WriteRegulate(r)
  BY <1>1, <1>2, <1>3, <1>7 DEF WriteRegulate, TokenRow
<1> QED
  BY <1>4, <1>5, <1>6, <1>7 DEF WriteRequest, WriteCreate, WriteUser, WriteSignIn, TokenKinds

\* Only a creation adds to anyone's applications.
LEMMA OthersAddNone ==
  ASSUME Safe, Ledger, [Next]_vars, \A r \in Requests : ~WriteCreate(r), NEW u \in Users
  PROVE  AppsOf(u)' \subseteq AppsOf(u)
<1> SUFFICES ASSUME NEW t \in Tokens, token'[t].state = "live", token'[t].owner = u
             PROVE  token[t].state = "live" /\ token[t].owner = u
  BY DEF AppsOf
<1>1. token[t] \in TokenRow
  BY DEF Safe, Shapes, TypeOK
<1>2. ASSUME NEW r \in Requests, op[r].kind \in TokenKinds, op[r].token = t, WriteRequest(r)
      PROVE  token[t].state = "live" /\ token[t].owner = token'[t].owner
  BY <1>2, WriteKeepsOwner
<1>3. CASE token'[t] = [token[t] EXCEPT !.used = @ + 1]
  BY <1>1, <1>3 DEF TokenRow
<1>4. CASE token'[t] = [token[t] EXCEPT !.expiry = "past"]
  BY <1>1, <1>4 DEF TokenRow
<1> QED
  BY <1>2, <1>3, <1>4, TokenSteps

\* A creation adds one, to the applications of its account.
LEMMA CreationAddsOne ==
  ASSUME Safe, NEW r \in Requests, WriteCreate(r), NEW u \in Users
  PROVE  /\ op[r].user = u => Cardinality(AppsOf(u)') = Cardinality(AppsOf(u)) + 1
         /\ op[r].user # u => AppsOf(u)' \subseteq AppsOf(u)
<1>1. token \in [Tokens -> TokenRow]
  BY DEF Safe, Shapes, TypeOK
<1>2. PICK t \in Tokens : /\ token[t].state = "free"
                          /\ token'[t].state = "live" /\ token'[t].owner = op[r].user
                          /\ \A m \in Tokens : m # t => token'[m] = token[m]
  BY <1>1 DEF WriteCreate
<1>3. ASSUME op[r].user = u
      PROVE  Cardinality(AppsOf(u)') = Cardinality(AppsOf(u)) + 1
  <2>1. AppsOf(u)' = AppsOf(u) \cup {t} /\ t \notin AppsOf(u)
    BY <1>2, <1>3 DEF AppsOf
  <2>2. IsFiniteSet(AppsOf(u))
    BY TokensAssumption, FS_Subset DEF AppsOf
  <2> QED
    BY <2>1, <2>2, FS_AddElement
<1> QED
  BY <1>2, <1>3 DEF AppsOf

\* A smaller set of applications is no larger.
LEMMA FewerApps ==
  ASSUME NEW u \in Users, AppsOf(u)' \subseteq AppsOf(u)
  PROVE  /\ Cardinality(AppsOf(u)) \in Nat /\ Cardinality(AppsOf(u)') \in Nat
         /\ Cardinality(AppsOf(u)') <= Cardinality(AppsOf(u))
<1>1. IsFiniteSet(AppsOf(u))
  BY TokensAssumption, FS_Subset DEF AppsOf
<1>2. IsFiniteSet(AppsOf(u)')
  BY <1>1, FS_Subset
<1> QED
  BY <1>1, <1>2, FS_Subset, FS_CardinalityType

\* A creation comes to its write by counting.
LEMMA WriteAfterCount ==
  ASSUME Safe, [Next]_vars, NEW r \in Requests, op'[r].pc = "write", op'[r].kind = "create"
  PROVE  op'[r] = op[r] \/ CountApps(r)
<1>1. CASE \/ UpdatePolicy /\ UNCHANGED quotaVars
           \/ \E t \in Tokens : Lapse(t) /\ UNCHANGED quotaVars
           \/ \E e \in Endpoints : UpdateEndpoint(e)
           \/ NextDay
           \/ UNCHANGED vars
  BY <1>1 DEF UpdatePolicy, Lapse, UpdateEndpoint, NextDay, vars, accountVars
<1>2. ASSUME NEW c \in Calls,
             \/ Authenticate(c) \/ Refuse(c) \/ AdvanceCall(c)
             \/ CommitUnseen(c) \/ CancelReserve(c) \/ Die(c)
      PROVE  op'[r] = op[r]
  <2>1. r # c
    BY TxApart
  <2> QED
    BY <1>2, <2>1, CallIsolated DEF Isolated, PlacesIsolated
<1>3. ASSUME NEW q \in Requests, q # r,
             BeginRequest(q) \/ AdvanceRequest(q) \/ AbortRequest(q), UNCHANGED quotaVars
      PROVE  op'[r] = op[r]
  BY <1>3, RequestIsolated DEF Isolated, PlacesIsolated
<1>4. CASE BeginRequest(r) \/ AdvanceRequest(r) \/ AbortRequest(r)
  <2>1. /\ op \in [Requests -> OpRow] /\ op[r] \in OpRow /\ RequestShaped(op[r])
    BY DEF Safe, Shapes, TypeOK, RequestShape
  <2>2. ~BeginRequest(r)
    BY BeginKeeps DEF Safe
  <2>3. ~Finish(r)
    BY FinishShapes DEF Safe
  <2>4. ~LockUserRow(r)
    BY <2>1 DEF LockUserRow, Then, OpRow
  <2>5. ~LockTokenRow(r)
    BY <2>1 DEF LockTokenRow, OpRow, RequestShaped, TokenKinds
  <2>6. ~WriteRequest(r)
    BY <2>3, WriteKeeps DEF Safe
  <2> QED
    BY <1>4, <2>2, <2>3, <2>4, <2>5, <2>6 DEF AdvanceRequest, RejectRequest, AbortRequest
<1> QED
  BY <1>1, <1>2, <1>3, <1>4 DEF Next, AccountsNext

\* The room that was found stays until it is taken: who could take it needs
\* the account's row.
LEMMA NextRooms == Safe /\ Ledger /\ Rooms /\ [Next]_vars => Rooms'
<1> SUFFICES ASSUME Safe, Ledger, Rooms, [Next]_vars, NEW r \in Requests,
                    op'[r].pc = "write", op'[r].kind = "create"
             PROVE  (Cardinality(AppsOf(op[r].user)) < op[r].seen.maxApps)'
  BY DEF Rooms, RoomLeft
<1>1. /\ op \in [Requests -> OpRow] /\ op[r] \in OpRow /\ op[r].seen.maxApps \in Nat
      /\ RequestShaped(op[r]) /\ RequestLocked(r) /\ RoomLeft(r)
  BY ConstantsAssumption DEF Safe, Shapes, TypeOK, OpRow, RequestShape, RequestOK, Rooms
<1>2. CASE op'[r] = op[r]
  <2>1. PICK u \in Users : u = op[r].user
    BY <1>1, <1>2 DEF RequestShaped
  <2>2. userLock[u] = r /\ Cardinality(AppsOf(u)) < op[r].seen.maxApps
    BY <1>1, <1>2, <2>1 DEF RequestLocked, RoomLeft
  <2>3. ASSUME NEW q \in Requests, WriteCreate(q)
        PROVE  op[q].user # u
    <3>1. q # r
      <4>1. WriteCreate(r) => op'[r].pc = "done"
        BY FinishShapes DEF Safe, WriteCreate
      <4> QED BY <2>3, <4>1
    <3>2. userLock[op[q].user] = q
      BY <2>3 DEF Safe, RequestOK, RequestLocked, WriteCreate
    <3> QED
      BY <2>2, <3>1, <3>2
  <2>4. AppsOf(u)' \subseteq AppsOf(u)
    BY <2>3, OthersAddNone, CreationAddsOne
  <2>5. Cardinality(AppsOf(u)') < op[r].seen.maxApps
    BY <1>1, <2>2, <2>4, FewerApps
  <2> QED
    BY <1>2, <2>1, <2>5
<1>3. CASE CountApps(r)
  <2>1. /\ Cardinality(AppsOf(op[r].user)) < op[r].seen.maxApps
        /\ op'[r].user = op[r].user /\ op'[r].seen = op[r].seen /\ token' = token
    BY <1>1, <1>3 DEF CountApps, OpRow, rows
  <2> QED
    BY <2>1 DEF AppsOf
<1> QED
  BY <1>2, <1>3, WriteAfterCount

LEMMA InitRooms == Init => Rooms
  BY DEF Init, AccountsInit, IdleOp, Rooms, RoomLeft

\* Whoever creates an application has held the account's row since it counted,
\* so the new one is within the limit it read (createToken).
THEOREM PolicyRespected == Spec => AppsWithinPolicy
<1>1. Safe /\ Ledger /\ Rooms /\ [Next]_vars =>
        [\A u \in Users :
           Cardinality(AppsOf(u)') > Cardinality(AppsOf(u)) =>
             \E r \in Requests : /\ op[r].user = u /\ op[r].pc = "write"
                                 /\ Cardinality(AppsOf(u)') <= op[r].seen.maxApps]_<<token, op>>
  <2> SUFFICES ASSUME Safe, Ledger, Rooms, [Next]_vars, NEW u \in Users,
                      Cardinality(AppsOf(u)') > Cardinality(AppsOf(u))
               PROVE  \E r \in Requests : /\ op[r].user = u /\ op[r].pc = "write"
                                          /\ Cardinality(AppsOf(u)') <= op[r].seen.maxApps
    OBVIOUS
  <2>1. ~(AppsOf(u)' \subseteq AppsOf(u))
    BY FewerApps
  <2>2. PICK r \in Requests : WriteCreate(r) /\ op[r].user = u
    BY <2>1, OthersAddNone, CreationAddsOne
  <2>3. /\ op[r].pc = "write" /\ op[r].kind = "create" /\ op[r].seen.maxApps \in Nat
    BY <2>2, ConstantsAssumption DEF WriteCreate, Safe, Shapes, TypeOK, OpRow
  <2>4. Cardinality(AppsOf(u)) < op[r].seen.maxApps
    BY <2>2, <2>3 DEF Rooms, RoomLeft
  <2>5. Cardinality(AppsOf(u)') = Cardinality(AppsOf(u)) + 1 /\ Cardinality(AppsOf(u)) \in Nat
    <3>1. IsFiniteSet(AppsOf(u))
      BY TokensAssumption, FS_Subset DEF AppsOf
    <3> QED
      BY <2>2, <3>1, CreationAddsOne, FS_CardinalityType
  <2> QED
    BY <2>2, <2>3, <2>4, <2>5
<1> QED
  BY InitSafe, NextSafe, InitLedger, NextLedger, InitRooms, NextRooms, <1>1, PTL
     DEF Spec, AppsWithinPolicy

\* The invariant is inductive as a whole.
THEOREM Invariance == Spec => []IInv
<1>1. Safe /\ Ledger /\ Rooms => IInv
  BY DEF Safe, Shapes, Ledger, Rooms, IInv
<1> QED
  BY InitSafe, NextSafe, InitLedger, NextLedger, InitRooms, NextRooms, <1>1, PTL DEF Spec

-----------------------------------------------------------------------------
\* Answers and log.

Mine(c) == {x \in charges : x.call = c}

\* A call has no outcome before it leaves the reservation; its outcome says
\* whether it has an admitted row; and recordRequest comes last.
Answered(c) ==
  /\ call[c].pc \in {"new", "authed", "admit", "user", "token", "counted"} =>
       call[c].result = None /\ c \notin refusals
  /\ call[c].pc = "upstream" => call[c].result = "admitted"
  /\ call[c].pc \in {"upstream", "answer"} => c \notin refusals
  /\ call[c].result = "admitted" => c \notin refusals /\ \E x \in charges : Mine(c) = {x}
  /\ call[c].result = "unavailable" => Mine(c) = {} \/ c \in open
  /\ call[c].result \notin {"admitted", "unavailable"} => Mine(c) = {}

\* The outcome of c depends on its own place and rows.
LEMMA AnsweredSame ==
  ASSUME NEW c \in Calls, Answered(c), call'[c] = call[c], Mine(c)' = Mine(c),
         c \in open => c \in open', c \in refusals' => c \in refusals
  PROVE  Answered(c)'
<1>1. (\E x \in charges : Mine(c) = {x}) => \E x \in charges' : Mine(c)' = {x}
  BY DEF Mine
<1> QED
  BY <1>1 DEF Answered

\* A step of another call leaves the row and the outcome of c alone.
LEMMA CallTouchesItself ==
  ASSUME Safe, NEW c \in Calls,
         \/ Authenticate(c) \/ Refuse(c) \/ AdvanceCall(c)
         \/ CommitUnseen(c) \/ CancelReserve(c) \/ Die(c),
         NEW d \in Calls, d # c
  PROVE  /\ call'[d] = call[d] /\ Mine(d)' = Mine(d)
         /\ (d \in open' <=> d \in open) /\ (d \in refusals' <=> d \in refusals)
<1>1. call'[d] = call[d]
  BY CallIsolated DEF Isolated, PlacesIsolated
<1>2. CASE Commit(c) \/ CommitUnseen(c)
  <2>1. /\ charges' = charges \cup {ChargeOf(c)} /\ open' = open \cup {c}
        /\ UNCHANGED refusals
    BY <1>2 DEF Commit, CommitUnseen, WriteCharge, EndReservation
  <2>2. ChargeOf(c).call = c
    BY DEF ChargeOf
  <2> QED
    BY <1>1, <2>1, <2>2 DEF Mine
<1>3. CASE Record(c)
  BY <1>1, <1>3 DEF Record, Mine
<1>4. CASE ~(Commit(c) \/ CommitUnseen(c) \/ Record(c))
  <2>1. UNCHANGED <<charges, open, refusals>>
    BY <1>4 DEF Authenticate, Refuse, AdvanceCall, CheckEndpoint, LockUser, LockToken, Count,
       Deny, EndReservation, Forward, CancelReserve, Die
  <2> QED
    BY <1>1, <2>1 DEF Mine
<1> QED
  BY <1>2, <1>3, <1>4

\* Nor does the step of c itself contradict it.
LEMMA CallAnswered ==
  ASSUME Safe, NEW c \in Calls, Answered(c),
         \/ Authenticate(c) \/ Refuse(c) \/ AdvanceCall(c)
         \/ CommitUnseen(c) \/ CancelReserve(c) \/ Die(c)
  PROVE  Answered(c)'
<1> DEFINE Before == {"new", "authed", "admit", "user", "token", "counted"}
<1>0. /\ call \in [Calls -> CallRow] /\ call[c] \in CallRow
      /\ call[c].pc \in Before => Mine(c) = {}
  BY DEF Safe, Shapes, TypeOK, CallSafe, Uncharged, Mine
<1>n. \A v \in {"refused", "disabled", "quota", "endpoint", "unavailable", "admitted"} :
        None # v
  BY QuotaAssumption
<1>1. CASE Authenticate(c) \/ CheckEndpoint(c) \/ LockUser(c) \/ LockToken(c) \/ Count(c)
  <2>1. /\ call[c].pc \in Before /\ call'[c].pc \in Before
        /\ call'[c].result = None
        /\ UNCHANGED <<charges, open, refusals>>
    <3>1. CASE Authenticate(c)
      <4>1. PICK t \in Tokens, e \in Endpoints, ip \in Ips :
              call' = [call EXCEPT ![c] = [NewCall EXCEPT !.pc = "authed",
                        !.endpoint = e, !.ip = ip, !.user = token[t].owner, !.token = t,
                        !.key = token[t].key, !.grant = token[t].grant]]
        BY <3>1 DEF Authenticate
      <4>2. call'[c] = [NewCall EXCEPT !.pc = "authed",
                        !.endpoint = e, !.ip = ip, !.user = token[t].owner, !.token = t,
                        !.key = token[t].key, !.grant = token[t].grant]
        BY <1>0, <4>1
      <4>3. call'[c].pc = "authed" /\ call'[c].result = None
        BY <4>2 DEF NewCall
      <4>4. call[c].pc = "new" /\ UNCHANGED <<charges, open, refusals>>
        BY <3>1 DEF Authenticate
      <4> QED
        BY <4>3, <4>4
    <3>2. CASE ~Authenticate(c)
      BY <1>0, <1>1, <3>2 DEF CheckEndpoint, LockUser, LockToken, Count, Answered, CallRow
    <3> QED
      BY <3>1, <3>2
  <2> QED
    BY <1>0, <1>n, <2>1 DEF Answered, Mine
<1>2. CASE Refuse(c) \/ Deny(c) \/ CancelReserve(c)
  <2>1. /\ call[c].pc \in Before /\ call'[c].pc = "answer"
        /\ call'[c].result \in {"refused", "disabled", "quota", "endpoint", "unavailable"}
        /\ UNCHANGED <<charges, open, refusals>>
    <3>1. /\ call[c].pc \in Before /\ UNCHANGED <<charges, open, refusals>>
          /\ \E v \in {"refused", "disabled", "quota", "endpoint", "unavailable"} : Leave(c, v)
      BY <1>2 DEF Refuse, Deny, CancelReserve, EndReservation
    <3>2. PICK v \in {"refused", "disabled", "quota", "endpoint", "unavailable"} : Leave(c, v)
      BY <3>1
    <3>3. call'[c] = [NewCall EXCEPT !.pc = "answer", !.result = v]
      BY <1>0, <3>2 DEF Leave
    <3> QED
      BY <3>1, <3>3 DEF NewCall
  <2> QED
    BY <1>0, <2>1 DEF Answered, Mine
<1>3. CASE Commit(c) \/ CommitUnseen(c)
  <2>1. /\ call[c].pc = "counted"
        /\ charges' = charges \cup {ChargeOf(c)} /\ open' = open \cup {c}
        /\ UNCHANGED refusals
    BY <1>3 DEF Commit, CommitUnseen, WriteCharge, EndReservation
  <2>2. /\ call'[c].pc \in {"upstream", "answer"}
        /\ call'[c].pc = "upstream" => call'[c].result = "admitted"
        /\ call'[c].result \in {"admitted", "unavailable"}
    BY <1>0, <1>3 DEF Commit, CommitUnseen, EndReservation, Leave, NewCall
  <2>3. Mine(c)' = {ChargeOf(c)} /\ ChargeOf(c) \in charges'
    BY <1>0, <2>1 DEF Mine, ChargeOf
  <2> QED
    BY <2>1, <2>2, <2>3 DEF Answered
<1>4. CASE Forward(c)
  <2>1. /\ call[c].pc = "upstream" /\ call'[c].pc = "answer" /\ call'[c].result = call[c].result
        /\ UNCHANGED <<charges, open, refusals>>
    BY <1>0, <1>4 DEF Forward, CallRow
  <2> QED
    BY <2>1 DEF Answered, Mine
<1>5. CASE Record(c)
  <2>1. /\ call[c].pc = "answer" /\ call'[c].pc = "done" /\ call'[c].result = call[c].result
        /\ UNCHANGED charges
        /\ call[c].result # "admitted" => UNCHANGED open
        /\ call[c].result = "admitted" => UNCHANGED refusals
    BY <1>0, <1>5 DEF Record, CallRow
  <2> QED
    BY <2>1 DEF Answered, Mine
<1>6. CASE Die(c)
  <2>1. /\ call'[c].pc = "dead" /\ call'[c].result = call[c].result
        /\ UNCHANGED <<charges, open, refusals>>
    BY <1>0, <1>6 DEF Die, NewCall
  <2> QED
    BY <2>1 DEF Answered, Mine
<1> QED
  BY <1>1, <1>2, <1>3, <1>4, <1>5, <1>6 DEF AdvanceCall

Answers == \A c \in Calls : Answered(c)

LEMMA InitAnswers == Init => Answers
<1> SUFFICES ASSUME Init, NEW c \in Calls PROVE Answered(c)
  BY DEF Answers
<1>1. call[c].pc = "new" /\ call[c].result = None /\ charges = {} /\ refusals = {}
  BY DEF Init, NewCall
<1>2. Mine(c) = {}
  BY <1>1 DEF Mine
<1> QED
  BY <1>1, <1>2, QuotaAssumption DEF Answered

LEMMA NextAnswers == Safe /\ Answers /\ [Next]_vars => Answers'
<1> SUFFICES ASSUME Safe, Answers, [Next]_vars, NEW d \in Calls PROVE Answered(d)'
  BY DEF Answers
<1>0. Answered(d)
  BY DEF Answers
<1>1. CASE UNCHANGED <<charges, open, refusals, call>>
  BY <1>0, <1>1, AnsweredSame DEF Mine
<1>2. ASSUME NEW c \in Calls,
             \/ Authenticate(c) \/ Refuse(c) \/ AdvanceCall(c)
             \/ CommitUnseen(c) \/ CancelReserve(c) \/ Die(c)
      PROVE  Answered(d)'
  BY <1>0, <1>2, CallTouchesItself, CallAnswered, AnsweredSame
<1> QED
  BY <1>1, <1>2 DEF Next, quotaVars, vars, UpdateEndpoint, NextDay

\* What a caller was told agrees with the log, whatever was lost or died in
\* between (gateway, reserve, recordRequest).
THEOREM AnswersCorrect == Spec => []AnswerMatchesCharge
<1>1. Answers => AnswerMatchesCharge
  <2> SUFFICES ASSUME Answers, NEW c \in Calls
               PROVE  /\ call[c].result = "admitted" => Cardinality(Mine(c)) = 1
                      /\ call[c].result \in {"refused", "disabled", "quota", "endpoint"} => Mine(c) = {}
                      /\ c \in refusals => call[c].result # "admitted"
                      /\ c \in refusals /\ Mine(c) # {} =>
                           call[c].result = "unavailable" /\ c \in open
    BY DEF AnswerMatchesCharge, Mine
  <2>1. Answered(c)
    BY DEF Answers
  <2>2. \A x : Cardinality({x}) = 1
    BY FS_Singleton
  <2> QED
    BY <2>1, <2>2 DEF Answered
<1> QED
  BY InitSafe, NextSafe, InitAnswers, NextAnswers, <1>1, PTL DEF Spec

-----------------------------------------------------------------------------
\* The promise: transactions, locks and counters implement Admission.

Pending == {"authed", "admit", "user", "token", "counted"}

\* The module of the promise has an instance of Cardinality of its own.
LEMMA SameSize == \A S : Promise!Cardinality(S) = Cardinality(S)
  BY DEF Promise!Cardinality, Cardinality

\* The counters are what the log counts.
LEMMA UsesCounted ==
  ASSUME Safe, Ledger, NEW u \in Users, NEW t \in Tokens, NEW e \in Endpoints, NEW d \in Days
  PROVE  /\ Promise!OfAccount(u, d) = usage[UserBucket(u)][d]
         /\ Promise!OfApplication(t, d) = usage[TokenBucket(t)][d]
         /\ Promise!OfEndpoint(u, e, d) = usage[EndpointBucket(u, e)][d]
<1>1. \A x \in charges : x.user \in Users /\ x.token \in Tokens /\ x.endpoint \in Endpoints
  BY DEF Safe, Shapes, TypeOK, Charge
<1>2. UserBucket(u) \in Bucket /\ TokenBucket(t) \in Bucket /\ EndpointBucket(u, e) \in Bucket
  BY DEF Bucket
<1>3. {x \in charges : UserBucket(u) \in BucketsOf(x.user, x.token, x.endpoint) /\ x.day = d}
        = {x \in charges : x.user = u /\ x.day = d}
  BY <1>1, BucketsApart
<1>4. {x \in charges : TokenBucket(t) \in BucketsOf(x.user, x.token, x.endpoint) /\ x.day = d}
        = {x \in charges : x.token = t /\ x.day = d}
  BY <1>1, BucketsApart
<1>5. {x \in charges : EndpointBucket(u, e) \in BucketsOf(x.user, x.token, x.endpoint) /\ x.day = d}
        = {x \in charges : x.user = u /\ x.endpoint = e /\ x.day = d}
  BY <1>1, BucketsApart
<1>6. \A b \in Bucket :
        usage[b][d] = Cardinality({x \in charges :
                        b \in BucketsOf(x.user, x.token, x.endpoint) /\ x.day = d})
  BY DEF Ledger, LedgerMatches
<1> QED
  BY <1>2, <1>3, <1>4, <1>5, <1>6, SameSize DEF Promise!OfAccount, Promise!OfApplication, Promise!OfEndpoint

LEMMA UsedCounted ==
  ASSUME Ledger, NEW t \in Tokens
  PROVE  Promise!InAll(t) = token[t].used
  BY SameSize DEF Ledger, LedgerMatches, Promise!InAll

\* What the promise sees of a call.
LEMMA AskedFields ==
  ASSUME NEW k, k.pc \in Pending
  PROVE  /\ AskedOf(k).user = k.user /\ AskedOf(k).token = k.token
         /\ AskedOf(k).endpoint = k.endpoint /\ AskedOf(k).key = k.key
         /\ AskedOf(k).grant = k.grant /\ AskedOf(k).limit = k.elimit /\ AskedOf(k).day = k.day
         /\ k.pc = "counted" => AskedOf(k).stage = "passed"
         /\ k.pc # "counted" => AskedOf(k).stage = "asked"
  BY DEF AskedOf, Pending

\* Under its locks a call checks the rows as they are.
LEMMA CheckedRows ==
  ASSUME Safe, NEW c \in Calls, call[c].pc \in {"token", "counted"}
  PROVE  /\ call[c].user \in Users /\ call[c].token \in Tokens /\ call[c].endpoint \in Endpoints
         /\ call[c].urow = user[call[c].user] /\ call[c].urow \in UserRow
         /\ call[c].trow \in TokenRow /\ call[c].trow.state = "live"
         /\ SameRow(call[c].trow, token[call[c].token])
         /\ AskedOf(call[c]).user = call[c].user /\ AskedOf(call[c]).token = call[c].token
         /\ AskedOf(call[c]).endpoint = call[c].endpoint /\ AskedOf(call[c]).key = call[c].key
         /\ AskedOf(call[c]).grant = call[c].grant
         /\ call[c].pc = "counted" => call[c].day \in Days
<1>1. CallShaped(call[c]) /\ CallLocked(c)
  BY DEF Safe, Shapes, CallShape, CallSafe
<1>2. call[c].pc \in Pending
  BY DEF Pending
<1> QED
  BY <1>1, <1>2, AskedFields DEF CallShaped, CallLocked

LEMMA CredentialChecked ==
  ASSUME Safe, NEW c \in Calls, call[c].pc \in {"token", "counted"}
  PROVE  /\ Promise!Current(c) <=> ~Disabled(c)
         /\ ~call[c].urow.enabled \/ ~call[c].trow.enabled \/ call[c].trow.suspended
              \/ call[c].trow.revoked \/ call[c].trow.owner # call[c].user
              \/ call[c].trow.key # call[c].key \/ call[c].trow.grant # call[c].grant
            <=> ~Promise!Credential(c)
<1> DEFINE t == call[c].token
           k == call[c]
<1>1. /\ Promise!Credential(c) <=>
           /\ user[k.user].enabled
           /\ token[t].state = "live" /\ token[t].owner = k.user
           /\ token[t].enabled /\ ~token[t].suspended /\ ~token[t].revoked
           /\ token[t].key = k.key /\ token[t].grant = k.grant
      /\ Promise!Current(c) <=> Promise!Credential(c) /\ token[t].expiry # "past"
  BY CheckedRows DEF Promise!Credential, Promise!Current, ApplicationOf
<1>2. /\ k.urow = user[k.user] /\ k.trow.state = "live"
      /\ SameRow(k.trow, token[t])
  BY CheckedRows
<1> QED
  BY <1>1, <1>2, Zenon DEF SameRow, Disabled

LEMMA QuotaChecked ==
  ASSUME Safe, Ledger, NEW c \in Calls, call[c].pc \in {"token", "counted"}
  PROVE  Promise!QuotaLeft(c) <=> ~Spent(c)
<1> DEFINE t == call[c].token
<1>1. /\ t \in Tokens /\ AskedOf(call[c]).token = t
      /\ call[c].trow.quota = token[t].quota /\ call[c].trow.used = token[t].used
  BY CheckedRows DEF SameRow
<1>2. token[t].quota \in Nat /\ token[t].used \in Nat
  BY <1>1, ConstantsAssumption DEF Safe, Shapes, TypeOK, TokenRow
<1>3. Promise!QuotaLeft(c) <=> (token[t].quota > 0 => Promise!InAll(t) < token[t].quota)
  BY <1>1 DEF Promise!QuotaLeft, ApplicationOf
<1> QED
  BY <1>1, <1>2, <1>3, UsedCounted DEF Spent

LEMMA OfferChecked ==
  ASSUME Safe, NEW c \in Calls, call[c].pc \in {"token", "counted"}
  PROVE  Promise!Offered(c) <=> ~Closed(c)
<1> DEFINE t == call[c].token
<1>1. /\ t \in Tokens /\ AskedOf(call[c]).token = t
      /\ AskedOf(call[c]).endpoint = call[c].endpoint
      /\ call[c].trow.grant = token[t].grant
  BY CheckedRows DEF SameRow
<1> QED
  BY <1>1 DEF Promise!Offered, ApplicationOf, Closed

LEMMA RoomChecked ==
  ASSUME Safe, Ledger, NEW c \in Calls, call[c].pc \in {"token", "counted"},
         NEW limit, NEW d \in Days
  PROVE  Promise!Room(c, limit, d) <=>
           /\ usage[UserBucket(call[c].user)][d] < call[c].urow.daily
           /\ usage[TokenBucket(call[c].token)][d] < call[c].trow.daily
           /\ usage[EndpointBucket(call[c].user, call[c].endpoint)][d] < limit
<1> DEFINE k == call[c]
<1>1. /\ k.token \in Tokens /\ k.user \in Users /\ k.endpoint \in Endpoints
      /\ AskedOf(k).token = k.token /\ AskedOf(k).user = k.user /\ AskedOf(k).endpoint = k.endpoint
      /\ k.trow.daily = token[k.token].daily /\ k.urow.daily = user[k.user].daily
  BY CheckedRows DEF SameRow
<1>2. Promise!Room(c, limit, d) <=>
        /\ Promise!OfAccount(k.user, d) < user[k.user].daily
        /\ Promise!OfApplication(k.token, d) < token[k.token].daily
        /\ Promise!OfEndpoint(k.user, k.endpoint, d) < limit
  BY <1>1 DEF Promise!Room, ApplicationOf
<1> QED
  BY <1>1, <1>2, UsesCounted

LEMMA FullChecked ==
  ASSUME Safe, Ledger, NEW c \in Calls, call[c].pc = "token"
  PROVE  Promise!Room(c, endpoint[call[c].endpoint].daily, day) <=> ~Full(c)
<1> DEFINE k == call[c]
           limit == endpoint[k.endpoint].daily
<1>1. /\ k.user \in Users /\ k.token \in Tokens /\ k.endpoint \in Endpoints
      /\ k.urow \in UserRow /\ k.trow \in TokenRow
  BY CheckedRows
<1>2. day \in Days /\ endpoint \in [Endpoints -> EndpointRows] /\ usage \in [Bucket -> [Days -> Nat]]
  BY DEF Safe, Shapes, TypeOK
<1>3. k.urow.daily \in Nat /\ k.trow.daily \in Nat /\ limit \in Nat
  <2>1. endpoint[k.endpoint] \in EndpointRow
    BY <1>1, <1>2, QuotaAssumption
  <2>2. Limits \subseteq Nat
    BY ConstantsAssumption
  <2>3. limit \in Limits
    BY <2>1 DEF EndpointRow
  <2>4. k.urow.daily \in Limits /\ k.trow.daily \in Limits
    BY <1>1 DEF UserRow, TokenRow
  <2> QED
    BY <2>2, <2>3, <2>4
<1>4. /\ UserBucket(k.user) \in Bucket /\ TokenBucket(k.token) \in Bucket
      /\ EndpointBucket(k.user, k.endpoint) \in Bucket
  BY <1>1 DEF Bucket
<1>5. /\ usage[UserBucket(k.user)][day] \in Nat /\ usage[TokenBucket(k.token)][day] \in Nat
      /\ usage[EndpointBucket(k.user, k.endpoint)][day] \in Nat
  BY <1>2, <1>4
<1> HIDE DEF limit
<1>6. Promise!Room(c, limit, day) <=>
        /\ usage[UserBucket(k.user)][day] < k.urow.daily
        /\ usage[TokenBucket(k.token)][day] < k.trow.daily
        /\ usage[EndpointBucket(k.user, k.endpoint)][day] < limit
  BY <1>2, RoomChecked
<1>7. Full(c) <=> \/ usage[UserBucket(k.user)][day] >= k.urow.daily
                  \/ usage[TokenBucket(k.token)][day] >= k.trow.daily
                  \/ usage[EndpointBucket(k.user, k.endpoint)][day] >= limit
  BY DEF Full, limit
<1>8. Promise!Room(c, limit, day) <=> ~Full(c)
  BY <1>3, <1>5, <1>6, <1>7
<1> QED
  BY <1>8 DEF limit

-----------------------------------------------------------------------------
\* The steps of a call.

\* Only the call that steps asks for anything else, or is answered.
LEMMA OneAsks ==
  ASSUME Safe, NEW c \in Calls, CallStep(c)
  PROVE  /\ [d \in Calls |-> AskedOf(call[d])]'
              = [[d \in Calls |-> AskedOf(call[d])] EXCEPT ![c] = AskedOf(call'[c])]
         /\ [d \in Calls |-> call[d].result]'
              = [[d \in Calls |-> call[d].result] EXCEPT ![c] = call'[c].result]
<1>1. \A d \in Calls : d # c => call'[d] = call[d]
  BY DEF CallStep, Safe, Shapes, TypeOK
<1> QED
  BY <1>1

\* A step that writes nothing the promise sees is none.
LEMMA PromiseSame ==
  ASSUME UNCHANGED <<user, token, endpoint, day, charges>>,
         \A c \in Calls : AskedOf(call'[c]) = AskedOf(call[c]) /\ call'[c].result = call[c].result
  PROVE  UNCHANGED Promise!admissionVars
  BY DEF Promise!admissionVars

LEMMA CallStays ==
  ASSUME Safe, Answers, NEW c \in Calls,
         CheckEndpoint(c) \/ LockUser(c) \/ LockToken(c) \/ Forward(c) \/ Record(c)
  PROVE  UNCHANGED Promise!admissionVars
<1>1. UNCHANGED <<user, token, endpoint, day, charges>>
  BY DEF CheckEndpoint, LockUser, LockToken, Forward, Record, accountVars, rows
<1>2. call \in [Calls -> CallRow] /\ call[c] \in CallRow
  BY DEF Safe, Shapes, TypeOK
<1>3. \A d \in Calls : d # c => call'[d] = call[d]
  BY <1>2 DEF CheckEndpoint, LockUser, LockToken, Forward, Record
<1>4. call'[c].result = call[c].result
  BY <1>2 DEF CheckEndpoint, LockUser, LockToken, Forward, Record, CallRow
<1>5. CASE CheckEndpoint(c) \/ LockUser(c) \/ LockToken(c)
  <2>1. /\ call'[c].pc \in {"admit", "user", "token"} /\ call[c].pc \in {"authed", "admit", "user"}
        /\ call'[c].user = call[c].user /\ call'[c].token = call[c].token
        /\ call'[c].endpoint = call[c].endpoint /\ call'[c].ip = call[c].ip
        /\ call'[c].key = call[c].key /\ call'[c].grant = call[c].grant
        /\ call'[c].elimit = call[c].elimit /\ call'[c].day = call[c].day
    BY <1>2, <1>5 DEF CheckEndpoint, LockUser, LockToken, CallRow
  <2>2. AskedOf(call'[c]) = AskedOf(call[c])
    BY <2>1 DEF AskedOf
  <2> QED
    BY <1>1, <1>3, <1>4, <2>2, PromiseSame
<1>6. CASE Forward(c) \/ Record(c)
  <2>1. call'[c].pc \in {"answer", "done"} /\ call[c].pc \in {"upstream", "answer"}
    BY <1>2, <1>6 DEF Forward, Record, CallRow
  <2>2. AskedOf(call'[c]) = AskedOf(call[c])
    BY <2>1 DEF AskedOf
  <2> QED
    BY <1>1, <1>3, <1>4, <2>2, PromiseSame
<1> QED
  BY <1>5, <1>6

\* A call that has no outcome has no row, and one that asks has no outcome.
LEMMA NotYet ==
  ASSUME Safe, Answers, NEW c \in Calls,
         call[c].pc \in {"new", "authed", "admit", "user", "token", "counted"}
  PROVE  call[c].result = None /\ \A x \in charges : x.call # c
  BY DEF Safe, CallSafe, Uncharged, Answers, Answered

\* authenticateAPI is Ask.
LEMMA PromiseAsks ==
  ASSUME Safe, Answers, NEW c \in Calls, Authenticate(c)
  PROVE  Promise!Ask(c)
<1>1. PICK t \in Tokens, e \in Endpoints, ip \in Ips :
        /\ call[c].pc = "new"
        /\ token[t].state = "live" /\ token[t].enabled /\ ~token[t].suspended /\ ~token[t].revoked
        /\ token[t].expiry # "past"
        /\ user[token[t].owner].known /\ user[token[t].owner].enabled
        /\ ip \in token[t].grant.ips
        /\ call' = [call EXCEPT ![c] = [NewCall EXCEPT !.pc = "authed",
                      !.endpoint = e, !.ip = ip, !.user = token[t].owner, !.token = t,
                      !.key = token[t].key, !.grant = token[t].grant]]
        /\ UNCHANGED <<accountVars, endpoint, usage, charges, open, refusals, day>>
  BY DEF Authenticate
<1> DEFINE k == [NewCall EXCEPT !.pc = "authed",
                   !.endpoint = e, !.ip = ip, !.user = token[t].owner, !.token = t,
                   !.key = token[t].key, !.grant = token[t].grant]
           asks == [stage |-> "asked", user |-> token[t].owner, token |-> t, endpoint |-> e,
                    ip |-> ip, key |-> token[t].key, grant |-> token[t].grant,
                    limit |-> 0, day |-> 0]
<1>2. k.result = None /\ AskedOf(k) = asks
  BY DEF NewCall, AskedOf
<1>3. CallStep(c)
  BY AuthenticateKeeps DEF Safe
<1>4. call'[c] = k
  <2> HIDE DEF k
  <2>1. call' = [call EXCEPT ![c] = k] /\ call \in [Calls -> CallRow]
    BY <1>1 DEF k, Safe, Shapes, TypeOK
  <2> QED
    BY <2>1
<1> HIDE DEF k
<1>5. call[c].result = None /\ (\A x \in charges : x.call # c) /\ AskedOf(call[c]) = [stage |-> "none"]
  BY <1>1, NotYet DEF AskedOf
<1>6. /\ [d \in Calls |-> AskedOf(call[d])]' = [[d \in Calls |-> AskedOf(call[d])] EXCEPT ![c] = asks]
      /\ UNCHANGED [d \in Calls |-> call[d].result]
  BY <1>2, <1>3, <1>4, <1>5, OneAsks
<1>7. UNCHANGED <<user, token, endpoint, day, charges>>
  BY <1>1 DEF accountVars
<1> DEFINE apps == [s \in Tokens |-> ApplicationOf(token[s])]
<1>8. /\ apps[t].state = token[t].state /\ apps[t].enabled = token[t].enabled
      /\ apps[t].suspended = token[t].suspended /\ apps[t].revoked = token[t].revoked
      /\ apps[t].expiry = token[t].expiry /\ apps[t].owner = token[t].owner
      /\ apps[t].key = token[t].key /\ apps[t].grant = token[t].grant
  BY DEF ApplicationOf
<1> DEFINE asked == [d \in Calls |-> AskedOf(call[d])]
<1> HIDE DEF apps, asks
<1>9. \E s \in Tokens, f \in Endpoints :
        /\ apps[s].state = "live" /\ apps[s].enabled
        /\ ~apps[s].suspended /\ ~apps[s].revoked
        /\ apps[s].expiry # "past"
        /\ user[apps[s].owner].known /\ user[apps[s].owner].enabled
        /\ \E i \in apps[s].grant.ips :
             asked' = [asked EXCEPT ![c] =
               [stage |-> "asked", user |-> apps[s].owner, token |-> s, endpoint |-> f,
                ip |-> i, key |-> apps[s].key, grant |-> apps[s].grant,
                limit |-> 0, day |-> 0]]
  <2>1. asked' = [asked EXCEPT ![c] =
               [stage |-> "asked", user |-> apps[t].owner, token |-> t, endpoint |-> e,
                ip |-> ip, key |-> apps[t].key, grant |-> apps[t].grant,
                limit |-> 0, day |-> 0]]
    BY <1>6, <1>8 DEF asks
  <2> HIDE DEF asked
  <2> QED
    BY <1>1, <1>8, <2>1
<1>10. asked[c] = [stage |-> "none"]
  BY <1>5
<1>11. UNCHANGED apps
  BY <1>7 DEF apps
<1> QED
  BY <1>5, <1>6, <1>7, <1>9, <1>10, <1>11 DEF Promise!Ask, Promise!NotAsking, apps

\* The record of a call that has passed.
LEMMA PassedRecord ==
  ASSUME NEW k, k.pc \in Pending \ {"counted"}, NEW j, j.pc = "counted",
         j.user = k.user, j.token = k.token, j.endpoint = k.endpoint, j.ip = k.ip,
         j.key = k.key, j.grant = k.grant
  PROVE  AskedOf(j) = [AskedOf(k) EXCEPT !.stage = "passed", !.limit = j.elimit, !.day = j.day]
<1> DEFINE Row(s, x, y) ==
             [stage |-> s, user |-> k.user, token |-> k.token, endpoint |-> k.endpoint,
              ip |-> k.ip, key |-> k.key, grant |-> k.grant, limit |-> x, day |-> y]
<1>1. AskedOf(k) = Row("asked", k.elimit, k.day)
  BY DEF AskedOf, Pending
<1>2. AskedOf(j) = Row("passed", j.elimit, j.day)
  BY DEF AskedOf, Pending
<1> DEFINE row == Row("asked", k.elimit, k.day)
<1>3. [row EXCEPT !.stage = "passed"] = Row("passed", k.elimit, k.day)
  OBVIOUS
<1>4. [Row("passed", k.elimit, k.day) EXCEPT !.limit = j.elimit] = Row("passed", j.elimit, k.day)
  OBVIOUS
<1>5. [Row("passed", j.elimit, k.day) EXCEPT !.day = j.day] = Row("passed", j.elimit, j.day)
  OBVIOUS
<1>6. [row EXCEPT !.stage = "passed", !.limit = j.elimit, !.day = j.day]
        = [[[row EXCEPT !.stage = "passed"] EXCEPT !.limit = j.elimit] EXCEPT !.day = j.day]
  OBVIOUS
<1>7. [row EXCEPT !.stage = "passed", !.limit = j.elimit, !.day = j.day]
        = Row("passed", j.elimit, j.day)
  BY <1>3, <1>4, <1>5, <1>6
<1> QED
  BY <1>1, <1>2, <1>7

\* Count is Pass.
LEMMA PromisePasses ==
  ASSUME Safe, Ledger, Answers, NEW c \in Calls, Count(c)
  PROVE  Promise!Pass(c)
<1>1. call[c].pc = "token" /\ ~Disabled(c) /\ ~Spent(c) /\ ~Closed(c) /\ ~Full(c)
      /\ UNCHANGED <<accountVars, endpoint, usage, charges, open, refusals, day>>
  BY DEF Count
<1>2. day \in Days /\ call \in [Calls -> CallRow] /\ call[c] \in CallRow
  BY DEF Safe, Shapes, TypeOK
<1> DEFINE limit == endpoint[call[c].endpoint].daily
<1>3. Promise!Current(c) /\ Promise!QuotaLeft(c) /\ Promise!Offered(c)
  BY <1>1, CredentialChecked, QuotaChecked, OfferChecked
<1>4. Promise!Room(c, limit, day)
  BY <1>1, <1>2, FullChecked
<1>5. CallStep(c)
  BY CountKeeps DEF Safe
<1>6. AskedOf(call'[c]) = [AskedOf(call[c]) EXCEPT !.stage = "passed", !.limit = limit, !.day = day]
  <2>1. /\ call'[c].pc = "counted" /\ call'[c].elimit = limit /\ call'[c].day = day
        /\ call'[c].user = call[c].user /\ call'[c].token = call[c].token
        /\ call'[c].endpoint = call[c].endpoint /\ call'[c].ip = call[c].ip
        /\ call'[c].key = call[c].key /\ call'[c].grant = call[c].grant
    BY <1>2 DEF Count, CallRow
  <2>2. call[c].pc \in Pending \ {"counted"}
    BY <1>1 DEF Pending
  <2> HIDE DEF limit
  <2> QED
    BY <2>1, <2>2, PassedRecord
<1>7. call'[c].result = call[c].result
  BY <1>2 DEF Count, CallRow
<1>8. AskedOf(call[c]).stage = "asked" /\ AskedOf(call[c]).endpoint = call[c].endpoint
  BY <1>1, AskedFields DEF Pending
<1>9. /\ [d \in Calls |-> AskedOf(call[d])]'
           = [[d \in Calls |-> AskedOf(call[d])] EXCEPT
                ![c] = [AskedOf(call[c]) EXCEPT !.stage = "passed", !.limit = limit, !.day = day]]
      /\ UNCHANGED [d \in Calls |-> call[d].result]
  BY <1>5, <1>6, <1>7, OneAsks
<1>10. UNCHANGED <<user, token, endpoint, day, charges>>
  BY <1>1 DEF accountVars
<1> QED
  BY <1>3, <1>4, <1>8, <1>9, <1>10 DEF Promise!Pass

\* A call that leaves the gateway, uncharged, is turned away.
LEMMA LeaveTurnsAway ==
  ASSUME Safe, Answers, NEW c \in Calls,
         NEW result \in {"refused", "disabled", "quota", "endpoint", "unavailable"},
         Leave(c, result),
         call[c].pc \in {"new", "authed", "admit", "user", "token", "counted"},
         UNCHANGED <<user, token, endpoint, day, charges>>
  PROVE  Promise!TurnAway(c, result)
<1>1. CallStep(c) /\ call'[c].pc = "answer" /\ call'[c].result = result
  BY LeaveKeeps DEF Leave, Safe
<1>2. AskedOf(call'[c]) = [stage |-> "none"]
  BY <1>1 DEF AskedOf
<1>3. call[c].result = None
  BY NotYet
<1> QED
  BY <1>1, <1>2, <1>3, OneAsks DEF Promise!TurnAway, Promise!NotAsking

LEMMA PromiseRefuses ==
  ASSUME Safe, Answers, NEW c \in Calls, Refuse(c)
  PROVE  Promise!Refuse(c)
<1>1. /\ call[c].pc \in {"new", "authed"} /\ Leave(c, "refused")
      /\ UNCHANGED <<user, token, endpoint, day, charges>>
  BY DEF Refuse, accountVars
<1>2. AskedOf(call[c]).stage # "passed"
  BY <1>1 DEF AskedOf
<1>3. Promise!TurnAway(c, "refused") /\ \A x \in charges : x.call # c
  BY <1>1, LeaveTurnsAway, NotYet
<1> QED
  BY <1>2, <1>3 DEF Promise!Refuse

LEMMA PromiseFails ==
  ASSUME Safe, Answers, NEW c \in Calls, call[c].pc \in Pending, Leave(c, "unavailable"),
         UNCHANGED <<user, token, endpoint, day, charges>>
  PROVE  Promise!Fail(c)
<1>1. Promise!TurnAway(c, "unavailable")
  BY LeaveTurnsAway DEF Pending
<1>2. AskedOf(call[c]) # [stage |-> "none"]
  <2>1. AskedOf(call[c]).stage \in {"asked", "passed"}
    BY AskedFields
  <2> QED
    BY <2>1
<1> QED
  BY <1>1, <1>2 DEF Promise!Fail, Promise!NotAsking

LEMMA PromiseDenies ==
  ASSUME Safe, Ledger, Answers, NEW c \in Calls, Deny(c)
  PROVE  Promise!Deny(c) \/ Promise!Fail(c)
<1>1. UNCHANGED <<user, token, endpoint, day, charges>>
  BY DEF Deny, EndReservation
<1>2. CASE call[c].pc = "user"
  BY <1>1, <1>2, PromiseFails DEF Deny, EndReservation, Pending
<1>3. CASE call[c].pc = "token"
  <2>1. AskedOf(call[c]).stage = "asked" /\ AskedOf(call[c]).endpoint = call[c].endpoint
    BY <1>3, AskedFields DEF Pending
  <2>2. \/ Disabled(c) /\ Leave(c, "disabled")
        \/ ~Disabled(c) /\ Spent(c) /\ Leave(c, "quota")
        \/ ~Disabled(c) /\ ~Spent(c) /\ Closed(c) /\ Leave(c, "endpoint")
        \/ ~Disabled(c) /\ ~Spent(c) /\ ~Closed(c) /\ Full(c) /\ Leave(c, "quota")
    BY <1>3 DEF Deny, EndReservation
  <2>3. \A v \in {"disabled", "quota", "endpoint"} : Leave(c, v) => Promise!TurnAway(c, v)
    BY <1>1, <1>3, LeaveTurnsAway
  <2>4. /\ Promise!Current(c) <=> ~Disabled(c)
        /\ Promise!QuotaLeft(c) <=> ~Spent(c)
        /\ Promise!Offered(c) <=> ~Closed(c)
        /\ Promise!Room(c, endpoint[call[c].endpoint].daily, day) <=> ~Full(c)
    BY <1>3, CredentialChecked, QuotaChecked, OfferChecked, FullChecked
  <2>5. Promise!Deny(c)
    BY <2>1, <2>2, <2>3, <2>4 DEF Promise!Deny
  <2> QED
    BY <2>5
<1> QED
  BY <1>2, <1>3 DEF Deny

LEMMA PromiseCancels ==
  ASSUME Safe, Answers, NEW c \in Calls, CancelReserve(c)
  PROVE  Promise!Fail(c)
  BY PromiseFails DEF CancelReserve, EndReservation, Pending

LEMMA PromiseAbandons ==
  ASSUME Safe, NEW c \in Calls, Die(c)
  PROVE  Promise!Abandon(c)
<1>1. CallStep(c) /\ call'[c].pc = "dead" /\ call'[c].result = call[c].result
  <2>1. CallStep(c) /\ call'[c].pc = "dead"
    BY DieKeeps DEF Safe
  <2> QED
    BY <2>1 DEF Die, NewCall, Safe, Shapes, TypeOK
<1>2. AskedOf(call'[c]) = [stage |-> "none"]
  BY <1>1 DEF AskedOf
<1>3. UNCHANGED <<user, token, endpoint, day, charges>>
  BY DEF Die, rows
<1> QED
  BY <1>1, <1>2, <1>3, OneAsks DEF Promise!Abandon, Promise!NotAsking

\* The commit of reserve is Admit, seen or not.
LEMMA PromiseAdmits ==
  ASSUME Safe, Ledger, Answers, NEW c \in Calls, Commit(c) \/ CommitUnseen(c)
  PROVE  Promise!Admit(c)
<1> DEFINE k == call[c]
<1>1. /\ k.pc = "counted" /\ k.token \in Tokens /\ k.day \in Days
      /\ charges' = charges \cup {ChargeOf(c)}
      /\ \A t \in Tokens :
           token'[t] = IF t = k.token THEN [token[t] EXCEPT !.used = @ + 1] ELSE token[t]
  BY ChargeWrites
<1>2. AskedOf(k).stage = "passed" /\ AskedOf(k).user = k.user /\ AskedOf(k).token = k.token
      /\ AskedOf(k).endpoint = k.endpoint /\ AskedOf(k).day = k.day /\ AskedOf(k).limit = k.elimit
  BY <1>1, AskedFields DEF Pending
<1>3. CountedStands(c) /\ CallStep(c) /\ call'[c].pc \in {"upstream", "answer"}
      /\ call'[c].result \in {"admitted", "unavailable"}
  <2>1. CountedStands(c)
    BY DEF Safe, CallSafe
  <2>2. CASE Commit(c)
    BY <2>1, <2>2, LeaveKeeps DEF Commit, Safe
  <2>3. CASE CommitUnseen(c)
    BY <2>1, <2>3, EndReservationKeeps DEF CommitUnseen, Safe
  <2> QED
    BY <2>2, <2>3
<1>4. Promise!Credential(c) /\ Promise!QuotaLeft(c) /\ Promise!Room(c, k.elimit, k.day)
  BY <1>1, <1>3, CredentialChecked, QuotaChecked, RoomChecked DEF CountedStands
<1>5. UNCHANGED [t \in Tokens |-> ApplicationOf(token[t])]
  <2>1. ASSUME NEW t \in Tokens PROVE ApplicationOf(token'[t]) = ApplicationOf(token[t])
    <3>1. token[t] \in TokenRow
      BY DEF Safe, Shapes, TypeOK
    <3> QED
      BY <1>1, <3>1 DEF TokenRow, ApplicationOf
  <2> QED
    BY <2>1
<1>6. UNCHANGED <<user, endpoint, day>>
  BY DEF Commit, CommitUnseen, EndReservation
<1>7. AskedOf(call'[c]) = [stage |-> "none"]
  BY <1>3 DEF AskedOf
<1>8. /\ [d \in Calls |-> AskedOf(call[d])]'
           = [[d \in Calls |-> AskedOf(call[d])] EXCEPT ![c] = [stage |-> "none"]]
      /\ \E a \in {"admitted", "unavailable"} :
           [d \in Calls |-> call[d].result]' = [[d \in Calls |-> call[d].result] EXCEPT ![c] = a]
  BY <1>3, <1>7, OneAsks
<1> QED
  BY <1>1, <1>2, <1>4, <1>5, <1>6, <1>8 DEF Promise!Admit, Promise!NotAsking, ChargeOf

-----------------------------------------------------------------------------
\* The steps of the others.

\* The requests of the console, the policy and the clock are Manage.
LEMMA PromiseManages ==
  ASSUME Safe, Ledger, AccountsNext, UNCHANGED quotaVars
  PROVE  Promise!Manage
<1> DEFINE apps == [t \in Tokens |-> ApplicationOf(token[t])]
<1>1. UNCHANGED <<endpoint, day, charges, call>>
  BY DEF quotaVars
<1>2. [Next]_vars /\ ~Charging
  <2>1. ASSUME NEW c \in Calls, Commit(c) \/ CommitUnseen(c) PROVE FALSE
    BY <1>1, <2>1, ChargeWrites
  <2> QED
    BY <2>1 DEF Next, Charging
<1>3. token \in [Tokens -> TokenRow] /\ token' \in [Tokens -> TokenRow]
  BY <1>2, NextSafe DEF Safe, Shapes, TypeOK
<1>4. ASSUME NEW t \in Tokens PROVE apps'[t].quota > 0 => Promise!InAll(t) <= apps'[t].quota
  <2>1. token'[t].used = token[t].used
    BY <1>2, NoChargeKeeps DEF Ledger
  <2>2. token'[t].quota > 0 => token'[t].used <= token'[t].quota
    BY <1>2, NextLedger DEF Ledger, QuotaRespected
  <2>3. apps'[t].quota = token'[t].quota
    BY DEF ApplicationOf
  <2> QED
    BY <2>1, <2>2, <2>3, UsedCounted
<1>5. ASSUME NEW t \in Tokens, apps[t].state = "live", apps[t].revoked
      PROVE  \/ apps'[t].state = "deleted"
             \/ [apps'[t] EXCEPT !.expiry = apps[t].expiry] = apps[t]
  <2>1. \/ token'[t].state = "deleted"
        \/ [token'[t] EXCEPT !.expiry = token[t].expiry] = token[t]
    BY <1>2, <1>5, NextRevoked DEF RevokedStands, ApplicationOf
  <2>2. token[t] \in TokenRow /\ token'[t] \in TokenRow
    BY <1>3
  <2>3. CASE token'[t].state = "deleted"
    BY <2>3 DEF ApplicationOf
  <2>4. CASE [token'[t] EXCEPT !.expiry = token[t].expiry] = token[t]
    <3>1. /\ token'[t].state = token[t].state /\ token'[t].owner = token[t].owner
          /\ token'[t].key = token[t].key /\ token'[t].grant = token[t].grant
          /\ token'[t].enabled = token[t].enabled /\ token'[t].suspended = token[t].suspended
          /\ token'[t].revoked = token[t].revoked /\ token'[t].daily = token[t].daily
          /\ token'[t].quota = token[t].quota
      BY <2>2, <2>4 DEF TokenRow
    <3>2. [ApplicationOf(token'[t]) EXCEPT !.expiry = token[t].expiry] = ApplicationOf(token[t])
      BY <3>1 DEF ApplicationOf
    <3>3. apps[t].expiry = token[t].expiry
      BY DEF ApplicationOf
    <3> QED
      BY <3>2, <3>3
  <2> QED
    BY <2>1, <2>3, <2>4
<1>6. UNCHANGED <<[c \in Calls |-> AskedOf(call[c])], [c \in Calls |-> call[c].result]>>
  BY <1>1
<1> QED
  BY <1>1, <1>4, <1>5, <1>6 DEF Promise!Manage

\* updateEndpoint and midnight.
LEMMA PromiseSettings ==
  /\ (\E e \in Endpoints : UpdateEndpoint(e)) => Promise!ChangeEndpoint
  /\ NextDay => Promise!Midnight
  BY DEF UpdateEndpoint, NextDay, accountVars, Promise!ChangeEndpoint, Promise!Midnight

LEMMA PromiseStarts == Init => Promise!AdmissionInit
<1> SUFFICES ASSUME Init PROVE Promise!AdmissionInit
  OBVIOUS
<1>1. charges = {} /\ call = [c \in Calls |-> NewCall]
  BY DEF Init
<1>2. NewCall.result = None /\ AskedOf(NewCall) = [stage |-> "none"]
  BY DEF NewCall, AskedOf
<1> QED
  BY <1>1, <1>2 DEF Promise!AdmissionInit, Promise!NotAsking

\* Every step of the gateway and the console is one of the promise or none.
LEMMA PromiseSteps ==
  Safe /\ Ledger /\ Answers /\ [Next]_vars => [Promise!AdmissionNext]_Promise!admissionVars
<1> SUFFICES ASSUME Safe, Ledger, Answers, [Next]_vars
             PROVE  Promise!AdmissionNext \/ UNCHANGED Promise!admissionVars
  OBVIOUS
<1>1. CASE UNCHANGED vars
  BY <1>1, PromiseSame DEF vars, accountVars, quotaVars
<1>2. CASE AccountsNext /\ UNCHANGED quotaVars
  BY <1>2, PromiseManages DEF Promise!AdmissionNext
<1>3. ASSUME NEW c \in Calls,
             \/ Authenticate(c) \/ Refuse(c) \/ AdvanceCall(c)
             \/ CommitUnseen(c) \/ CancelReserve(c) \/ Die(c)
      PROVE  Promise!AdmissionNext \/ UNCHANGED Promise!admissionVars
  <2>1. CASE CheckEndpoint(c) \/ LockUser(c) \/ LockToken(c) \/ Forward(c) \/ Record(c)
    BY <2>1, CallStays
  <2>2. CASE Authenticate(c)
    BY <2>2, PromiseAsks DEF Promise!AdmissionNext
  <2>3. CASE Count(c)
    BY <2>3, PromisePasses DEF Promise!AdmissionNext
  <2>4. CASE Commit(c) \/ CommitUnseen(c)
    BY <2>4, PromiseAdmits DEF Promise!AdmissionNext
  <2>5. CASE Deny(c)
    BY <2>5, PromiseDenies DEF Promise!AdmissionNext
  <2>6. CASE Refuse(c)
    BY <2>6, PromiseRefuses DEF Promise!AdmissionNext
  <2>7. CASE CancelReserve(c)
    BY <2>7, PromiseCancels DEF Promise!AdmissionNext
  <2>8. CASE Die(c)
    BY <2>8, PromiseAbandons DEF Promise!AdmissionNext
  <2> QED
    BY <1>3, <2>1, <2>2, <2>3, <2>4, <2>5, <2>6, <2>7, <2>8 DEF AdvanceCall
<1>4. CASE NextDay \/ \E e \in Endpoints : UpdateEndpoint(e)
  BY <1>4, PromiseSettings DEF Promise!AdmissionNext
<1> QED
  BY <1>1, <1>2, <1>3, <1>4 DEF Next

\* Row locks, counters and transactions that may be cancelled, lost or seen by
\* nobody admit calls as single steps would: reserve, recordRequest and the
\* console's transactions implement Admission.
THEOREM AdmissionImplemented == Spec => ImplementsAdmission
  BY InitSafe, NextSafe, InitLedger, NextLedger, InitAnswers, NextAnswers,
     PromiseStarts, PromiseSteps, PTL DEF Spec, ImplementsAdmission, Promise!AdmissionSpec
=============================================================================
