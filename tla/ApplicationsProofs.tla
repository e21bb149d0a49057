------------------------- MODULE ApplicationsProofs -------------------------
(***************************************************************************)
(* The page of applications, for any number of applications, requests, keys*)
(* and departures: an application's key reaches the dialog that shows it or*)
(* is known to be lost (KeyReachesOwner).                                  *)
(*                                                                         *)
(* The page waits for one rotation or deletion and one form at most        *)
(* (PageWaits), so a key on its way to the page that is shown is newer than*)
(* any its dialog had of the same application (NewerUnseen); a creation's  *)
(* key is the first of an application that nothing else is asked of yet    *)
(* (AnswersOwn). And every key that was issued was seen, is gone or is     *)
(* awaited (KeysTraced).                                                   *)
(***************************************************************************)
EXTENDS Applications, TLAPS

-----------------------------------------------------------------------------
(* The inductive invariant. *)

\* The page that is shown has sent the request and still waits for its end.
Ongoing(i) == Here(i) /\ request[i].stage \notin {"none", "late", "settled"}

\* The page waits for what it has sent since it is shown: a form for its request,
\* the page for one rotation or deletion; a form and a confirmation are never
\* open together.
PageWaits ==
  /\ \A i \in Requests : request[i] # NotSent =>
       /\ request[i].visit <= leaves /\ (~ pageShown => request[i].visit # leaves)
       /\ request[i].kind # "create" => request[i].target \in Apps
       /\ Ongoing(i) => IF request[i].kind \in {"rotate", "delete"}
                        THEN pending = i ELSE editor # None /\ editor.wait = i
  /\ pending # None =>
       /\ request[pending] # NotSent /\ Ongoing(pending)
       /\ request[pending].kind \in {"rotate", "delete"}
  /\ editor # None => confirm = None
  /\ ~ pageShown => editor = None /\ confirm = None /\ pending = None /\ secret = 0

\* An application's key is the last that was issued to it; a free one has none.
LastKeys ==
  /\ \A t \in Apps : app[t].key # 0 => app[t].key <= Len(issued) /\ issued[app[t].key] = t
  /\ \A k \in 1 .. Len(issued) : k <= app[issued[k]].key /\ app[issued[k]].status # "free"

\* No key is forgotten.
KeysTraced == \A k \in 1 .. Len(issued) : k \in seenKeys \cup goneKeys \/ Awaited(k)

\* What is listed, and what the page asks to rotate or delete, is there.
TargetsThere ==
  /\ list # None => \A t \in There(list) : app[t].status # "free"
  /\ confirm # None => app[confirm.target].status # "free"
  /\ \A i \in Requests : request[i] # NotSent /\ request[i].kind \in {"rotate", "delete"} =>
       app[request[i].target].status # "free"

\* The key of an answer: that of a rotation is its target's, that of a creation the
\* first of an application the page has not asked to rotate.
AnswersOwn ==
  \A i \in Requests : request[i] # NotSent /\ request[i].key # 0 =>
    /\ request[i].key <= Len(issued)
    /\ request[i].kind \in {"create", "rotate"}
    /\ request[i].kind = "rotate" => issued[request[i].key] = request[i].target
    /\ request[i].kind = "create" =>
         /\ \A k \in 1 .. request[i].key - 1 : issued[k] # issued[request[i].key]
         /\ Ongoing(i) /\ pending # None => request[pending].target # issued[request[i].key]

\* Of the keys after k, none of the same application has been in the dialog.
NewestSeen(k) == \A m \in k + 1 .. Len(issued) : issued[m] = issued[k] => m \notin seenKeys
NewerUnseen ==
  /\ secret # 0 => NewestSeen(secret)
  /\ \A i \in Requests : request[i] # NotSent /\ Here(i) /\ request[i].stage = "done" /\ request[i].key # 0 =>
       NewestSeen(request[i].key)

\* The types of the variables one by one.
AppTypes ==
  /\ app \in [Apps -> AppRow]
  /\ issued \in Seq(Apps) /\ Len(issued) <= MaxKey
  /\ pageShown \in BOOLEAN /\ leaves \in 0 .. MaxLeaves
  /\ list = None \/ list \in [Apps -> Status]
  /\ editor = None \/ editor \in Editor
  /\ confirm = None \/ confirm \in Confirm
  /\ pending \in Requests \cup {None}
  /\ secret \in 0 .. Len(issued)
  /\ request \in [Requests -> AppRequest \cup {NotSent}]
  /\ seenKeys \subseteq 1 .. Len(issued) /\ goneKeys \subseteq 1 .. Len(issued)

ApplicationsInv ==
  /\ AppTypes /\ PageWaits /\ LastKeys /\ KeysTraced /\ TargetsThere /\ AnswersOwn /\ NewerUnseen

USE ApplicationsAssumption DEF NotSent, rowVars, dialogVars, keyVars

\* A request under way changes its stage and nothing else.
LEMMA RequestMoves ==
  ASSUME AppTypes, NEW i \in Requests, request[i] # NotSent,
         NEW s \in {"sent", "overdue", "done", "refused", "lost", "late", "settled"},
         request' = [request EXCEPT ![i].stage = s]
  PROVE  /\ request' \in [Requests -> AppRequest \cup {NotSent}]
         /\ request[i] \in AppRequest /\ request'[i] \in AppRequest /\ request'[i] # NotSent
         /\ request'[i].stage = s /\ request'[i].kind = request[i].kind
         /\ request'[i].target = request[i].target /\ request'[i].key = request[i].key
         /\ request'[i].visit = request[i].visit
         /\ \A j \in Requests : j # i => request'[j] = request[j]
<1>1. request[i] \in AppRequest
  BY DEF AppTypes
<1>2. PICK r \in AppRequest : r = [request[i] EXCEPT !.stage = s]
  BY <1>1 DEF AppRequest
<1>3. /\ r.stage = s /\ r.kind = request[i].kind /\ r.target = request[i].target
      /\ r.key = request[i].key /\ r.visit = request[i].visit /\ r # NotSent
  BY <1>1, <1>2 DEF AppRequest
<1>4. request' = [request EXCEPT ![i] = r]
  BY <1>2 DEF AppTypes
<1> QED BY <1>1, <1>3, <1>4 DEF AppTypes

\* What a list shows is in the table.
LEMMA ReadListHolds ==
  ASSUME ApplicationsInv, ReadList
  PROVE  ApplicationsInv'
<1> USE DEF ApplicationsInv, ReadList, Statuses, There
<1>1. AppTypes'
  BY DEF AppTypes, AppRequest, AppRow, Editor, Confirm, Status
<1>2. PageWaits'
  BY DEF PageWaits, Ongoing, Here
<1>3. LastKeys'
  BY DEF LastKeys
<1>4. KeysTraced'
  BY DEF KeysTraced, Awaited
<1>5. TargetsThere'
  BY DEF TargetsThere, There
<1>6. AnswersOwn'
  BY DEF AnswersOwn, Ongoing, Here
<1>7. NewerUnseen'
  BY DEF NewerUnseen, NewestSeen, Here
<1> QED BY <1>1, <1>2, <1>3, <1>4, <1>5, <1>6, <1>7

\* Leaving the page gives up every dialog and every request of it.
LEMMA LeavePageHolds ==
  ASSUME ApplicationsInv, LeavePage
  PROVE  ApplicationsInv'
<1> USE DEF ApplicationsInv, LeavePage, TargetsThere
<1>1. AppTypes'
  <2>1. leaves' \in 0 .. MaxLeaves
    BY DEF AppTypes
  <2>2. secret' \in 0 .. Len(issued')
    BY DEF AppTypes
  <2> QED BY <2>1, <2>2 DEF AppTypes
<1>2. PageWaits'
  <2>1. \A i \in Requests : request[i] # NotSent => request[i].visit \in Nat
    BY DEF AppTypes, AppRequest
  <2>2. leaves \in Nat
    BY DEF AppTypes
  <2> QED BY <2>1, <2>2 DEF PageWaits, Ongoing, Here
<1>3. LastKeys'
  BY DEF LastKeys
<1>4. KeysTraced'
  BY DEF KeysTraced, Awaited
<1>5. TargetsThere'
  BY DEF TargetsThere, There
<1>6. AnswersOwn'
  BY DEF AnswersOwn, Ongoing, Here
<1>7. NewerUnseen'
  BY DEF NewerUnseen, NewestSeen, Here
<1> QED BY <1>1, <1>2, <1>3, <1>4, <1>5, <1>6, <1>7

\* A page that is shown again waits for nothing.
LEMMA MountPageHolds ==
  ASSUME ApplicationsInv, MountPage
  PROVE  ApplicationsInv'
<1> USE DEF ApplicationsInv, MountPage
<1>1. AppTypes'
  BY DEF AppTypes, AppRequest, AppRow, Editor, Confirm, Status
<1>2. PageWaits'
  BY DEF PageWaits, Ongoing, Here
<1>3. LastKeys'
  BY DEF LastKeys
<1>4. KeysTraced'
  BY DEF KeysTraced, Awaited
<1>5. TargetsThere'
  BY DEF TargetsThere, There
<1>6. AnswersOwn'
  <2>1. \A i \in Requests : request[i] # NotSent => ~ Here(i)'
    BY DEF PageWaits, Here
  <2> QED BY <2>1 DEF AnswersOwn, Ongoing
<1>7. NewerUnseen'
  <2>1. \A i \in Requests : request[i] # NotSent => ~ Here(i)'
    BY DEF PageWaits, Here
  <2> QED BY <2>1 DEF NewerUnseen, NewestSeen
<1> QED BY <1>1, <1>2, <1>3, <1>4, <1>5, <1>6, <1>7

\* A form for a new application opens.
LEMMA OpenNewHolds ==
  ASSUME ApplicationsInv, OpenNew
  PROVE  ApplicationsInv'
<1> USE DEF ApplicationsInv, OpenNew, NoDialog
<1>1. AppTypes'
  BY DEF AppTypes, AppRequest, AppRow, Editor, Confirm, Status
<1>2. PageWaits'
  BY DEF PageWaits, Ongoing, Here
<1>3. LastKeys'
  BY DEF LastKeys
<1>4. KeysTraced'
  BY DEF KeysTraced, Awaited
<1>5. TargetsThere'
  BY DEF TargetsThere, There
<1>6. AnswersOwn'
  BY DEF AnswersOwn, Ongoing, Here
<1>7. NewerUnseen'
  BY DEF NewerUnseen, NewestSeen, Here
<1> QED BY <1>1, <1>2, <1>3, <1>4, <1>5, <1>6, <1>7

\* A form for an application opens.
LEMMA OpenEditorHolds ==
  ASSUME ApplicationsInv, NEW t \in Apps, OpenEditor(t)
  PROVE  ApplicationsInv'
<1> USE DEF ApplicationsInv, OpenEditor, NoDialog, Listed
<1>1. AppTypes'
  BY DEF AppTypes, AppRequest, AppRow, Editor, Confirm, Status
<1>2. PageWaits'
  BY DEF PageWaits, Ongoing, Here
<1>3. LastKeys'
  BY DEF LastKeys
<1>4. KeysTraced'
  BY DEF KeysTraced, Awaited
<1>5. TargetsThere'
  BY DEF TargetsThere, There
<1>6. AnswersOwn'
  BY DEF AnswersOwn, Ongoing, Here
<1>7. NewerUnseen'
  BY DEF NewerUnseen, NewestSeen, Here
<1> QED BY <1>1, <1>2, <1>3, <1>4, <1>5, <1>6, <1>7

\* A draft that is edited is of the same application, and waits for the same.
LEMMA EditDraftHolds ==
  ASSUME ApplicationsInv, EditDraft
  PROVE  ApplicationsInv'
<1>1. editor # None /\ editor \in Editor
  BY DEF ApplicationsInv, AppTypes, EditDraft
<1>2. PICK e \in Editor : e = [editor EXCEPT !.ok = ~ editor.ok]
  BY <1>1 DEF Editor
<1>3. /\ editor' = e /\ e # None /\ e.wait = editor.wait
      /\ UNCHANGED <<rowVars, pageShown, leaves, list, confirm, pending, secret, request, keyVars>>
  BY <1>1, <1>2, NoneAssumption DEF EditDraft, Editor
<1> USE DEF ApplicationsInv
<1>4. AppTypes'
  BY <1>3 DEF AppTypes
<1>5. PageWaits'
  BY <1>1, <1>3 DEF PageWaits, Ongoing, Here
<1>6. LastKeys' /\ KeysTraced' /\ TargetsThere'
  BY <1>3 DEF LastKeys, KeysTraced, Awaited, TargetsThere, There
<1>7. AnswersOwn'
  BY <1>3 DEF AnswersOwn, Ongoing, Here
<1>8. NewerUnseen'
  BY <1>3 DEF NewerUnseen, NewestSeen, Here
<1> QED BY <1>4, <1>5, <1>6, <1>7, <1>8

\* A form closes only when it waits for nothing.
LEMMA CloseEditorHolds ==
  ASSUME ApplicationsInv, CloseEditor
  PROVE  ApplicationsInv'
<1> USE DEF ApplicationsInv, CloseEditor
<1>1. AppTypes'
  BY DEF AppTypes, AppRequest, AppRow, Editor, Confirm, Status
<1>2. PageWaits'
  BY DEF PageWaits, Ongoing, Here
<1>3. LastKeys'
  BY DEF LastKeys
<1>4. KeysTraced'
  BY DEF KeysTraced, Awaited
<1>5. TargetsThere'
  BY DEF TargetsThere, There
<1>6. AnswersOwn'
  BY DEF AnswersOwn, Ongoing, Here
<1>7. NewerUnseen'
  BY DEF NewerUnseen, NewestSeen, Here
<1> QED BY <1>1, <1>2, <1>3, <1>4, <1>5, <1>6, <1>7

\* A confirmation opens for a row of the list.
LEMMA OpenConfirmHolds ==
  ASSUME ApplicationsInv, NEW t \in Apps, NEW action \in {"rotate", "delete"}, OpenConfirm(t, action)
  PROVE  ApplicationsInv'
<1> USE DEF ApplicationsInv, OpenConfirm, NoDialog, Listed
<1>1. AppTypes'
  BY DEF AppTypes, AppRequest, AppRow, Editor, Confirm, Status
<1>2. PageWaits'
  BY DEF PageWaits, Ongoing, Here
<1>3. LastKeys'
  BY DEF LastKeys
<1>4. KeysTraced'
  BY DEF KeysTraced, Awaited
<1>5. TargetsThere'
  BY DEF TargetsThere, There
<1>6. AnswersOwn'
  BY DEF AnswersOwn, Ongoing, Here
<1>7. NewerUnseen'
  BY DEF NewerUnseen, NewestSeen, Here
<1> QED BY <1>1, <1>2, <1>3, <1>4, <1>5, <1>6, <1>7

\* A confirmation closes.
LEMMA CloseConfirmHolds ==
  ASSUME ApplicationsInv, CloseConfirm
  PROVE  ApplicationsInv'
<1> USE DEF ApplicationsInv, CloseConfirm
<1>1. AppTypes'
  BY DEF AppTypes, AppRequest, AppRow, Editor, Confirm, Status
<1>2. PageWaits'
  BY DEF PageWaits, Ongoing, Here
<1>3. LastKeys'
  BY DEF LastKeys
<1>4. KeysTraced'
  BY DEF KeysTraced, Awaited
<1>5. TargetsThere'
  BY DEF TargetsThere, There
<1>6. AnswersOwn'
  BY DEF AnswersOwn, Ongoing, Here
<1>7. NewerUnseen'
  BY DEF NewerUnseen, NewestSeen, Here
<1> QED BY <1>1, <1>2, <1>3, <1>4, <1>5, <1>6, <1>7

\* The dialog of the key closes.
LEMMA DismissHolds ==
  ASSUME ApplicationsInv, Dismiss
  PROVE  ApplicationsInv'
<1> USE DEF ApplicationsInv, Dismiss
<1>1. AppTypes'
  BY DEF AppTypes, AppRequest, AppRow, Editor, Confirm, Status
<1>2. PageWaits'
  BY DEF PageWaits, Ongoing, Here
<1>3. LastKeys'
  BY DEF LastKeys
<1>4. KeysTraced'
  BY DEF KeysTraced, Awaited
<1>5. TargetsThere'
  BY DEF TargetsThere, There
<1>6. AnswersOwn'
  BY DEF AnswersOwn, Ongoing, Here
<1>7. NewerUnseen'
  BY DEF NewerUnseen, NewestSeen, Here
<1> QED BY <1>1, <1>2, <1>3, <1>4, <1>5, <1>6, <1>7


\* A change of a row that neither issues a key nor frees it.
LEMMA RowsHold ==
  ASSUME ApplicationsInv, app' \in [Apps -> AppRow],
         \A u \in Apps : app'[u].key = app[u].key /\ (app'[u].status = "free" => app[u].status = "free"),
         UNCHANGED <<issued, pageShown, leaves, list, dialogVars, request, keyVars>>
  PROVE  ApplicationsInv'
<1> USE DEF ApplicationsInv
<1>1. AppTypes'
  BY DEF AppTypes
<1>2. PageWaits'
  BY DEF PageWaits, Ongoing, Here
<1>3. LastKeys'
  <2>1. \A k \in 1 .. Len(issued) : issued[k] \in Apps
    BY DEF AppTypes
  <2> QED BY <2>1 DEF LastKeys
<1>4. KeysTraced'
  BY DEF KeysTraced, Awaited
<1>5. TargetsThere'
  <2>1. confirm # None => confirm.target \in Apps
    BY DEF AppTypes, Confirm
  <2>2. \A i \in Requests : request[i] # NotSent /\ request[i].kind \in {"rotate", "delete"} =>
          request[i].target \in Apps
    BY DEF PageWaits
  <2>3. \A t \in There(list) : t \in Apps
    BY DEF There
  <2> QED BY <2>1, <2>2, <2>3 DEF TargetsThere
<1>6. AnswersOwn'
  BY DEF AnswersOwn, Ongoing, Here
<1>7. NewerUnseen'
  BY DEF NewerUnseen, NewestSeen, Here
<1> QED BY <1>1, <1>2, <1>3, <1>4, <1>5, <1>6, <1>7

\* What an administrator decides leaves the keys alone.
LEMMA RegulateHolds ==
  ASSUME ApplicationsInv, NEW t \in Apps, Regulate(t)
  PROVE  ApplicationsInv'
<1>1. PICK v \in {"live", "suspended", "revoked"} : app' = [app EXCEPT ![t].status = v]
  BY DEF Regulate
<1>2. app[t] \in AppRow /\ app[t].status \in {"live", "suspended"}
  BY DEF ApplicationsInv, AppTypes, Regulate
<1>3. PICK r \in AppRow : r = [app[t] EXCEPT !.status = v]
  BY <1>2 DEF AppRow, Status
<1>4. r.key = app[t].key /\ r.status # "free"
  BY <1>2, <1>3 DEF AppRow
<1>5. app' = [app EXCEPT ![t] = r]
  BY <1>1, <1>3
<1>6. /\ app' \in [Apps -> AppRow]
      /\ \A u \in Apps : app'[u].key = app[u].key /\ (app'[u].status = "free" => app[u].status = "free")
  BY <1>4, <1>5 DEF ApplicationsInv, AppTypes
<1>7. UNCHANGED <<issued, pageShown, leaves, list, dialogVars, request, keyVars>>
  BY DEF Regulate
<1> QED BY <1>6, <1>7, RowsHold

\* A request is sent.
LEMMA RequestBegun ==
  ASSUME AppTypes, NEW i \in Requests, NEW kind \in {"create", "update", "rotate", "delete"},
         NEW t \in Apps \cup {"new"}, request' = [request EXCEPT ![i] = Sent(kind, t)]
  PROVE  /\ request' \in [Requests -> AppRequest \cup {NotSent}]
         /\ request'[i] # NotSent /\ request'[i].stage = "sent" /\ request'[i].kind = kind
         /\ request'[i].target = t /\ request'[i].key = 0 /\ request'[i].visit = leaves
         /\ \A j \in Requests : j # i => request'[j] = request[j]
<1>1. leaves \in Nat
  BY DEF AppTypes
<1>2. PICK r \in AppRequest : r = Sent(kind, t)
  BY <1>1 DEF Sent, AppRequest
<1>3. /\ r # NotSent /\ r.stage = "sent" /\ r.kind = kind /\ r.target = t /\ r.key = 0
      /\ r.visit = leaves
  BY <1>2 DEF Sent
<1>4. request' = [request EXCEPT ![i] = r]
  BY <1>2
<1> QED BY <1>3, <1>4 DEF AppTypes

\* A form sends one request and waits for it.
LEMMA SaveDraftHolds ==
  ASSUME ApplicationsInv, NEW i \in Requests, SaveDraft(i)
  PROVE  ApplicationsInv'
<1> USE DEF ApplicationsInv
<1>1. editor \in Editor /\ editor # None /\ editor.wait = None /\ request[i] = NotSent
  BY DEF AppTypes, SaveDraft
<1>2. PICK kind \in {"create", "update"} : kind = IF editor.target = "new" THEN "create" ELSE "update"
  OBVIOUS
<1>3. PICK t \in Apps \cup {"new"} : t = editor.target /\ (kind = "update" => t \in Apps)
  BY <1>1, <1>2 DEF Editor
<1>4. /\ request' \in [Requests -> AppRequest \cup {NotSent}]
      /\ request'[i] # NotSent /\ request'[i].stage = "sent" /\ request'[i].kind = kind
      /\ request'[i].target = t /\ request'[i].key = 0 /\ request'[i].visit = leaves
      /\ \A j \in Requests : j # i => request'[j] = request[j]
  <2>1. request' = [request EXCEPT ![i] = Sent(kind, t)]
    BY <1>2, <1>3 DEF SaveDraft
  <2> QED BY <2>1, RequestBegun
<1>5. editor' \in Editor /\ editor' # None /\ editor'.wait = i
  <2>1. editor' = [editor EXCEPT !.wait = i]
    BY DEF SaveDraft
  <2>2. editor' \in Editor /\ editor'.wait = i
    BY <1>1, <2>1 DEF Editor
  <2> QED BY <2>2, NoneAssumption
<1>6. UNCHANGED <<rowVars, pageShown, leaves, list, confirm, pending, secret, keyVars>>
  BY DEF SaveDraft
<1>7. pageShown
  BY <1>1 DEF PageWaits
<1>8. \A j \in Requests : request[j] # NotSent => j # i /\ request'[j] = request[j]
  BY <1>1, <1>4
<1>9. AppTypes'
  BY <1>4, <1>5, <1>6 DEF AppTypes
<1>10. PageWaits'
  <2>1. \A j \in Requests : j # i /\ request'[j] # NotSent =>
          /\ request[j] # NotSent /\ request'[j] = request[j]
          /\ Ongoing(j) => request[j].kind \in {"rotate", "delete"}
    <3>1. ASSUME NEW j \in Requests, request[j] # NotSent, Ongoing(j)
          PROVE  request[j].kind \in {"rotate", "delete"}
      <4>1. editor.wait # j
        BY <1>1, ApplicationsAssumption
      <4> QED BY <3>1, <4>1 DEF PageWaits
    <3> QED BY <1>4, <3>1
  <2>2. leaves \in Nat /\ leaves <= leaves
    BY DEF AppTypes
  <2>3. \A j \in Requests : j # i => (Ongoing(j)' <=> Ongoing(j))
    BY <1>4, <1>6 DEF Ongoing, Here
  <2>4. pending # i
    BY <1>1 DEF PageWaits
  <2>5. confirm = None
    BY <1>1 DEF PageWaits
  <2>6. ASSUME NEW j \in Requests, request'[j] # NotSent
        PROVE  /\ request'[j].visit <= leaves /\ (~ pageShown => request'[j].visit # leaves)
               /\ request'[j].kind # "create" => request'[j].target \in Apps
               /\ Ongoing(j)' => IF request'[j].kind \in {"rotate", "delete"}
                                THEN pending = j ELSE editor' # None /\ editor'.wait = j
    <3>1. CASE j = i
      BY <1>3, <1>4, <1>5, <1>7, <2>2, <3>1
    <3>2. CASE j # i
      BY <1>6, <2>1, <2>3, <2>6, <3>2 DEF PageWaits
    <3> QED BY <3>1, <3>2
  <2>7. pending # None =>
       /\ request'[pending] # NotSent /\ Ongoing(pending)'
       /\ request'[pending].kind \in {"rotate", "delete"}
    <3>1. ASSUME pending # None
          PROVE  pending \in Requests /\ pending # i
      BY <2>4, <3>1 DEF AppTypes
    <3> QED BY <1>4, <1>6, <3>1 DEF PageWaits, Ongoing, Here
  <2> QED BY <1>6, <1>7, <2>5, <2>6, <2>7 DEF PageWaits
<1>11. LastKeys'
  BY <1>6 DEF LastKeys
<1>12. KeysTraced'
  BY <1>1, <1>4, <1>6 DEF KeysTraced, Awaited
<1>13. TargetsThere'
  BY <1>4, <1>6, <1>8 DEF TargetsThere, There
<1>14. AnswersOwn'
  <2>1. pending # None => pending \in Requests /\ request[pending] # NotSent
    BY DEF AppTypes, PageWaits
  <2> QED BY <1>4, <1>6, <1>8, <2>1 DEF AnswersOwn, Ongoing, Here
<1>15. NewerUnseen'
  BY <1>4, <1>6, <1>8 DEF NewerUnseen, NewestSeen, Here
<1> QED BY <1>9, <1>10, <1>11, <1>12, <1>13, <1>14, <1>15

\* A confirmation sends one request, which the page waits for.
LEMMA PerformActionHolds ==
  ASSUME ApplicationsInv, NEW i \in Requests, PerformAction(i)
  PROVE  ApplicationsInv'
<1> USE DEF ApplicationsInv
<1>1. /\ confirm \in Confirm /\ confirm # None /\ editor = None /\ pending = None
      /\ request[i] = NotSent
  BY DEF AppTypes, PerformAction, PageWaits
<1>2. PICK kind \in {"rotate", "delete"} : kind = confirm.action
  BY <1>1 DEF Confirm
<1>3. PICK t \in Apps : t = confirm.target
  BY <1>1 DEF Confirm
<1>4. /\ request' \in [Requests -> AppRequest \cup {NotSent}]
      /\ request'[i] # NotSent /\ request'[i].stage = "sent" /\ request'[i].kind = kind
      /\ request'[i].target = t /\ request'[i].key = 0 /\ request'[i].visit = leaves
      /\ \A j \in Requests : j # i => request'[j] = request[j]
  <2>1. request' = [request EXCEPT ![i] = Sent(kind, t)]
    BY <1>2, <1>3 DEF PerformAction
  <2> QED BY <2>1, RequestBegun
<1>5. pending' = i /\ pending' # None
  BY ApplicationsAssumption DEF PerformAction
<1>6. UNCHANGED <<rowVars, pageShown, leaves, list, editor, confirm, secret, keyVars>>
  BY DEF PerformAction
<1>7. pageShown
  BY <1>1 DEF PageWaits
<1>8. \A j \in Requests : request[j] # NotSent => j # i /\ request'[j] = request[j] /\ ~ Ongoing(j)
  <2>1. \A j \in Requests : request[j] # NotSent => ~ Ongoing(j)
    BY <1>1, ApplicationsAssumption DEF PageWaits
  <2> QED BY <1>1, <1>4, <2>1
<1>9. AppTypes'
  BY <1>4, <1>5, <1>6 DEF AppTypes
<1>10. PageWaits'
  <2>1. leaves \in Nat /\ leaves <= leaves
    BY DEF AppTypes
  <2>2. \A j \in Requests : j # i /\ request'[j] # NotSent =>
          request[j] # NotSent /\ request'[j] = request[j] /\ ~ Ongoing(j)'
    BY <1>4, <1>6, <1>8 DEF Ongoing, Here
  <2>3. Ongoing(i)'
    BY <1>4, <1>6, <1>7 DEF Ongoing, Here
  <2> QED BY <1>1, <1>4, <1>5, <1>6, <1>7, <2>1, <2>2, <2>3 DEF PageWaits
<1>11. LastKeys'
  BY <1>6 DEF LastKeys
<1>12. KeysTraced'
  BY <1>1, <1>4, <1>6 DEF KeysTraced, Awaited
<1>13. TargetsThere'
  <2>1. app[t].status # "free"
    BY <1>1, <1>3 DEF TargetsThere
  <2> QED BY <1>4, <1>6, <1>8, <2>1 DEF TargetsThere, There
<1>14. AnswersOwn'
  <2>1. \A j \in Requests : j # i /\ request'[j] # NotSent => request[j] # NotSent /\ ~ Ongoing(j)'
    BY <1>4, <1>6, <1>8 DEF Ongoing, Here
  <2> QED BY <1>4, <1>6, <1>8, <2>1 DEF AnswersOwn
<1>15. NewerUnseen'
  BY <1>4, <1>6, <1>8 DEF NewerUnseen, NewestSeen, Here
<1> QED BY <1>9, <1>10, <1>11, <1>12, <1>13, <1>14, <1>15

\* A request is refused, lost or given up: the page goes on waiting, or does not if
\* it was told, and the key of an answer that is lost is gone.
LEMMA MovesHold ==
  ASSUME ApplicationsInv, NEW i \in Requests, request[i] # NotSent,
         NEW s \in {"overdue", "refused", "lost", "late", "settled"},
         request' = [request EXCEPT ![i].stage = s],
         s \notin {"late", "settled"} =>
           editor' = editor /\ pending' = pending /\ request[i].stage \notin {"late", "settled"},
         s \in {"late", "settled"} =>
           /\ editor' = editor \/ (editor.wait = i /\ editor # None /\ editor' \in Editor /\ editor' # None)
           /\ pending' = pending \/ (pending' = None /\ pending = i)
           /\ pending' # i,
         goneKeys \subseteq goneKeys', goneKeys' \subseteq 1 .. Len(issued),
         request[i].stage = "done" /\ request[i].key # 0 => request[i].key \in goneKeys',
         UNCHANGED <<rowVars, pageShown, leaves, list, confirm, secret, seenKeys>>
  PROVE  ApplicationsInv'
<1> USE DEF ApplicationsInv
<1>1. /\ request' \in [Requests -> AppRequest \cup {NotSent}]
      /\ request[i] \in AppRequest /\ request'[i] \in AppRequest /\ request'[i] # NotSent
      /\ request'[i].stage = s /\ request'[i].kind = request[i].kind
      /\ request'[i].target = request[i].target /\ request'[i].key = request[i].key
      /\ request'[i].visit = request[i].visit
      /\ \A j \in Requests : j # i => request'[j] = request[j]
  BY RequestMoves
<1>2. \A j \in Requests : j # i => (Ongoing(j)' <=> Ongoing(j))
  BY <1>1 DEF Ongoing, Here
<1>3. Ongoing(i)' => Ongoing(i) /\ s \notin {"late", "settled"}
  BY <1>1 DEF Ongoing, Here, AppRequest
<1>4. pending \in Requests \cup {None} /\ pending' \in {pending, None}
  BY DEF AppTypes
<1>5. AppTypes'
  BY <1>1, <1>4 DEF AppTypes
<1>6. PageWaits'
  <2>1. ASSUME NEW j \in Requests, request'[j] # NotSent
        PROVE  /\ request'[j].visit <= leaves /\ (~ pageShown => request'[j].visit # leaves)
               /\ request'[j].kind # "create" => request'[j].target \in Apps
               /\ Ongoing(j)' => IF request'[j].kind \in {"rotate", "delete"}
                                THEN pending' = j ELSE editor' # None /\ editor'.wait = j
    <3>1. CASE j = i
      BY <1>1, <1>3, <3>1 DEF PageWaits
    <3>2. CASE j # i
      <4>1. pending = j => pending' = j
        BY <3>2
      <4>2. editor # None /\ editor.wait = j => editor' = editor
        BY <3>2
      <4> QED BY <1>1, <1>2, <2>1, <3>2, <4>1, <4>2 DEF PageWaits
    <3> QED BY <3>1, <3>2
  <2>2. ASSUME pending' # None
        PROVE  /\ request'[pending'] # NotSent /\ Ongoing(pending)'
               /\ request'[pending'].kind \in {"rotate", "delete"}
    <3>1. pending' = pending /\ pending \in Requests /\ Ongoing(pending)
      BY <1>4, <2>2 DEF PageWaits
    <3>2. CASE pending = i
      <4>1. s \notin {"late", "settled"}
        BY <3>1, <3>2
      <4> QED BY <1>1, <3>1, <3>2, <4>1 DEF PageWaits, Ongoing, Here
    <3>3. CASE pending # i
      BY <1>1, <3>1, <3>3 DEF PageWaits, Ongoing, Here
    <3> QED BY <3>2, <3>3
  <2>3. editor' # None => editor # None
    OBVIOUS
  <2>4. ~ pageShown => editor' = None /\ pending' = None
    BY <1>4, ApplicationsAssumption DEF PageWaits
  <2> QED BY <2>1, <2>2, <2>3, <2>4 DEF PageWaits
<1>7. LastKeys'
  BY DEF LastKeys
<1>8. KeysTraced'
  <2>1. \A k \in 1 .. Len(issued) : Awaited(k) => Awaited(k)' \/ k \in goneKeys'
    <3> SUFFICES ASSUME NEW k \in 1 .. Len(issued), NEW j \in Requests,
                        request[j].stage = "done", request[j].key = k
                 PROVE  Awaited(k)' \/ k \in goneKeys'
      BY DEF Awaited
    <3>1. k # 0
      OBVIOUS
    <3> QED BY <1>1, <3>1 DEF Awaited
  <2> QED BY <2>1 DEF KeysTraced
<1>9. TargetsThere'
  BY <1>1 DEF TargetsThere, There
<1>10. AnswersOwn'
  <2>1. ASSUME pending' # None
        PROVE  pending' = pending /\ pending # None /\ request'[pending].target = request[pending].target
    BY <1>1, <1>4, <2>1
  <2>2. \A j \in Requests : /\ request'[j] # NotSent => request[j] # NotSent
                            /\ request'[j].key = request[j].key /\ request'[j].kind = request[j].kind
                            /\ request'[j].target = request[j].target
                            /\ Ongoing(j)' => Ongoing(j)
    BY <1>1, <1>2, <1>3
  <2> QED BY <2>1, <2>2 DEF AnswersOwn
<1>11. NewerUnseen'
  <2>1. \A j \in Requests : request'[j] # NotSent /\ Here(j)' /\ request'[j].stage = "done" =>
          request[j] # NotSent /\ Here(j) /\ request[j].stage = "done" /\ request'[j].key = request[j].key
    BY <1>1 DEF Here
  <2> QED BY <2>1 DEF NewerUnseen, NewestSeen
<1> QED BY <1>5, <1>6, <1>7, <1>8, <1>9, <1>10, <1>11

\* A refused request changes no application.
LEMMA RefuseHolds ==
  ASSUME ApplicationsInv, NEW i \in Requests, request[i].stage \in {"sent", "overdue", "late"},
         Refuse(i), UNCHANGED <<pageShown, leaves, list, dialogVars>>
  PROVE  ApplicationsInv'
<1>1. PICK s \in {"refused", "lost", "settled"} : s =
        CASE request[i].stage = "sent" -> "refused" [] request[i].stage = "overdue" -> "lost"
          [] request[i].stage = "late" -> "settled"
  OBVIOUS
<1>2. request' = [request EXCEPT ![i].stage = s]
  BY <1>1 DEF Refuse
<1>3. (s = "settled" <=> request[i].stage = "late") /\ s # "late" /\ request[i].stage \notin {"settled", "done"}
  BY <1>1
<1>4. request[i] # NotSent
  OBVIOUS
<1>5. request[i].stage = "late" => pending # i
  BY ApplicationsAssumption DEF ApplicationsInv, PageWaits, Ongoing
<1>6. goneKeys \subseteq 1 .. Len(issued)
  BY DEF ApplicationsInv, AppTypes
<1>7. UNCHANGED <<rowVars, pageShown, leaves, list, dialogVars, keyVars>>
  BY DEF Refuse
<1>8. s \notin {"late", "settled"} =>
        editor' = editor /\ pending' = pending /\ request[i].stage \notin {"late", "settled"}
  BY <1>3, <1>7
<1>9. s \in {"late", "settled"} => editor' = editor /\ pending' = pending /\ pending' # i
  BY <1>3, <1>5, <1>7
<1>10. goneKeys \subseteq goneKeys' /\ goneKeys' \subseteq 1 .. Len(issued)
  BY <1>6, <1>7
<1> QED BY <1>2, <1>3, <1>4, <1>7, <1>8, <1>9, <1>10, MovesHold

\* A request whose answer is lost may have been served.
LEMMA LoseRequestHolds ==
  ASSUME ApplicationsInv, NEW i \in Requests, LoseRequest(i)
  PROVE  ApplicationsInv'
<1>1. PICK s \in {"lost", "overdue"} : request' = [request EXCEPT ![i].stage = s]
  BY DEF LoseRequest
<1>2. request[i] # NotSent /\ request[i].stage \in {"sent", "done"}
  BY DEF LoseRequest
<1>3. goneKeys \subseteq 1 .. Len(issued) /\ (request[i].key # 0 => request[i].key \in 1 .. Len(issued))
  <2>1. request[i].key \in Nat /\ Len(issued) \in Nat
    BY <1>2 DEF ApplicationsInv, AppTypes, AppRequest
  <2>2. request[i].key # 0 => request[i].key <= Len(issued)
    BY <1>2 DEF ApplicationsInv, AnswersOwn
  <2> QED BY <2>1, <2>2 DEF ApplicationsInv, AppTypes
<1>4. goneKeys \subseteq goneKeys' /\ goneKeys' \subseteq 1 .. Len(issued)
  BY <1>3 DEF LoseRequest
<1>5. request[i].key # 0 => request[i].key \in goneKeys'
  BY DEF LoseRequest
<1> QED BY <1>1, <1>2, <1>4, <1>5, MovesHold DEF LoseRequest

\* A failure ends the wait of who sent the request.
LEMMA RequestFailedHolds ==
  ASSUME ApplicationsInv, NEW i \in Requests, RequestFailed(i)
  PROVE  ApplicationsInv'
<1>1. PICK s \in {"late", "settled"} : s = IF request[i].stage = "overdue" THEN "late" ELSE "settled"
  OBVIOUS
<1>2. request' = [request EXCEPT ![i].stage = s]
  BY <1>1 DEF RequestFailed
<1>3. request[i] # NotSent /\ request[i].stage \in {"refused", "lost", "overdue"}
  BY DEF RequestFailed
<1>4. \/ editor' = editor
      \/ editor.wait = i /\ editor # None /\ editor' \in Editor /\ editor' # None
  <2>1. CASE editor # None /\ editor.wait = i
    <3>1. editor \in Editor /\ editor' = [editor EXCEPT !.wait = None]
      BY <2>1 DEF ApplicationsInv, AppTypes, RequestFailed
    <3>2. editor' \in Editor
      BY <3>1 DEF Editor
    <3> QED BY <2>1, <3>2, NoneAssumption
  <2>2. CASE ~ (editor # None /\ editor.wait = i)
    BY <2>2 DEF RequestFailed
  <2> QED BY <2>1, <2>2
<1>5. pending' = (IF pending = i THEN None ELSE pending) /\ None # i
  BY ApplicationsAssumption DEF RequestFailed
<1>6. goneKeys \subseteq 1 .. Len(issued)
  BY DEF ApplicationsInv, AppTypes
<1>7. UNCHANGED <<rowVars, pageShown, leaves, list, confirm, secret, keyVars>>
  BY DEF RequestFailed
<1>8. (pending' = pending \/ (pending' = None /\ pending = i)) /\ pending' # i
  BY <1>5
<1>9. goneKeys \subseteq goneKeys' /\ goneKeys' \subseteq 1 .. Len(issued)
  BY <1>6, <1>7
<1> QED BY <1>2, <1>3, <1>4, <1>7, <1>8, <1>9, MovesHold

\* A request that is granted and issues no key, or the next one: to the target of a
\* rotation, to a free application for a creation.
LEMMA GrantHolds ==
  ASSUME ApplicationsInv, NEW i \in Requests, request[i].stage \in {"sent", "overdue", "late"},
         NEW k \in Nat, Grant(i, k), app' \in [Apps -> AppRow],
         UNCHANGED <<pageShown, leaves, list, dialogVars>>,
         \/ /\ k = 0 /\ UNCHANGED issued
            /\ \A u \in Apps : app'[u].key = app[u].key /\ (app'[u].status = "free" => app[u].status = "free")
         \/ \E t \in Apps :
              /\ k = Len(issued) + 1 /\ k <= MaxKey /\ issued' = Append(issued, t)
              /\ app'[t].key = k /\ app'[t].status # "free"
              /\ \A u \in Apps : u # t => app'[u] = app[u]
              /\ \/ request[i].kind = "rotate" /\ request[i].target = t
                 \/ request[i].kind = "create" /\ app[t].status = "free"
  PROVE  ApplicationsInv'
<1> USE DEF ApplicationsInv
<1>1. request[i] \in AppRequest /\ request[i] # NotSent
  BY DEF AppTypes
<1>2. PICK s \in {"done", "lost", "settled"} : s =
        CASE request[i].stage = "sent" -> "done" [] request[i].stage = "overdue" -> "lost"
          [] request[i].stage = "late" -> "settled"
  OBVIOUS
<1>3. PICK r \in AppRequest : r = [request[i] EXCEPT !.key = k, !.stage = s]
  BY <1>1 DEF AppRequest
<1>4. /\ r # NotSent /\ r.stage = s /\ r.key = k /\ r.kind = request[i].kind
      /\ r.target = request[i].target /\ r.visit = request[i].visit
  BY <1>1, <1>3 DEF AppRequest
<1>5. request' = [request EXCEPT ![i] = r]
  BY <1>1, <1>2, <1>3 DEF Grant, AppTypes
<1>6. \A j \in Requests : request'[j] = IF j = i THEN r ELSE request[j]
  BY <1>5 DEF AppTypes
<1>7. /\ s = "settled" <=> request[i].stage = "late"
      /\ s = "lost" <=> request[i].stage = "overdue"
      /\ s = "done" <=> request[i].stage = "sent"
      /\ s # "done" <=> GivenUp(i)
  BY <1>2 DEF GivenUp
<1>8. /\ seenKeys' = seenKeys /\ goneKeys \subseteq goneKeys'
      /\ goneKeys' \subseteq goneKeys \cup ({k} \ {0})
      /\ k # 0 /\ s # "done" => k \in goneKeys'
  BY <1>7 DEF Grant
<1>9. issued \in Seq(Apps) /\ Len(issued) \in Nat
  BY DEF AppTypes
<1>10. /\ issued' \in Seq(Apps) /\ Len(issued') <= MaxKey
       /\ Len(issued) <= Len(issued') /\ Len(issued') \in Nat
       /\ \A m \in 1 .. Len(issued) : issued'[m] = issued[m] /\ issued[m] \in Apps
       /\ k <= Len(issued')
       /\ \A m \in 1 .. Len(issued') : m \in 1 .. Len(issued) \/ m = k
  <2>1. Len(issued) <= MaxKey /\ MaxKey \in Nat
    BY ApplicationsAssumption DEF AppTypes
  <2>2. \A m \in 1 .. Len(issued) : issued[m] \in Apps
    BY <1>9
  <2>3. CASE k = 0 /\ issued' = issued
    BY <1>9, <2>1, <2>2, <2>3
  <2>4. ASSUME NEW t \in Apps, k = Len(issued) + 1, k <= MaxKey, issued' = Append(issued, t)
        PROVE  /\ issued' \in Seq(Apps) /\ Len(issued') = k
               /\ \A m \in 1 .. Len(issued) : issued'[m] = issued[m]
               /\ \A m \in 1 .. k : m \in 1 .. Len(issued) \/ m = k
    BY <1>9, <2>4
  <2> QED BY <1>9, <2>1, <2>2, <2>3, <2>4
<1>11. \A u \in Apps : app'[u].status = "free" => app[u].status = "free"
  OBVIOUS
<1>12. \A j \in Requests : Ongoing(j)' <=> Ongoing(j)
  <2>1. \A j \in Requests : j # i => (Ongoing(j)' <=> Ongoing(j))
    BY <1>6 DEF Ongoing, Here
  <2>2. request'[i] = r /\ (Here(i)' <=> Here(i))
    BY <1>4, <1>6 DEF Here
  <2>3. Ongoing(i)' <=> Ongoing(i)
    BY <1>4, <1>7, <2>2 DEF Ongoing
  <2> QED BY <2>1, <2>3
<1>13. AppTypes'
  <2>1. request' \in [Requests -> AppRequest \cup {NotSent}]
    BY <1>5 DEF AppTypes
  <2>2. secret' \in 0 .. Len(issued')
    BY <1>9, <1>10 DEF AppTypes
  <2>3. seenKeys' \subseteq 1 .. Len(issued') /\ goneKeys' \subseteq 1 .. Len(issued')
    BY <1>8, <1>9, <1>10 DEF AppTypes
  <2> QED BY <1>10, <2>1, <2>2, <2>3 DEF AppTypes
<1>14. PageWaits'
  <2>1. pending # None => pending \in Requests
    BY DEF AppTypes
  <2> QED BY <1>1, <1>4, <1>6, <1>12, <2>1 DEF PageWaits
<1>15. LastKeys'
  <2>1. CASE k = 0
    BY <1>10, <2>1 DEF LastKeys
  <2>2. CASE k # 0
    <3>1. PICK t \in Apps :
            /\ k = Len(issued) + 1 /\ issued' = Append(issued, t)
            /\ app'[t].key = k /\ app'[t].status # "free"
            /\ \A u \in Apps : u # t => app'[u] = app[u]
      BY <2>2
    <3>2. Len(issued') = k /\ issued'[k] = t
      BY <1>9, <3>1
    <3>3. \A u \in Apps : app'[u].key # 0 => app'[u].key <= Len(issued') /\ issued'[app'[u].key] = u
      <4>1. ASSUME NEW u \in Apps, u # t, app[u].key # 0
            PROVE  app[u].key <= Len(issued') /\ issued'[app[u].key] = u
        <5>1. app[u].key \in 1 .. Len(issued) /\ issued[app[u].key] = u
          BY <1>9, <4>1 DEF LastKeys, AppTypes, AppRow
        <5> QED BY <1>9, <1>10, <5>1
      <4>2. app'[t].key <= Len(issued') /\ issued'[app'[t].key] = t
        BY <3>1, <3>2
      <4>3. \A u \in Apps : u # t => app'[u].key = app[u].key
        BY <3>1
      <4> QED BY <4>1, <4>2, <4>3
    <3>4. \A m \in 1 .. Len(issued') : m <= app'[issued'[m]].key /\ app'[issued'[m]].status # "free"
      <4>1. \A m \in 1 .. Len(issued) : m <= app[issued[m]].key /\ app[issued[m]].status # "free"
        BY DEF LastKeys
      <4>2. \A m \in 1 .. Len(issued) : m <= k
        BY <1>9, <3>1
      <4>3. \A m \in 1 .. Len(issued) : m <= app'[issued'[m]].key /\ app'[issued'[m]].status # "free"
        BY <1>10, <3>1, <4>1, <4>2
      <4> QED BY <1>10, <3>1, <3>2, <4>3
    <3> QED BY <3>3, <3>4 DEF LastKeys
  <2> QED BY <2>1, <2>2
<1>16. KeysTraced'
  <2>1. \A m : Awaited(m) => Awaited(m)'
    BY <1>6 DEF Awaited
  <2>2. k # 0 => k \in goneKeys' \/ Awaited(k)'
    BY <1>4, <1>6, <1>8 DEF Awaited
  <2>3. \A m \in 1 .. Len(issued) : m \in seenKeys' \cup goneKeys' \/ Awaited(m)'
    BY <1>8, <2>1 DEF KeysTraced
  <2>4. 0 \notin 1 .. Len(issued')
    OBVIOUS
  <2> QED BY <1>10, <2>2, <2>3, <2>4 DEF KeysTraced
<1>17. TargetsThere'
  <2>1. confirm # None => confirm.target \in Apps
    BY DEF AppTypes, Confirm
  <2>2. \A j \in Requests : request[j] # NotSent /\ request[j].kind \in {"rotate", "delete"} =>
          request[j].target \in Apps
    BY DEF PageWaits
  <2>3. \A t \in There(list) : t \in Apps
    BY DEF There
  <2> QED BY <1>1, <1>4, <1>6, <1>11, <2>1, <2>2, <2>3 DEF TargetsThere, There
<1>18. AnswersOwn'
  <2>1. pending # None => /\ pending \in Requests /\ request[pending] # NotSent
                          /\ request'[pending].target = request[pending].target
                          /\ request[pending].kind \in {"rotate", "delete"}
    BY <1>4, <1>6 DEF AppTypes, PageWaits
  <2>2. ASSUME NEW j \in Requests, j # i, request[j] # NotSent, request[j].key # 0
        PROVE  /\ request[j].key <= Len(issued')
               /\ request[j].kind \in {"create", "rotate"}
               /\ request[j].kind = "rotate" => issued'[request[j].key] = request[j].target
               /\ request[j].kind = "create" =>
                    /\ \A m \in 1 .. request[j].key - 1 : issued'[m] # issued'[request[j].key]
                    /\ Ongoing(j)' /\ pending # None =>
                         request'[pending].target # issued'[request[j].key]
    <3>1. request[j].key \in Nat /\ request[j].key <= Len(issued)
      BY <2>2 DEF AnswersOwn, AppTypes, AppRequest
    <3>2. /\ request[j].key \in 1 .. Len(issued)
          /\ request[j].key <= Len(issued')
          /\ \A m \in 1 .. request[j].key - 1 : m \in 1 .. Len(issued)
      BY <1>9, <1>10, <2>2, <3>1
    <3>3. /\ issued'[request[j].key] = issued[request[j].key]
          /\ \A m \in 1 .. request[j].key - 1 : issued'[m] = issued[m]
      BY <1>10, <3>2
    <3> QED BY <1>12, <2>1, <2>2, <3>2, <3>3 DEF AnswersOwn
  <2>3. ASSUME k # 0
        PROVE  /\ r.kind \in {"create", "rotate"}
               /\ r.kind = "rotate" => issued'[k] = r.target
               /\ r.kind = "create" =>
                    /\ \A m \in 1 .. k - 1 : issued'[m] # issued'[k]
                    /\ pending # None => request'[pending].target # issued'[k]
    <3>1. PICK t \in Apps :
              /\ k = Len(issued) + 1 /\ issued' = Append(issued, t)
              /\ \/ request[i].kind = "rotate" /\ request[i].target = t
                 \/ request[i].kind = "create" /\ app[t].status = "free"
      BY <2>3
    <3>2. issued'[k] = t /\ \A m \in 1 .. k - 1 : m \in 1 .. Len(issued)
      BY <1>9, <3>1
    <3>3. app[t].status = "free" => \A m \in 1 .. Len(issued) : issued'[m] # t
      BY <1>10 DEF LastKeys
    <3>4. app[t].status = "free" /\ pending # None => request'[pending].target # t
      BY <2>1 DEF TargetsThere
    <3> QED BY <1>4, <3>1, <3>2, <3>3, <3>4
  <2>4. pending' = pending
    OBVIOUS
  <2>5. ASSUME NEW j \in Requests, request'[j] # NotSent, request'[j].key # 0
        PROVE  /\ request'[j].key <= Len(issued')
               /\ request'[j].kind \in {"create", "rotate"}
               /\ request'[j].kind = "rotate" => issued'[request'[j].key] = request'[j].target
               /\ request'[j].kind = "create" =>
                    /\ \A m \in 1 .. request'[j].key - 1 : issued'[m] # issued'[request'[j].key]
                    /\ Ongoing(j)' /\ pending # None =>
                         request'[pending].target # issued'[request'[j].key]
    <3>1. CASE j = i
      <4>1. request'[j] = r
        BY <1>6, <3>1
      <4>2. r.key = k /\ k # 0 /\ k <= Len(issued')
        BY <1>4, <1>10, <2>5, <4>1
      <4> QED BY <2>3, <4>1, <4>2
    <3>2. CASE j # i
      <4>1. request'[j] = request[j]
        BY <1>6, <3>2
      <4> QED BY <2>2, <2>5, <3>2, <4>1
    <3> QED BY <3>1, <3>2
  <2> QED BY <2>4, <2>5 DEF AnswersOwn
<1>19. NewerUnseen'
  <2>1. ASSUME NEW n \in 1 .. Len(issued), NewestSeen(n)
        PROVE  \A m \in n + 1 .. Len(issued') : issued'[m] = issued'[n] => m \notin seenKeys'
    <3>1. \A m \in n + 1 .. Len(issued') : m \in n + 1 .. Len(issued) \/ m \notin 1 .. Len(issued)
      BY <1>9
    <3>2. \A m \in n + 1 .. Len(issued) : issued'[m] = issued[m]
      BY <1>9, <1>10
    <3>3. seenKeys' = seenKeys /\ seenKeys \subseteq 1 .. Len(issued)
      BY <1>8 DEF AppTypes
    <3> QED BY <1>10, <2>1, <3>1, <3>2, <3>3 DEF NewestSeen
  <2>2. secret # 0 => NewestSeen(secret)'
    BY <1>9, <2>1 DEF NewerUnseen, NewestSeen, AppTypes
  <2>3. ASSUME NEW j \in Requests, request'[j] # NotSent, Here(j)', request'[j].stage = "done",
               request'[j].key # 0
        PROVE  \A m \in request'[j].key + 1 .. Len(issued') :
                 issued'[m] = issued'[request'[j].key] => m \notin seenKeys'
    <3>1. CASE j = i
      <4>1. request'[j].key = k /\ Len(issued') = k
        BY <1>4, <1>6, <1>9, <2>3, <3>1
      <4> QED BY <4>1
    <3>2. CASE j # i
      <4>1. request'[j] = request[j] /\ Here(j)
        BY <1>6, <2>3, <3>2 DEF Here
      <4>2. NewestSeen(request[j].key) /\ request[j].key <= Len(issued) /\ request[j].key \in Nat
        BY <2>3, <4>1 DEF NewerUnseen, AnswersOwn, AppTypes, AppRequest
      <4>3. request[j].key \in 1 .. Len(issued)
        BY <1>9, <2>3, <4>1, <4>2
      <4> QED BY <2>1, <4>1, <4>2, <4>3
    <3> QED BY <3>1, <3>2
  <2> QED BY <2>2, <2>3 DEF NewerUnseen, NewestSeen
<1> QED BY <1>13, <1>14, <1>15, <1>16, <1>17, <1>18, <1>19

\* A key that is issued is the newest, and awaited by who asked for it.
LEMMA IssueHolds ==
  ASSUME ApplicationsInv, NEW i \in Requests, request[i].stage \in {"sent", "overdue", "late"},
         NEW t \in Apps, Issue(i, t), UNCHANGED <<pageShown, leaves, list, dialogVars>>,
         \/ request[i].kind = "rotate" /\ request[i].target = t
         \/ request[i].kind = "create" /\ app[t].status = "free"
  PROVE  ApplicationsInv'
<1>1. Len(issued) \in Nat /\ MaxKey \in Nat
  BY ApplicationsAssumption DEF ApplicationsInv, AppTypes
<1>2. PICK k \in Nat : k = Len(issued) + 1
  BY <1>1
<1>3. k <= MaxKey
  BY <1>1, <1>2 DEF Issue
<1>4. PICK r \in AppRow : r = [status |-> "live", key |-> k]
  BY DEF AppRow, Status
<1>5. app' = [app EXCEPT ![t] = r] /\ issued' = Append(issued, t) /\ Grant(i, k)
  BY <1>2, <1>4 DEF Issue
<1>6. /\ app' \in [Apps -> AppRow] /\ app'[t] = r
      /\ \A u \in Apps : u # t => app'[u] = app[u]
  BY <1>5 DEF ApplicationsInv, AppTypes
<1> QED BY <1>2, <1>3, <1>4, <1>5, <1>6, GrantHolds

\* The server creates, updates, rotates or deletes, or refuses.
LEMMA ServeRequestHolds ==
  ASSUME ApplicationsInv, NEW i \in Requests, ServeRequest(i)
  PROVE  ApplicationsInv'
<1>1. /\ request[i].stage \in {"sent", "overdue", "late"}
      /\ UNCHANGED <<pageShown, leaves, list, dialogVars>>
  BY DEF ServeRequest, GivenUp
<1>2. /\ request[i].kind \in {"create", "update", "rotate", "delete"}
      /\ request[i].kind # "create" => request[i].target \in Apps
  BY <1>1 DEF ApplicationsInv, AppTypes, AppRequest, PageWaits
<1>3. CASE request[i].kind = "create"
  <2>1. Refuse(i) \/ (\E t \in Apps : app[t].status = "free" /\ Issue(i, t))
    BY <1>3 DEF ServeRequest, Create
  <2> QED BY <1>1, <1>3, <2>1, RefuseHolds, IssueHolds
<1>4. CASE request[i].kind = "rotate"
  <2>1. Refuse(i) \/ Issue(i, request[i].target)
    BY <1>4 DEF ServeRequest, Rotate
  <2> QED BY <1>1, <1>2, <1>4, <2>1, RefuseHolds, IssueHolds
<1>5. CASE request[i].kind = "update"
  <2>1. Refuse(i) \/ (Grant(i, 0) /\ UNCHANGED rowVars)
    <3>1. Update(i, request[i].target)
      BY <1>5 DEF ServeRequest
    <3> QED BY <3>1 DEF Update
  <2>2. app \in [Apps -> AppRow]
    BY DEF ApplicationsInv, AppTypes
  <2> QED BY <1>1, <2>1, <2>2, RefuseHolds, GrantHolds
<1>6. CASE request[i].kind = "delete"
  <2>1. \/ Refuse(i)
        \/ /\ app' = [app EXCEPT ![request[i].target].status = "deleted"]
           /\ Grant(i, 0) /\ UNCHANGED issued
    BY <1>6 DEF ServeRequest, Delete
  <2>2. CASE Refuse(i)
    BY <1>1, <2>2, RefuseHolds
  <2>3. CASE /\ app' = [app EXCEPT ![request[i].target].status = "deleted"]
             /\ Grant(i, 0) /\ UNCHANGED issued
    <3>1. PICK t \in Apps : t = request[i].target
      BY <1>2, <1>6
    <3>2. app[t] \in AppRow
      BY DEF ApplicationsInv, AppTypes
    <3>3. PICK r \in AppRow : r = [app[t] EXCEPT !.status = "deleted"]
      BY <3>2 DEF AppRow, Status
    <3>4. r.key = app[t].key /\ r.status = "deleted" /\ app' = [app EXCEPT ![t] = r]
      BY <2>3, <3>1, <3>2, <3>3 DEF AppRow
    <3>5. /\ app' \in [Apps -> AppRow]
          /\ \A u \in Apps : app'[u].key = app[u].key /\ (app'[u].status = "free" => app[u].status = "free")
      BY <3>4 DEF ApplicationsInv, AppTypes
    <3> QED BY <1>1, <2>3, <3>5, GrantHolds
  <2> QED BY <2>1, <2>2, <2>3
<1> QED BY <1>2, <1>3, <1>4, <1>5, <1>6

\* The answer of a request of the page that is shown is the only one it waits for of
\* its kind: no key in flight is older than the one that is shown now.
LEMMA AnswerHolds ==
  ASSUME ApplicationsInv, NEW i \in Requests, request[i].stage = "done",
         request' = [request EXCEPT ![i].stage = "settled"], Show(i),
         IF request[i].kind \in {"rotate", "delete"}
         THEN editor' = editor /\ confirm' \in {confirm, None} /\ pending' = IF Here(i) THEN None ELSE pending
         ELSE editor' = (IF Here(i) THEN None ELSE editor) /\ confirm' = confirm /\ pending' = pending,
         UNCHANGED <<rowVars, pageShown, leaves, list>>
  PROVE  ApplicationsInv'
<1> USE DEF ApplicationsInv
<1>1. request[i] # NotSent
  OBVIOUS
<1>2. /\ request' \in [Requests -> AppRequest \cup {NotSent}]
      /\ request[i] \in AppRequest /\ request'[i] \in AppRequest /\ request'[i] # NotSent
      /\ request'[i].stage = "settled" /\ request'[i].kind = request[i].kind
      /\ request'[i].target = request[i].target /\ request'[i].key = request[i].key
      /\ request'[i].visit = request[i].visit
      /\ \A j \in Requests : j # i => request'[j] = request[j]
  BY <1>1, RequestMoves
<1>3. \A j \in Requests : j # i => (Ongoing(j)' <=> Ongoing(j)) /\ (Here(j)' <=> Here(j))
  BY <1>2 DEF Ongoing, Here
<1>4. ~ Ongoing(i)' /\ (Here(i) <=> Ongoing(i))
  BY <1>2 DEF Ongoing
<1>5. issued \in Seq(Apps) /\ Len(issued) \in Nat
  BY DEF AppTypes
<1>6. request[i].key # 0 => request[i].key \in 1 .. Len(issued)
  <2>1. request[i].key \in Nat
    BY <1>2 DEF AppRequest
  <2>2. request[i].key # 0 => request[i].key <= Len(issued)
    BY <1>1 DEF AnswersOwn
  <2> QED BY <1>5, <2>1, <2>2
<1>7. /\ pending \in Requests \cup {None}
      /\ pending' \in {pending, None} /\ confirm' \in {confirm, None} /\ editor' \in {editor, None}
      /\ pending' # i
      /\ \A j \in Requests : j # i /\ pending = j => pending' = j
  <2>1. pending \in Requests \cup {None}
    BY DEF AppTypes
  <2>2. pending = i => Here(i) /\ request[i].kind \in {"rotate", "delete"}
    BY ApplicationsAssumption DEF PageWaits, Ongoing
  <2>3. Here(i) /\ request[i].kind \in {"rotate", "delete"} => pending = i
    BY <1>1, <1>4 DEF PageWaits
  <2> QED BY <2>1, <2>2, <2>3, ApplicationsAssumption
<1>8. \A j \in Requests : j # i /\ editor # None /\ editor.wait = j => editor' = editor
  <2>1. Here(i) /\ request[i].kind \notin {"rotate", "delete"} => editor # None /\ editor.wait = i
    BY <1>1, <1>4 DEF PageWaits
  <2> QED BY <2>1
<1>9. /\ seenKeys \subseteq seenKeys' /\ goneKeys \subseteq goneKeys'
      /\ seenKeys' \subseteq 1 .. Len(issued) /\ goneKeys' \subseteq 1 .. Len(issued)
      /\ secret' \in 0 .. Len(issued)
      /\ request[i].key # 0 => request[i].key \in seenKeys' \cup goneKeys'
  BY <1>6 DEF Show, AppTypes
<1>10. AppTypes'
  BY <1>2, <1>7, <1>9 DEF AppTypes
<1>11. PageWaits'
  <2>1. ASSUME NEW j \in Requests, request'[j] # NotSent
        PROVE  /\ request'[j].visit <= leaves /\ (~ pageShown => request'[j].visit # leaves)
               /\ request'[j].kind # "create" => request'[j].target \in Apps
               /\ Ongoing(j)' => IF request'[j].kind \in {"rotate", "delete"}
                                THEN pending' = j ELSE editor' # None /\ editor'.wait = j
    <3>1. CASE j = i
      BY <1>1, <1>2, <1>4, <3>1 DEF PageWaits
    <3>2. CASE j # i
      BY <1>2, <1>3, <1>7, <1>8, <2>1, <3>2 DEF PageWaits
    <3> QED BY <3>1, <3>2
  <2>2. ASSUME pending' # None
        PROVE  /\ request'[pending'] # NotSent /\ Ongoing(pending)'
               /\ request'[pending'].kind \in {"rotate", "delete"}
    <3>1. pending' = pending /\ pending \in Requests /\ pending # i
      BY <1>7, <2>2
    <3> QED BY <1>2, <2>2, <3>1 DEF PageWaits, Ongoing, Here
  <2>3. editor' # None => confirm' = None
    BY <1>7 DEF PageWaits
  <2>4. ~ pageShown => editor' = None /\ confirm' = None /\ pending' = None /\ secret' = 0
    BY <1>7 DEF PageWaits, Show, Here
  <2> QED BY <2>1, <2>2, <2>3, <2>4 DEF PageWaits
<1>12. LastKeys'
  BY DEF LastKeys
<1>13. KeysTraced'
  <2>1. \A k \in 1 .. Len(issued) : Awaited(k) => Awaited(k)' \/ k \in seenKeys' \cup goneKeys'
    <3> SUFFICES ASSUME NEW k \in 1 .. Len(issued), NEW j \in Requests,
                        request[j].stage = "done", request[j].key = k
                 PROVE  Awaited(k)' \/ k \in seenKeys' \cup goneKeys'
      BY DEF Awaited
    <3>1. k # 0
      OBVIOUS
    <3> QED BY <1>2, <1>9, <3>1 DEF Awaited
  <2> QED BY <1>9, <2>1 DEF KeysTraced
<1>14. TargetsThere'
  BY <1>1, <1>2, <1>7 DEF TargetsThere, There
<1>15. AnswersOwn'
  <2>1. ASSUME pending' # None
        PROVE  pending' = pending /\ pending # None /\ request'[pending].target = request[pending].target
    BY <1>2, <1>7, <2>1
  <2>2. \A j \in Requests : /\ request'[j] # NotSent => request[j] # NotSent
                            /\ request'[j].key = request[j].key /\ request'[j].kind = request[j].kind
                            /\ request'[j].target = request[j].target
                            /\ Ongoing(j)' => Ongoing(j)
    BY <1>1, <1>2, <1>3, <1>4
  <2> QED BY <2>1, <2>2 DEF AnswersOwn
<1>16. NewerUnseen'
  <2>1. CASE request[i].key = 0 \/ ~ Here(i)
    <3>1. secret' = secret /\ seenKeys' = seenKeys
      BY <2>1 DEF Show
    <3>2. \A j \in Requests : request'[j] # NotSent /\ Here(j)' /\ request'[j].stage = "done" =>
            /\ request[j] # NotSent /\ Here(j) /\ request[j].stage = "done"
            /\ request'[j].key = request[j].key
      BY <1>2, <1>3
    <3> QED BY <3>1, <3>2 DEF NewerUnseen, NewestSeen
  <2>2. CASE request[i].key # 0 /\ Here(i)
    <3>1. PICK k \in 1 .. Len(issued) : k = request[i].key
      BY <1>6, <2>2
    <3>2. secret' = k /\ seenKeys' = seenKeys \cup {k}
      BY <2>2, <3>1 DEF Show
    <3>3. NewestSeen(k) /\ Ongoing(i) /\ request[i].kind \in {"create", "rotate"}
      BY <1>1, <1>4, <2>2, <3>1 DEF NewerUnseen, AnswersOwn
    <3>4. k \notin k + 1 .. Len(issued)
      OBVIOUS
    <3>5. \A m \in k + 1 .. Len(issued) : issued[m] = issued[k] => m \notin seenKeys'
      BY <3>2, <3>3, <3>4 DEF NewestSeen
    <3>6. ASSUME NEW j \in Requests, request'[j] # NotSent, Here(j)', request'[j].stage = "done",
                 request'[j].key # 0
          PROVE  \A m \in request'[j].key + 1 .. Len(issued) :
                   issued[m] = issued[request'[j].key] => m \notin seenKeys'
      <4>1. j # i /\ request'[j] = request[j] /\ Here(j) /\ Ongoing(j) /\ request[j] # NotSent
        BY <1>2, <1>3, <3>6 DEF Ongoing
      <4>2. NewestSeen(request[j].key) /\ request[j].kind \in {"create", "rotate"}
        BY <3>6, <4>1 DEF NewerUnseen, AnswersOwn
      <4>3. CASE request[j].kind = request[i].kind
        BY <1>1, <3>3, <4>1, <4>2, <4>3 DEF PageWaits
      <4>4. CASE request[j].kind = "create" /\ request[i].kind = "rotate"
        <5>1. pending = i /\ pending # None
          BY <1>1, <3>3, <4>4, ApplicationsAssumption DEF PageWaits
        <5>2. issued[k] = request[i].target /\ request[i].target # issued[request[j].key]
          BY <1>1, <2>2, <3>1, <3>6, <4>1, <4>4, <5>1 DEF AnswersOwn
        <5> QED BY <3>2, <4>1, <4>2, <5>2 DEF NewestSeen
      <4>5. CASE request[j].kind = "rotate" /\ request[i].kind = "create"
        <5>1. \A m \in 1 .. k - 1 : issued[m] # issued[k]
          BY <1>1, <2>2, <3>1, <4>5 DEF AnswersOwn
        <5>2. request[j].key \in Nat
          BY <4>1 DEF AppTypes, AppRequest
        <5>3. k \in request[j].key + 1 .. Len(issued) => request[j].key \in 1 .. k - 1
          BY <3>6, <4>1, <5>2
        <5> QED BY <3>2, <4>1, <4>2, <5>1, <5>3 DEF NewestSeen
      <4> QED BY <3>3, <4>2, <4>3, <4>4, <4>5
    <3> QED BY <3>2, <3>5, <3>6 DEF NewerUnseen, NewestSeen
  <2> QED BY <2>1, <2>2
<1> QED BY <1>10, <1>11, <1>12, <1>13, <1>14, <1>15, <1>16

\* An answer closes its form or confirmation and shows its key.
LEMMA RequestAnsweredHolds ==
  ASSUME ApplicationsInv, NEW i \in Requests, RequestAnswered(i)
  PROVE  ApplicationsInv'
<1>1. CASE EditorAnswered(i)
  <2>1. /\ request[i].stage = "done" /\ request[i].kind \notin {"rotate", "delete"}
        /\ request' = [request EXCEPT ![i].stage = "settled"] /\ Show(i)
        /\ editor' = IF Here(i) THEN None ELSE editor
        /\ UNCHANGED <<rowVars, pageShown, leaves, list, confirm, pending>>
    BY <1>1 DEF EditorAnswered, AnswerRequest
  <2> QED BY <2>1, AnswerHolds
<1>2. CASE ActionAnswered(i)
  <2>1. /\ request[i].stage = "done" /\ request[i].kind \in {"rotate", "delete"}
        /\ request' = [request EXCEPT ![i].stage = "settled"] /\ Show(i)
        /\ confirm' \in {confirm, None} /\ pending' = IF Here(i) THEN None ELSE pending
        /\ UNCHANGED <<rowVars, pageShown, leaves, list, editor>>
    BY <1>2 DEF ActionAnswered, AnswerRequest
  <2> QED BY <2>1, AnswerHolds
<1> QED BY <1>1, <1>2, RequestFailedHolds DEF RequestAnswered

\* In the beginning the page is shown and waits for nothing.
LEMMA ApplicationsStart == ApplicationsInit => ApplicationsInv
<1> SUFFICES ASSUME ApplicationsInit
             PROVE  ApplicationsInv
  OBVIOUS
<1>1. \A t \in Apps : app[t] \in [status : Status, key : {0}]
  BY DEF ApplicationsInit
<1>2. \A t \in Apps : app[t].key = 0 /\ app[t] \in AppRow
  BY <1>1 DEF AppRow
<1>3. app \in [Apps -> AppRow]
  <2>1. app = [t \in Apps |-> app[t]]
    BY DEF ApplicationsInit
  <2> QED BY <1>2, <2>1
<1>4. request \in [Requests -> AppRequest \cup {NotSent}] /\ \A i \in Requests : request[i] = NotSent
  BY DEF ApplicationsInit
<1>5. issued = <<>> /\ Len(issued) = 0 /\ issued \in Seq(Apps) /\ Len(issued) <= MaxKey
  BY ApplicationsAssumption DEF ApplicationsInit
<1>6. AppTypes
  BY <1>3, <1>4, <1>5, ApplicationsAssumption DEF ApplicationsInit, AppTypes
<1>7. PageWaits /\ TargetsThere /\ AnswersOwn /\ NewerUnseen
  BY <1>4 DEF ApplicationsInit, PageWaits, TargetsThere, AnswersOwn, NewerUnseen
<1>8. LastKeys /\ KeysTraced
  BY <1>2, <1>5 DEF LastKeys, KeysTraced
<1> QED BY <1>6, <1>7, <1>8 DEF ApplicationsInv

\* Every step of the page and of the server keeps the invariant.
LEMMA ApplicationsHold == ApplicationsInv /\ [ApplicationsNext]_applicationVars => ApplicationsInv'
<1> SUFFICES ASSUME ApplicationsInv, [ApplicationsNext]_applicationVars
             PROVE  ApplicationsInv'
  OBVIOUS
<1>1. CASE UNCHANGED applicationVars
  BY <1>1 DEF applicationVars, ApplicationsInv, AppTypes, PageWaits, Ongoing, Here, LastKeys, KeysTraced,
              Awaited, TargetsThere, There, AnswersOwn, NewerUnseen, NewestSeen
<1>2. CASE ReadList \/ LeavePage \/ MountPage \/ OpenNew \/ EditDraft \/ CloseEditor
            \/ CloseConfirm \/ Dismiss
  BY <1>2, ReadListHolds, LeavePageHolds, MountPageHolds, OpenNewHolds, EditDraftHolds, CloseEditorHolds,
     CloseConfirmHolds, DismissHolds
<1>3. ASSUME NEW t \in Apps,
             \/ OpenEditor(t) \/ Regulate(t)
             \/ \E action \in {"rotate", "delete"} : OpenConfirm(t, action)
      PROVE  ApplicationsInv'
  BY <1>3, OpenEditorHolds, RegulateHolds, OpenConfirmHolds
<1>4. ASSUME NEW i \in Requests,
             SaveDraft(i) \/ PerformAction(i) \/ RequestEnds(i) \/ RequestAnswered(i)
      PROVE  ApplicationsInv'
  BY <1>4, SaveDraftHolds, PerformActionHolds, ServeRequestHolds, LoseRequestHolds,
     RequestAnsweredHolds DEF RequestEnds
<1> QED BY <1>1, <1>2, <1>3, <1>4 DEF ApplicationsNext

\* The inductive invariant holds for any number of applications, requests and
\* departures.
THEOREM ApplicationsInvariance == ApplicationsSpec => []ApplicationsInv
<1> QED BY ApplicationsStart, ApplicationsHold, PTL DEF ApplicationsSpec

\* The invariant has the types in it.
LEMMA ApplicationsInvTyped == ApplicationsInv => ApplicationsTypeOK
BY DEF ApplicationsInv, AppTypes, PageWaits, Ongoing, ApplicationsTypeOK

\* The type invariant: what a dialog waits for is a request of its own that is
\* not over.
THEOREM ApplicationsTyped == ApplicationsSpec => []ApplicationsTypeOK
<1> QED BY ApplicationsInvariance, ApplicationsInvTyped, PTL

\* The key in the dialog is its application's newest, or the newer one is gone
\* or awaited: of those after it none was seen, and none is forgotten.
LEMMA ApplicationsInvReaches == ApplicationsInv => KeyReachesOwner
<1> SUFFICES ASSUME ApplicationsInv
             PROVE  KeyReachesOwner
  OBVIOUS
<1> USE DEF ApplicationsInv
<1>1. issued \in Seq(Apps) /\ Len(issued) \in Nat
  BY DEF AppTypes
<1>2. \A t \in Apps : app[t].key # 0 => app[t].key \in 1 .. Len(issued) /\ issued[app[t].key] = t
  BY <1>1 DEF LastKeys, AppTypes, AppRow
<1>3. \A t \in Apps : app[t].key # 0 => app[t].key \in seenKeys \cup goneKeys \/ Awaited(app[t].key)
  BY <1>2 DEF KeysTraced
<1>4. ASSUME secret # 0
      PROVE  LET k == app[issued[secret]].key
             IN k = secret \/ k \in goneKeys \/ Awaited(k)
  <2>1. secret \in 1 .. Len(issued)
    BY <1>1, <1>4 DEF AppTypes
  <2>2. issued[secret] \in Apps /\ secret <= app[issued[secret]].key
    BY <1>1, <2>1 DEF LastKeys
  <2>3. app[issued[secret]].key \in Nat
    BY <2>2 DEF AppTypes, AppRow
  <2>4. app[issued[secret]].key \in 1 .. Len(issued) /\ issued[app[issued[secret]].key] = issued[secret]
    BY <1>2, <2>1, <2>2, <2>3
  <2>5. app[issued[secret]].key # secret => app[issued[secret]].key \notin seenKeys
    <3>1. app[issued[secret]].key # secret => app[issued[secret]].key \in secret + 1 .. Len(issued)
      BY <2>1, <2>2, <2>3, <2>4
    <3> QED BY <1>4, <2>4, <3>1 DEF NewerUnseen, NewestSeen
  <2> QED BY <2>4, <2>5 DEF KeysTraced
<1> QED BY <1>3, <1>4 DEF KeyReachesOwner

\* A key that was issued reaches the dialog of the page that asked for it, and is
\* not covered by an older one, unless its answer was lost or the page left.
THEOREM KeysReachOwners == ApplicationsSpec => []KeyReachesOwner
<1> QED BY ApplicationsInvariance, ApplicationsInvReaches, PTL
=============================================================================
