---------------------------- MODULE Applications ----------------------------
(* The owner's page of applications and keys, while the administrator        *)
(* regulates them.  A key is shown once, in a dialog that opens when the     *)
(* answer to a creation or a rotation arrives.                               *)
EXTENDS Naturals, FiniteSets, Sequences

CONSTANTS
  Apps,        \* applications
  MaxApps,     \* limits.max_apps
  Requests,    \* each request of the page has an identity of its own
  None,        \* no application, no request, no list
  MaxKey,      \* bound on the keys that are issued
  MaxLeaves    \* bound on how often the page is left

ASSUME ApplicationsAssumption ==
  /\ None \notin Apps \cup Requests
  /\ "new" \notin Apps
  /\ MaxApps \in Nat \ {0}
  /\ MaxKey \in Nat
  /\ MaxLeaves \in Nat

VARIABLES
  app,        \* platform_tokens: what the page does depends on of a row, and its key (0: one from before)
  issued,     \* the keys issued since, numbered by their order: the application of each
  pageShown,  \* the page is mounted
  leaves,     \* how often it was left
  list,       \* the query "tokens": the rows last read
  editor,     \* "editing", the form of ApplicationEditor and what it waits for
  confirm,    \* the application and action the confirmation asks about
  pending,    \* the rotation or deletion the page waits for
  secret,     \* the key in the dialog, 0 when it is closed
  request,    \* the requests of the page
  seenKeys,   \* the keys that have been in the dialog
  goneKeys    \* the keys whose answer was lost or came after the page had been left

rowVars  == <<app, issued>>
dialogVars == <<editor, confirm, pending, secret>>
keyVars  == <<seenKeys, goneKeys>>
applicationVars ==
  <<rowVars, pageShown, leaves, list, dialogVars, request, keyVars>>

\* A revoked application stays in the list, suspended or not.
Status == {"free", "live", "suspended", "revoked", "deleted"}
AppRow == [status : Status, key : Nat]
\* ok: the draft has a permission and keeps to the account's limits.
Editor == [target : Apps \cup {"new"}, wait : Requests \cup {None}, ok : BOOLEAN]
Confirm == [target : Apps, action : {"rotate", "delete"}]
ASSUME NoneAssumption == None \notin Editor \cup Confirm
NotSent == [stage |-> "none"]
AppRequest == [stage : {"sent", "overdue", "done", "refused", "lost", "late", "settled"},
               kind : {"create", "update", "rotate", "delete"},
               target : Apps \cup {"new"}, key : Nat, visit : Nat]

Statuses == [t \in Apps |-> app[t].status]
There(statuses) == {t \in Apps : statuses[t] \in {"live", "suspended", "revoked"}}

ApplicationsInit ==
  /\ app \in [Apps -> [status : Status, key : {0}]]
  /\ issued = <<>>
  /\ pageShown = TRUE /\ leaves = 0
  /\ list = None
  /\ editor = None /\ confirm = None /\ pending = None /\ secret = 0
  /\ request = [i \in Requests |-> NotSent]
  /\ seenKeys = {} /\ goneKeys = {}

---------------------------------------------------------------------------
(* The list, which stays in the query cache when the page is left. *)

\* Whenever it is read; how old it is meanwhile is not bounded.
ReadList ==
  /\ pageShown
  /\ list' = Statuses
  /\ UNCHANGED <<rowVars, pageShown, leaves, dialogVars, request, keyVars>>

\* Another page, or a session query that fails and puts an error in its place:
\* the dialogs are gone, and so is the key in one.
LeavePage ==
  /\ pageShown
  /\ leaves < MaxLeaves
  /\ pageShown' = FALSE
  /\ leaves' = leaves + 1
  /\ editor' = None /\ confirm' = None /\ pending' = None /\ secret' = 0
  /\ UNCHANGED <<rowVars, list, request, keyVars>>

MountPage ==
  /\ ~ pageShown
  /\ pageShown' = TRUE
  /\ UNCHANGED <<rowVars, leaves, list, dialogVars, request, keyVars>>

\* What the page lists: nothing before the first answer.
Listed == IF list = None THEN {} ELSE There(list)

\* Dialogs are modal: what is under one cannot be reached.
NoDialog == pageShown /\ editor = None /\ confirm = None /\ secret = 0

---------------------------------------------------------------------------
(* The editor. *)

OpenNew ==
  /\ NoDialog
  /\ Cardinality(Listed) < MaxApps
  /\ editor' = [target |-> "new", wait |-> None, ok |-> TRUE]
  /\ UNCHANGED <<rowVars, pageShown, leaves, list, confirm, pending, secret, request, keyVars>>

\* The form starts from the listed row, whose limits may be above the account's by now.
OpenEditor(t) ==
  /\ NoDialog
  /\ t \in Listed /\ list[t] # "revoked"
  /\ \E ok \in BOOLEAN : editor' = [target |-> t, wait |-> None, ok |-> ok]
  /\ UNCHANGED <<rowVars, pageShown, leaves, list, confirm, pending, secret, request, keyVars>>

\* The fields, which are not disabled while a save is pending.
EditDraft ==
  /\ editor # None
  /\ editor' = [editor EXCEPT !.ok = ~ @]
  /\ UNCHANGED <<rowVars, pageShown, leaves, list, confirm, pending, secret, request, keyVars>>

CloseEditor ==
  /\ editor # None
  /\ editor.wait = None
  /\ editor' = None
  /\ UNCHANGED <<rowVars, pageShown, leaves, list, confirm, pending, secret, request, keyVars>>

\* visit tells the requests of a page from those of one that was left.
Sent(kind, t) ==
  [stage |-> "sent", kind |-> kind, target |-> t, key |-> 0, visit |-> leaves]

\* Without a permission, or over the account's limits, nothing is sent.
SaveDraft(i) ==
  /\ editor # None
  /\ editor.ok
  /\ editor.wait = None
  /\ request[i] = NotSent
  /\ request' = [request EXCEPT ![i] =
       Sent(IF editor.target = "new" THEN "create" ELSE "update", editor.target)]
  /\ editor' = [editor EXCEPT !.wait = i]
  /\ UNCHANGED <<rowVars, pageShown, leaves, list, confirm, pending, secret, keyVars>>

---------------------------------------------------------------------------
(* Rotation and deletion. *)

OpenConfirm(t, action) ==
  /\ NoDialog
  /\ t \in Listed
  /\ action = "rotate" => list[t] = "live"
  /\ confirm' = [target |-> t, action |-> action]
  /\ UNCHANGED <<rowVars, pageShown, leaves, list, editor, pending, secret, request, keyVars>>

CloseConfirm_Frees ==
  /\ confirm # None
  /\ confirm' = None /\ pending' = None
  /\ UNCHANGED <<rowVars, pageShown, leaves, list, editor, secret, request, keyVars>>

\* The buttons are disabled while the page waits, Escape is not.
CloseConfirm ==
  /\ confirm # None
  /\ confirm' = None
  /\ UNCHANGED <<rowVars, pageShown, leaves, list, editor, pending, secret, request, keyVars>>

PerformAction(i) ==
  /\ confirm # None
  /\ pending = None
  /\ request[i] = NotSent
  /\ request' = [request EXCEPT ![i] = Sent(confirm.action, confirm.target)]
  /\ pending' = i
  /\ UNCHANGED <<rowVars, pageShown, leaves, list, editor, confirm, secret, keyVars>>

---------------------------------------------------------------------------
(* The server.  A request the page has given up may still be served; its key *)
(* is then shown to nobody.                                                  *)

GivenUp(i) == request[i].stage \in {"overdue", "late"}

Refuse(i) ==
  /\ request' = [request EXCEPT ![i].stage =
       CASE @ = "sent" -> "refused" [] @ = "overdue" -> "lost" [] @ = "late" -> "settled"]
  /\ UNCHANGED <<rowVars, keyVars>>

Grant(i, k) ==
  /\ request' = [request EXCEPT ![i].key = k, ![i].stage =
       CASE @ = "sent" -> "done" [] @ = "overdue" -> "lost" [] @ = "late" -> "settled"]
  /\ goneKeys' = IF GivenUp(i) /\ k # 0 THEN goneKeys \cup {k} ELSE goneKeys
  /\ UNCHANGED seenKeys

\* A key is issued; the one it replaces stops working.
Issue(i, t) ==
  /\ Len(issued) < MaxKey
  /\ issued' = Append(issued, t)
  /\ app' = [app EXCEPT ![t] = [status |-> "live", key |-> Len(issued) + 1]]
  /\ Grant(i, Len(issued) + 1)

\* createToken counts the account's applications under its row lock.
Create(i) ==
  IF Cardinality(There(Statuses)) >= MaxApps
  THEN Refuse(i)
  ELSE \E t \in Apps : app[t].status = "free" /\ Issue(i, t)

\* The row is checked under its lock.
Update(i, t) ==
  IF app[t].status \in {"live", "suspended"}
  THEN Grant(i, 0) /\ UNCHANGED rowVars ELSE Refuse(i)
Rotate(i, t) ==
  IF app[t].status = "live" THEN Issue(i, t) ELSE Refuse(i)
Delete(i, t) ==
  IF t \in There(Statuses)
  THEN app' = [app EXCEPT ![t].status = "deleted"] /\ Grant(i, 0) /\ UNCHANGED issued
  ELSE Refuse(i)

ServeRequest(i) ==
  /\ request[i].stage = "sent" \/ GivenUp(i)
  /\ LET t == request[i].target
     IN CASE request[i].kind = "create" -> Create(i)
          [] request[i].kind = "update" -> Update(i, t)
          [] request[i].kind = "rotate" -> Rotate(i, t)
          [] request[i].kind = "delete" -> Delete(i, t)
  /\ UNCHANGED <<pageShown, leaves, list, dialogVars>>

\* The request or its answer is lost, or 20 seconds have passed.
LoseRequest(i) ==
  /\ request[i].stage \in {"sent", "done"}
  /\ \/ request' = [request EXCEPT ![i].stage = "lost"]
     \/ request[i].stage = "sent" /\ request' = [request EXCEPT ![i].stage = "overdue"]
  /\ goneKeys' = goneKeys \cup ({request[i].key} \ {0})
  /\ UNCHANGED <<rowVars, pageShown, leaves, list, dialogVars, seenKeys>>

---------------------------------------------------------------------------
(* The answers. *)

\* The page that sent the request is still the one that is shown.
Here(i) == pageShown /\ request[i].visit = leaves

\* setSecret: what the dialog held is replaced.
Show(i) ==
  LET k == request[i].key
  IN /\ secret' = IF k # 0 /\ Here(i) THEN k ELSE secret
     /\ seenKeys' = IF k # 0 /\ Here(i) THEN seenKeys \cup {k} ELSE seenKeys
     /\ goneKeys' = IF k # 0 /\ ~ Here(i) THEN goneKeys \cup {k} ELSE goneKeys

AnswerRequest(i, kinds) ==
  /\ request[i].stage = "done"
  /\ request[i].kind \in kinds
  /\ request' = [request EXCEPT ![i].stage = "settled"]
  /\ Show(i)

\* onSaved: the editor closes and the key of a new application is shown.
EditorAnswered(i) ==
  /\ AnswerRequest(i, {"create", "update"})
  /\ editor' = IF Here(i) THEN None ELSE editor
  /\ UNCHANGED <<rowVars, pageShown, leaves, list, confirm, pending>>

\* The confirmation that is open closes, whichever it is.
ActionAnswered(i) ==
  /\ AnswerRequest(i, {"rotate", "delete"})
  /\ IF Here(i) THEN confirm' = None /\ pending' = None ELSE UNCHANGED <<confirm, pending>>
  /\ UNCHANGED <<rowVars, pageShown, leaves, list, editor>>

\* The draft stays under its error, the confirmation stays open under a toast.
RequestFailed(i) ==
  /\ request[i].stage \in {"refused", "lost", "overdue"}
  /\ request' = [request EXCEPT ![i].stage = IF @ = "overdue" THEN "late" ELSE "settled"]
  /\ editor' = IF editor # None /\ editor.wait = i THEN [editor EXCEPT !.wait = None] ELSE editor
  /\ pending' = IF pending = i THEN None ELSE pending
  /\ UNCHANGED <<rowVars, pageShown, leaves, list, confirm, secret, keyVars>>

\* "Done", or the dialog is closed.
Dismiss ==
  /\ secret # 0
  /\ secret' = 0
  /\ UNCHANGED <<rowVars, pageShown, leaves, list, editor, confirm, pending, request, keyVars>>

---------------------------------------------------------------------------
(* The others. *)

\* regulateToken: the administrator suspends, resumes or revokes.
Regulate(t) ==
  /\ app[t].status \in {"live", "suspended"}
  /\ app' \in {[app EXCEPT ![t].status = v] : v \in {"live", "suspended", "revoked"} \ {app[t].status}}
  /\ UNCHANGED <<issued, pageShown, leaves, list, dialogVars, request, keyVars>>

RequestEnds(i) == ServeRequest(i) \/ LoseRequest(i)
RequestAnswered(i) == EditorAnswered(i) \/ ActionAnswered(i) \/ RequestFailed(i)

ApplicationsNext ==
  \/ ReadList \/ LeavePage \/ MountPage
  \/ OpenNew \/ EditDraft \/ CloseEditor \/ CloseConfirm \/ Dismiss
  \/ \E t \in Apps :
       \/ OpenEditor(t) \/ Regulate(t)
       \/ \E action \in {"rotate", "delete"} : OpenConfirm(t, action)
  \/ \E i \in Requests :
       SaveDraft(i) \/ PerformAction(i) \/ RequestEnds(i) \/ RequestAnswered(i)

ApplicationsSpec == ApplicationsInit /\ [][ApplicationsNext]_applicationVars

---------------------------------------------------------------------------
(* The type; the page waits only for requests of its own that are under way. *)
ApplicationsTypeOK ==
  /\ app \in [Apps -> AppRow]
  /\ issued \in Seq(Apps) /\ Len(issued) <= MaxKey
  /\ pageShown \in BOOLEAN /\ leaves \in 0 .. MaxLeaves
  /\ list = None \/ list \in [Apps -> Status]
  /\ editor = None \/ editor \in Editor
  /\ confirm = None \/ confirm \in Confirm
  /\ pending \in Requests \cup {None}
  /\ secret \in 0 .. Len(issued)
  /\ request \in [Requests -> AppRequest \cup {NotSent}]
  /\ seenKeys \subseteq 1 .. Len(issued) /\ goneKeys \subseteq 1 .. Len(issued)
  /\ pending # None => Here(pending) /\ request[pending].stage \notin {"settled", "late"}
  /\ ~ pageShown => editor = None /\ confirm = None /\ pending = None /\ secret = 0

\* A key whose answer has yet to arrive.
Awaited(k) == \E i \in Requests : request[i].stage = "done" /\ request[i].key = k

(* "Copy it now. You cannot view it again.": the key that works has been in   *)
(* the dialog, or its answer is on its way or was lost; and the key in the    *)
(* dialog is the one that works, unless it was replaced by one nobody was     *)
(* shown.  Confirmations and editors are closed, opened again and left while  *)
(* requests run, some of which are served after the page has given them up.   *)
KeyReachesOwner ==
  /\ \A t \in Apps : app[t].key # 0 =>
       app[t].key \in seenKeys \cup goneKeys \/ Awaited(app[t].key)
  /\ secret # 0 =>
       LET k == app[issued[secret]].key
       IN k = secret \/ k \in goneKeys \/ Awaited(k)
=============================================================================
