----------------------------- MODULE AdminForms -----------------------------
(* Several administrators edit the same records in the console: the policy   *)
(* and the site content on a page of their own, endpoints in a dialog over   *)
(* their list.  Each console keeps copies of what it read; a form holds a    *)
(* draft and the updated_at it was opened with; the server takes a save only *)
(* if updated_at is still that of the row.  updated_at comes from the clock  *)
(* of the replica that serves the save, in milliseconds.                     *)
EXTENDS Integers

CONSTANTS
  Admins,      \* consoles
  Records,     \* what can be edited
  Pages,       \* the records with a form on the page: policy and site content
  Values,      \* what a record can hold
  Saves,       \* every save of a behaviour has an identity of its own
  None,        \* no copy, no form, no save
  RoundTrip,   \* the least time from the write of a row to a save of a form that shows it, in ms
  MaxSkew,     \* how far the clocks of two replicas may differ, in ms
  MaxNow       \* bound: the time at which the model stops

ASSUME FormsAssumption ==
  /\ Pages \subseteq Records
  /\ Values # {}
  /\ None \notin Saves
  /\ RoundTrip \in Nat
  /\ MaxSkew \in Nat
  /\ MaxNow \in Nat

\* A browser, a network and a person are slower than the clocks are apart.
ASSUME ClocksAssumption == MaxSkew < RoundTrip

VARIABLES
  now,     \* the time
  row,     \* the rows; edition and born (when it was written) are not stored
  cache,   \* what a console last read
  answer,  \* the read that is on its way back
  form,    \* the form that is open
  busy,    \* the save the mounted component waits for ("pending")
  save     \* the saves

formVars == <<now, row, cache, answer, form, busy, save>>

Row  == [value : Values, at : Nat, edition : Nat, born : Nat]
\* base is the edition a copy or a draft was made from.
Copy == [value : Values, at : Nat, base : Nat]
\* value is the draft: the fields of the form.
Form == [record : Records, value : Values, at : Nat, base : Nat]
Unused == [stage |-> "unused"]
Save == [stage : {"sent", "accepted", "refused", "lost", "settled"},
         admin : Admins, record : Records, value : Values, at : Nat, base : Nat,
         wrote : Nat]

FormsInit ==
  /\ now = RoundTrip
  /\ row \in [Records -> {[value |-> v, at |-> 0, edition |-> 0, born |-> 0] : v \in Values}]
  /\ cache = [a \in Admins |-> [k \in Records |-> None]]
  /\ answer = [a \in Admins |-> [k \in Records |-> None]]
  /\ form = [a \in Admins |-> None]
  /\ busy = [a \in Admins |-> None]
  /\ save = [i \in Saves |-> Unused]

---------------------------------------------------------------------------
(* Reading: a query runs at most once at a time for each record.  A page is *)
(* opened, its data is stale, the connection came back, "refresh", a save.   *)

CopyOf(k) == [value |-> row[k].value, at |-> row[k].at, base |-> row[k].edition]

ServeRead(a, k) ==
  /\ answer[a][k] = None
  /\ answer' = [answer EXCEPT ![a][k] = CopyOf(k)]
  /\ UNCHANGED <<now, row, cache, form, busy, save>>

FreshForm(k, c) == [record |-> k, value |-> c.value, at |-> c.at, base |-> c.base]

\* The component waits for the read that follows its own accepted save.
AwaitsRead(a, k) ==
  /\ busy[a] # None
  /\ save[busy[a]].stage = "settled"
  /\ save[busy[a]].record = k

\* A page form is keyed by updated_at: another one mounts it again, with what
\* was read, and no draft or pending save of the old one is left.  A dialog
\* holds a copy of its own.
Remounts(a, k, c) ==
  /\ k \in Pages
  /\ form[a] # None
  /\ form[a].record = k
  /\ form[a].at # c.at

Remounted_NoKey(f, k, c) == [f EXCEPT !.at = c.at]
Remounted(f, k, c) == FreshForm(k, c)

Deliver(a, k) ==
  /\ answer[a][k] # None
  /\ LET c == answer[a][k]
     IN /\ cache' = [cache EXCEPT ![a][k] = c]
        /\ form' = IF Remounts(a, k, c) THEN [form EXCEPT ![a] = Remounted(@, k, c)] ELSE form
        /\ busy' = IF Remounts(a, k, c) \/ AwaitsRead(a, k) THEN [busy EXCEPT ![a] = None] ELSE busy
  /\ answer' = [answer EXCEPT ![a][k] = None]
  /\ UNCHANGED <<now, row, save>>

\* Without an answer the old copy stays; waiting ends all the same.
FailRead(a, k) ==
  /\ AwaitsRead(a, k) \/ answer[a][k] # None
  /\ answer' = [answer EXCEPT ![a][k] = None]
  /\ busy' = IF AwaitsRead(a, k) THEN [busy EXCEPT ![a] = None] ELSE busy
  /\ UNCHANGED <<now, row, cache, form, save>>

---------------------------------------------------------------------------
(* Editing. *)

\* A page form mounts with its page or tab, a dialog copies the listed record.
Open(a, k) ==
  /\ form[a] = None
  /\ k \in Pages => busy[a] = None
  /\ cache[a][k] # None
  /\ form' = [form EXCEPT ![a] = FreshForm(k, cache[a][k])]
  /\ UNCHANGED <<now, row, cache, answer, busy, save>>

Leave_StaysPending(a) ==
  /\ form[a] # None \/ busy[a] # None
  /\ form' = [form EXCEPT ![a] = None]
  /\ UNCHANGED <<now, row, cache, answer, busy, save>>

\* Another tab or page, or the dialog is closed; a save under way goes on.
Leave(a) ==
  /\ form[a] # None \/ busy[a] # None
  /\ form' = [form EXCEPT ![a] = None]
  /\ busy' = [busy EXCEPT ![a] = None]
  /\ UNCHANGED <<now, row, cache, answer, save>>

\* The fields are disabled while a save is pending.
Editable(a) == form[a] # None /\ busy[a] = None

Edit(a, v) ==
  /\ form' = [form EXCEPT ![a].value = v]
  /\ UNCHANGED <<now, row, cache, answer, busy, save>>

\* The fields of the policy or the site content ...
EditPage(a, v) == Editable(a) /\ form[a].record \in Pages /\ Edit(a, v)

\* ... or those of an endpoint.
EditDialog(a, v) == Editable(a) /\ form[a].record \notin Pages /\ Edit(a, v)

---------------------------------------------------------------------------
(* Saving. *)

\* The draft goes with the updated_at it was opened with, changed or not.
Submit(a, i) ==
  /\ Editable(a)
  /\ save[i] = Unused
  /\ save' = [save EXCEPT ![i] =
       [stage |-> "sent", admin |-> a, record |-> form[a].record, value |-> form[a].value,
        at |-> form[a].at, base |-> form[a].base, wrote |-> 0]]
  /\ busy' = [busy EXCEPT ![a] = i]
  /\ UNCHANGED <<now, row, cache, answer, form>>

Unchanged_NotLater(s) == s.at <= row[s.record].at

\* updated_at of the request is that of the row.
Unchanged(s) == s.at = row[s.record].at

\* The millisecond of a replica whose clock is ahead by o.
Stamp_Seconds(o) == (now + o) \div 3
Stamp(o) == now + o

\* One transaction under the row lock, on a replica whose clock is ahead by o.
ServeSave(i, o) ==
  /\ save[i].stage = "sent"
  /\ LET r == row[save[i].record]
     IN save[i].base = r.edition => now >= r.born + RoundTrip
  /\ LET s == save[i]
         e == row[s.record].edition + 1
     IN IF Unchanged(s)
        THEN /\ row' = [row EXCEPT ![s.record] =
                  [value |-> s.value, at |-> Stamp(o), edition |-> e, born |-> now]]
             /\ save' = [save EXCEPT ![i].stage = "accepted", ![i].wrote = e]
        ELSE /\ save' = [save EXCEPT ![i].stage = "refused"]
             /\ UNCHANGED row
  /\ UNCHANGED <<now, cache, answer, form, busy>>

\* The request or its answer is lost, or the server refuses the values.
LoseSave(i) ==
  /\ save[i].stage \in {"sent", "accepted"}
  /\ save' = [save EXCEPT ![i].stage = "lost"]
  /\ UNCHANGED <<now, row, cache, answer, form, busy>>

AnswerAccepted_KeepsRead(i) ==
  /\ save[i].stage = "accepted"
  /\ LET a == save[i].admin
         k == save[i].record
     IN form' = IF busy[a] = i /\ k \notin Pages THEN [form EXCEPT ![a] = None] ELSE form
  /\ save' = [save EXCEPT ![i].stage = "settled"]
  /\ UNCHANGED <<now, row, cache, answer, busy>>

\* A dialog closes, a page form stays; both wait for what was written to be
\* read.  A read that was under way is dropped and asked again.
AnswerAccepted(i) ==
  /\ save[i].stage = "accepted"
  /\ LET a == save[i].admin
         k == save[i].record
     IN /\ answer' = [answer EXCEPT ![a][k] = None]
        /\ form' = IF busy[a] = i /\ k \notin Pages THEN [form EXCEPT ![a] = None] ELSE form
  /\ save' = [save EXCEPT ![i].stage = "settled"]
  /\ UNCHANGED <<now, row, cache, busy>>

\* The draft stays where it is, with an error above the button.
AnswerRefused(i) ==
  /\ save[i].stage \in {"refused", "lost"}
  /\ LET a == save[i].admin
     IN busy' = IF busy[a] = i THEN [busy EXCEPT ![a] = None] ELSE busy
  /\ save' = [save EXCEPT ![i].stage = "settled"]
  /\ UNCHANGED <<now, row, cache, answer, form>>

Tick ==
  /\ now < MaxNow
  /\ now' = now + 1
  /\ UNCHANGED <<row, cache, answer, form, busy, save>>

Settle(i) == (\E o \in 0 .. MaxSkew : ServeSave(i, o)) \/ LoseSave(i)
Answered(i) == AnswerAccepted(i) \/ AnswerRefused(i)
ReadEnds(a, k) == Deliver(a, k) \/ FailRead(a, k)

FormsNext ==
  \/ \E a \in Admins, k \in Records : ServeRead(a, k) \/ ReadEnds(a, k) \/ Open(a, k)
  \/ \E a \in Admins, v \in Values : EditPage(a, v) \/ EditDialog(a, v)
  \/ \E a \in Admins : Leave(a)
  \/ \E a \in Admins, i \in Saves : Submit(a, i)
  \/ \E i \in Saves : Settle(i) \/ Answered(i)
  \/ Tick

FormsSpec == FormsInit /\ [][FormsNext]_formVars

---------------------------------------------------------------------------
(* The type; and a console waits only for a save of its own, with the draft  *)
(* still open until the server has answered.                                 *)
FormsTypeOK ==
  /\ now \in Nat
  /\ row \in [Records -> Row]
  /\ cache \in [Admins -> [Records -> Copy \cup {None}]]
  /\ answer \in [Admins -> [Records -> Copy \cup {None}]]
  /\ form \in [Admins -> Form \cup {None}]
  /\ busy \in [Admins -> Saves \cup {None}]
  /\ save \in [Saves -> Save \cup {Unused}]
  /\ \A a \in Admins : busy[a] # None =>
       LET s == save[busy[a]]
       IN /\ s # Unused /\ s.admin = a
          /\ s.stage # "settled" => form[a] # None /\ form[a].record = s.record

\* A copy of record k with the current updated_at is one of the current content.
Tells(k, c) == (c.at = row[k].at) <=> (c.base = row[k].edition)

(* updated_at stands for the content: a cached copy, a draft or a save under  *)
(* way carries the updated_at of the row exactly if it was made from what the *)
(* row holds.  saveSetting and updateEndpoint rely on it (two saves in one    *)
(* millisecond, or on replicas whose clocks differ, must not look alike), and *)
(* the key of the page forms keeps draft and updated_at together.             *)
StampsTell ==
  \A k \in Records :
    /\ \A a \in Admins :
         /\ cache[a][k] # None => Tells(k, cache[a][k])
         /\ answer[a][k] # None => Tells(k, answer[a][k])
         /\ form[a] # None /\ form[a].record = k => Tells(k, form[a])
    /\ \A i \in Saves : save[i] # Unused /\ save[i].record = k => Tells(k, save[i])

(* A form that waits for the read after its accepted save is never shown an   *)
(* older content: it would overwrite its own save, or be refused because of   *)
(* it.  invalidateQueries drops the read that was under way.                  *)
FreshAfterSave ==
  \A a \in Admins :
    busy[a] # None =>
      LET s == save[busy[a]]
      IN s.stage = "settled" /\ answer[a][s.record] # None => answer[a][s.record].base >= s.wrote

\* A save as an attempt; open until the server decides.
AttemptOf(s) ==
  CASE s = Unused -> [stage |-> "none"]
    [] s.stage = "sent" ->
         [stage |-> "open", record |-> s.record, value |-> s.value, base |-> s.base]
    [] OTHER -> [stage |-> "decided"]
Attempts == [i \in Saves |-> AttemptOf(save[i])]

Ideal == INSTANCE Editions WITH
  Proposals <- Saves,
  content <- [k \in Records |-> row[k].value],
  edition <- [k \in Records |-> row[k].edition],
  proposal <- Attempts

(* Time stamps, caches, remounted forms and lost answers together behave as   *)
(* edition numbers would: every save that is accepted replaces exactly the    *)
(* edition its author was shown, and no save counts twice.                    *)
ImplementsEditions == Ideal!EditionsSpec
=============================================================================
