------------------------------- MODULE Lists -------------------------------
(* The lists the server cuts into pages: accounts, applications, request     *)
(* logs, audits and notices.  A console shows one list at a time, for a page *)
(* and a filter; what was read is kept in the query cache under a key, the   *)
(* rows of the last key stay visible while the next is read.  A row is acted  *)
(* on in a dialog, a notice where it stands.  Other consoles change the same  *)
(* tables.                                                                    *)
EXTENDS Naturals

CONSTANTS
  Tables,      \* the lists: each has a table, a page of the console and query keys of its own
  Direct,      \* those whose rows are marked without a dialog: the notices
  Filters,     \* what can be searched for; a member stands for all fields of the filter form
  NoFilter,    \* the form as the page opens
  Nothing,     \* nothing read, no dialog, no save
  LastPage,    \* bound on the pages of a list
  MaxEdition,  \* bound on the changes of a table
  MaxRequests  \* bound on the requests of the console

ASSUME ListsAssumption ==
  /\ Direct \subseteq Tables
  /\ NoFilter \in Filters
  /\ LastPage \in Nat \ {0}
  /\ MaxEdition \in Nat
  /\ MaxRequests \in Nat

Pages == 1 .. LastPage
Query == [table : Tables, page : Pages, filter : Filters]

VARIABLES
  edition,   \* how often a table has changed
  at,        \* the query the page that is shown asks for
  typed,     \* what the fields of the filter form hold
  cached,    \* the query cache: what was last read under a key
  invalid,   \* the keys that were invalidated since
  fetching,  \* the reads under way
  broken,    \* the keys whose last read failed
  previous,  \* keepPreviousData: the key whose rows stay until those of at are there
  dialog,    \* the row of the dialog: the table it is of, the edition it was read in, and
             \* whether what is required has been filled in
  saving,    \* the save the page waits for
  own,       \* the latest edition of a table an answered save of this console has made
  overtaken, \* the keys with a read under way that an invalidation did not restart
  requests

listsVars == <<edition, at, typed, cached, invalid, fetching, broken, previous,
               dialog, saving, own, overtaken, requests>>

\* What a read brings: the query it was asked for and how new the rows are.
Result == [for : Query, edition : Nat]
ASSUME NothingAssumption == Nothing \notin Query \cup Result
NoFetching == [stage |-> "none"]
Asked(q) == [stage |-> "asked", for |-> q]
Fetching == {NoFetching} \cup [stage : {"asked"}, for : Query] \cup
            [stage : {"answered"}, for : Query, edition : Nat]
Dialog == [table : Tables, edition : Nat, ready : BOOLEAN]
\* here: the page that saves is shown; again: the key it reads again after the save.
Saving == [stage : {"sent", "done", "settled"}, table : Tables, wrote : Nat, here : BOOLEAN,
           again : Query]

KeyOf_NoFilter(q) == [q EXCEPT !.filter = NoFilter]

\* queryKey: the name of the list, the page and the filter.
KeyOf(q) == q
Opened(t) == [table |-> t, page |-> 1, filter |-> NoFilter]

ListsInit ==
  /\ edition = [t \in Tables |-> 0]
  /\ \E t \in Tables :
       /\ at = Opened(t)
       /\ fetching = [q \in Query |-> IF q = KeyOf(Opened(t)) THEN Asked(Opened(t)) ELSE NoFetching]
  /\ typed = NoFilter
  /\ cached = [q \in Query |-> Nothing]
  /\ invalid = {} /\ broken = {} /\ overtaken = {}
  /\ previous = Nothing /\ dialog = Nothing /\ saving = Nothing
  /\ own = [t \in Tables |-> 0]
  /\ requests = 0

---------------------------------------------------------------------------
(* What is shown. *)

\* data of the query: its own rows, or else those of the previous key while the
\* first read is under way.
Shown ==
  LET k == KeyOf(at)
  IN IF cached[k] # Nothing THEN cached[k]
     ELSE IF fetching[k] # NoFetching /\ previous # Nothing THEN cached[previous]
     ELSE Nothing

\* The component asks for another key: it is read unless it was read within the
\* last 30 seconds and not invalidated since.
Ask(q) ==
  LET k == KeyOf(q)
      unread == cached[k] = Nothing \/ k \in invalid
  IN /\ at' = q
     /\ \/ /\ fetching[k] = NoFetching
           /\ fetching' = [fetching EXCEPT ![k] = Asked(q)]
           /\ broken' = broken \ {k}
           /\ overtaken' = overtaken \ {k}
        \/ /\ fetching[k] # NoFetching \/ ~ unread
           /\ UNCHANGED <<fetching, broken, overtaken>>

\* The rows that stay: of the last key whose own rows were shown.
Keep == previous' = IF cached[KeyOf(at)] # Nothing THEN KeyOf(at) ELSE previous

\* Another page of the console: nothing of the component is left, but a save
\* under way goes on.
Navigate(t) ==
  /\ requests < MaxRequests /\ requests' = requests + 1
  /\ t # at.table
  /\ Ask(Opened(t))
  /\ typed' = NoFilter
  /\ previous' = Nothing /\ dialog' = Nothing
  /\ saving' = IF saving = Nothing THEN Nothing ELSE [saving EXCEPT !.here = FALSE]
  /\ UNCHANGED <<edition, cached, invalid, own>>

\* Pager: as far as the total of the shown rows goes, be it of the previous key.
\* How many pages a table has at a time is left open.
Turn ==
  /\ dialog = Nothing
  /\ Shown # Nothing
  /\ \E p \in Pages :
       /\ p \in {at.page - 1, at.page + 1}
       /\ Ask([at EXCEPT !.page = p])
  /\ requests < MaxRequests /\ requests' = requests + 1
  /\ Keep
  /\ UNCHANGED <<edition, typed, cached, invalid, dialog, saving, own>>

\* A search, an application, a status code, a request id: not before "filter".
Type(f) ==
  /\ dialog = Nothing
  /\ at.table \notin Direct
  /\ f # typed
  /\ typed' = f
  /\ UNCHANGED <<edition, at, cached, invalid, fetching, broken, previous, dialog, saving, own,
                 overtaken, requests>>

\* The first page of another filter, also while a notice is being marked.
Select(f) ==
  /\ dialog = Nothing
  /\ f # at.filter
  /\ requests < MaxRequests /\ requests' = requests + 1
  /\ Ask([at EXCEPT !.page = 1, !.filter = f])
  /\ Keep
  /\ UNCHANGED <<edition, cached, invalid, dialog, saving, own>>

\* The form is submitted.
Apply == Select(typed) /\ UNCHANGED typed

\* A time range, a status, "unread", "reset", a group of the analytics: at once.
\* The form follows, or what was typed stays in it.
Choose(f) == Select(f) /\ typed' \in {f, typed}

\* "Refresh" and "retry", also when the connection is back.
Refresh ==
  /\ fetching[KeyOf(at)] = NoFetching
  /\ fetching' = [fetching EXCEPT ![KeyOf(at)] = Asked(at)]
  /\ overtaken' = overtaken \ {KeyOf(at)}
  /\ requests < MaxRequests /\ requests' = requests + 1
  /\ UNCHANGED <<edition, at, typed, cached, invalid, broken, previous, dialog, saving, own>>

---------------------------------------------------------------------------
(* The reads. *)

\* Count and Find of the handler; a page behind the last one is empty.
ServePage(k) ==
  /\ fetching[k].stage = "asked"
  /\ LET q == fetching[k].for
     IN fetching' = [fetching EXCEPT ![k] =
          [stage |-> "answered", for |-> q, edition |-> edition[q.table]]]
  /\ UNCHANGED <<edition, at, typed, cached, invalid, broken, previous, dialog, saving, own,
                 overtaken, requests>>

PageRead(k) ==
  /\ fetching[k].stage = "answered"
  /\ cached' = [cached EXCEPT ![k] =
       [for |-> fetching[k].for, edition |-> fetching[k].edition]]
  /\ fetching' = [fetching EXCEPT ![k] = NoFetching]
  /\ invalid' = invalid \ {k}
  /\ broken' = broken \ {k}
  /\ UNCHANGED <<edition, at, typed, previous, dialog, saving, own, overtaken, requests>>

\* What was read before stays, under the error.
PageFails(k) ==
  /\ fetching[k] # NoFetching
  /\ requests < MaxRequests /\ requests' = requests + 1
  /\ fetching' = [fetching EXCEPT ![k] = NoFetching]
  /\ broken' = broken \cup {k}
  /\ overtaken' = overtaken \ {k}
  /\ UNCHANGED <<edition, at, typed, cached, invalid, previous, dialog, saving, own>>

---------------------------------------------------------------------------
(* Acting on a row. *)

\* The page that is shown waits for its save.
Waiting == IF saving = Nothing THEN FALSE ELSE saving.here

\* The dialog holds a copy of the row that is shown.
OpenRow ==
  /\ dialog = Nothing
  /\ at.table \notin Direct
  /\ Shown # Nothing
  /\ \E filled \in BOOLEAN :
       dialog' = [table |-> at.table, edition |-> Shown.edition, ready |-> filled]
  /\ UNCHANGED <<edition, at, typed, cached, invalid, fetching, broken, previous, saving, own,
                 overtaken, requests>>

\* Its fields: those of an account stay open while the page waits; that those of
\* an application are disabled then is left out.
EditRow ==
  /\ dialog # Nothing
  /\ dialog' = [dialog EXCEPT !.ready = ~ @]
  /\ UNCHANGED <<edition, at, typed, cached, invalid, fetching, broken, previous, saving, own,
                 overtaken, requests>>

CloseRow ==
  /\ dialog # Nothing
  /\ ~ Waiting
  /\ dialog' = Nothing
  /\ UNCHANGED <<edition, at, typed, cached, invalid, fetching, broken, previous, saving, own,
                 overtaken, requests>>

\* One save at a time is modelled.
Send ==
  /\ saving = Nothing
  /\ requests < MaxRequests /\ requests' = requests + 1
  /\ saving' = [stage |-> "sent", table |-> at.table, wrote |-> 0, here |-> TRUE, again |-> KeyOf(at)]
  /\ UNCHANGED <<edition, at, typed, cached, invalid, fetching, broken, previous, dialog, own, overtaken>>

\* The dialog: updateUser, regulateToken.
SaveRow == dialog # Nothing /\ dialog.ready /\ Send

\* A notice, or all of them: readNotification.
Mark == at.table \in Direct /\ Send

Change(t) ==
  /\ edition[t] < MaxEdition
  /\ edition' = [edition EXCEPT ![t] = @ + 1]

ServeRow ==
  /\ saving # Nothing
  /\ saving.stage = "sent"
  /\ Change(saving.table)
  /\ saving' = [saving EXCEPT !.stage = "done", !.wrote = edition[saving.table] + 1]
  /\ UNCHANGED <<at, typed, cached, invalid, fetching, broken, previous, dialog, own, overtaken, requests>>

\* invalidateQueries: every key of the list is out of date; the one that is
\* shown is read again, but its first read and those of keys that are not shown
\* go on as they are.
Invalidate(t) ==
  LET keys == {q \in Query : q.table = t}
      again == {KeyOf(at)} \cap {q \in keys : cached[q] # Nothing \/ fetching[q] = NoFetching}
  IN /\ invalid' = invalid \cup keys
     /\ fetching' = [q \in Query |-> IF q \in again THEN Asked(at) ELSE fetching[q]]
     /\ broken' = broken \ again
     /\ overtaken' = (overtaken \ again) \cup {q \in keys \ again : fetching[q] # NoFetching}

\* The dialog closes and the list is read again; notices and applications wait
\* for that ("settled"), accounts do not.
RowSaved ==
  /\ saving # Nothing
  /\ saving.stage = "done"
  /\ own' = [own EXCEPT ![saving.table] = saving.wrote]
  /\ dialog' = IF saving.here THEN Nothing ELSE dialog
  /\ saving' \in {Nothing, [saving EXCEPT !.stage = "settled", !.again = KeyOf(at)]}
  /\ Invalidate(saving.table)
  /\ UNCHANGED <<edition, at, typed, cached, previous, requests>>

RowSettled ==
  /\ saving # Nothing
  /\ saving.stage = "settled"
  /\ fetching[saving.again] = NoFetching \/ ~ saving.here
  /\ saving' = Nothing
  /\ UNCHANGED <<edition, at, typed, cached, invalid, fetching, broken, previous, dialog, own,
                 overtaken, requests>>

\* Refused, or an answer that was lost: the error is shown above the button.
RowFails ==
  /\ saving # Nothing
  /\ saving.stage \in {"sent", "done"}
  /\ saving' = Nothing
  /\ UNCHANGED <<edition, at, typed, cached, invalid, fetching, broken, previous, dialog, own,
                 overtaken, requests>>

\* Another console, the owner, the gateway or the worker.
Other(t) ==
  /\ Change(t)
  /\ UNCHANGED <<at, typed, cached, invalid, fetching, broken, previous, dialog, saving, own,
                 overtaken, requests>>

ListsNext ==
  \/ \E t \in Tables : Navigate(t) \/ Other(t)
  \/ \E f \in Filters : Type(f) \/ Choose(f)
  \/ \E k \in Query : ServePage(k) \/ PageRead(k) \/ PageFails(k)
  \/ Turn \/ Apply \/ Refresh
  \/ OpenRow \/ EditRow \/ CloseRow \/ SaveRow \/ Mark \/ ServeRow \/ RowSaved \/ RowSettled \/ RowFails

ListsSpec == ListsInit /\ [][ListsNext]_listsVars

---------------------------------------------------------------------------
(* The type; a page that does not exist is asked for only by one who was      *)
(* shown that it does, and what a page waits for is its own.                  *)
ListsTypeOK ==
  /\ edition \in [Tables -> 0 .. MaxEdition]
  /\ at \in Query /\ typed \in Filters
  /\ cached \in [Query -> Result \cup {Nothing}]
  /\ fetching \in [Query -> Fetching]
  /\ invalid \subseteq Query /\ broken \subseteq Query /\ overtaken \subseteq Query
  /\ previous \in Query \cup {Nothing}
  /\ dialog \in Dialog \cup {Nothing}
  /\ saving \in Saving \cup {Nothing}
  /\ own \in [Tables -> 0 .. MaxEdition]
  /\ requests \in 0 .. MaxRequests
  /\ previous # Nothing => previous.table = at.table /\ cached[previous] # Nothing
  /\ dialog # Nothing => dialog.table = at.table
  /\ \A t \in Tables : own[t] <= edition[t]

(* Rows without a running read are those of the page and filter that are      *)
(* selected, whatever order the answers came in.  And once a save is answered *)
(* the rows that are shown are at least as new, or are being read again, or   *)
(* stand under an error; only a read that ran when the save was answered, and *)
(* was a first one or not shown, may still bring older rows.                  *)
RowsCurrent ==
  LET k == KeyOf(at)
  IN cached[k] # Nothing /\ fetching[k] = NoFetching =>
       /\ cached[k].for = at
       /\ cached[k].edition >= own[at.table] \/ k \in broken \cup overtaken
=============================================================================
