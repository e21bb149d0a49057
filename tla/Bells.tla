-------------------------------- MODULE Bells --------------------------------
(* Announcements: administrators publish and withdraw them, the bell of      *)
(* every page shows them and counts those that are new.  What was read is    *)
(* kept in the local storage of the browser, one number for each account,    *)
(* which the tabs of the browser share and no tab is told of.                *)
EXTENDS Naturals, FiniteSets, FiniteSetsExt

CONSTANTS
  Tabs,      \* documents of one browser
  Readers,   \* accounts, and the public
  NoReader,  \* no page in the tab, no feed
  Publishers, \* the consoles of the administrators
  FeedLimit, \* so many are listed by the server,
  Front,     \* and so many of them shown before the time line is opened
  MaxId      \* bound on the announcements

ASSUME BellsAssumption ==
  /\ NoReader \notin Readers
  /\ Front \in Nat \ {0}
  /\ FeedLimit \in Nat /\ Front <= FeedLimit
  /\ MaxId \in Nat

Ids == 1 .. MaxId

VARIABLES
  notice,    \* the table: an id is taken by the insert and visible with the commit
  late,      \* the ids that became visible after a higher one had
  call,      \* the request a publisher's page waits for ("pending")
  removing,  \* the announcement its confirmation asks about
  reader,    \* whose bell is mounted in a tab
  feed,      \* the query "announcements" of a tab
  polled,    \* the read of it that is on its way back
  bellOpen,  \* the dialog of the bell
  timeline,  \* it shows all items
  seen,      \* the highest id the mounted bell takes as read
  readMark,  \* platform-announcements-read in local storage
  displayed  \* what an open dialog of the browser has shown to an account

noticeVars == <<notice, late, call, removing>>
bellVars == <<noticeVars, reader, feed, polled, bellOpen, timeline, seen, readMark, displayed>>

NoCall == [stage |-> "none"]
Call == [stage : {"sent", "inserted", "done"},
         kind : {"publish", "withdraw"}, id : 0 .. MaxId]

\* Some were published before; nobody reads yet.
BellsInit ==
  /\ notice \in [Ids -> {"free", "published"}]
  /\ \A i, j \in Ids : i < j /\ notice[i] = "free" => notice[j] = "free"
  /\ late = {}
  /\ call = [a \in Publishers |-> NoCall]
  /\ removing = [a \in Publishers |-> 0]
  /\ reader = [d \in Tabs |-> NoReader]
  /\ feed = [d \in Tabs |-> NoReader]
  /\ polled = [d \in Tabs |-> NoReader]
  /\ bellOpen = [d \in Tabs |-> FALSE]
  /\ timeline = [d \in Tabs |-> FALSE]
  /\ seen = [d \in Tabs |-> 0]
  /\ readMark = [u \in Readers |-> 0]
  /\ displayed = [u \in Readers |-> {}]

Visible == {i \in Ids : notice[i] = "published"}

---------------------------------------------------------------------------
(* The administrators' page. *)

browserUnchanged ==
  UNCHANGED <<reader, feed, polled, bellOpen, timeline, seen, readMark, displayed>>

\* After a refusal or a lost answer the text, or the confirmation, is still
\* there to try again.
Fails(a) == call' = [call EXCEPT ![a] = NoCall]

\* One flag keeps the page from publishing and withdrawing at a time.
Publish(a) ==
  /\ call[a] = NoCall
  /\ \E i \in Ids : notice[i] = "free"
  /\ call' = [call EXCEPT ![a] = [stage |-> "sent", kind |-> "publish", id |-> 0]]
  /\ UNCHANGED <<notice, late, removing>>

\* What is listed may be withdrawn already.
OpenWithdraw(a, i) ==
  /\ removing[a] = 0
  /\ notice[i] \in {"published", "withdrawn"}
  /\ removing' = [removing EXCEPT ![a] = i]
  /\ UNCHANGED <<notice, late, call>>

CloseWithdraw(a) ==
  /\ removing[a] # 0
  /\ call[a] = NoCall
  /\ removing' = [removing EXCEPT ![a] = 0]
  /\ UNCHANGED <<notice, late, call>>

Withdraw(a) ==
  /\ removing[a] # 0
  /\ call[a] = NoCall
  /\ call' = [call EXCEPT ![a] = [stage |-> "sent", kind |-> "withdraw", id |-> removing[a]]]
  /\ UNCHANGED <<notice, late, removing>>

\* updateNotice: the insert takes the next id ...
Insert(a) ==
  /\ call[a].stage = "sent" /\ call[a].kind = "publish"
  /\ \E i \in Ids :
       /\ notice[i] = "free"
       /\ \A j \in Ids : j < i => notice[j] # "free"
       /\ notice' = [notice EXCEPT ![i] = "open"]
       /\ call' = [call EXCEPT ![a].stage = "inserted", ![a].id = i]
  /\ UNCHANGED <<late, removing>>

\* ... and the audit entry and the commit follow, or the transaction is undone.
Commit(a) ==
  /\ call[a].stage = "inserted"
  /\ LET i == call[a].id
     IN \/ /\ notice' = [notice EXCEPT ![i] = "published"]
           /\ late' = IF \E j \in Ids : j > i /\ notice[j] \in {"published", "withdrawn"}
                      THEN late \cup {i} ELSE late
           /\ call' = [call EXCEPT ![a].stage = "done"]
        \/ /\ notice' = [notice EXCEPT ![i] = "undone"]
           /\ Fails(a)
           /\ UNCHANGED late
  /\ UNCHANGED removing

\* deleteAnnouncement: one row, or an error.
ServeWithdraw(a) ==
  /\ call[a].stage = "sent" /\ call[a].kind = "withdraw"
  /\ IF call[a].id \in Visible
     THEN /\ notice' = [notice EXCEPT ![call[a].id] = "withdrawn"]
          /\ call' = [call EXCEPT ![a].stage = "done"]
     ELSE Fails(a) /\ UNCHANGED notice
  /\ UNCHANGED <<late, removing>>

LoseCall(a) ==
  /\ call[a].stage \in {"sent", "done"}
  /\ Fails(a)
  /\ UNCHANGED <<notice, late, removing>>

\* The confirmation closes when the withdrawal was made.
Done(a) ==
  /\ call[a].stage = "done"
  /\ removing' = IF call[a].kind = "withdraw" THEN [removing EXCEPT ![a] = 0] ELSE removing
  /\ call' = [call EXCEPT ![a] = NoCall]
  /\ UNCHANGED <<notice, late>>

---------------------------------------------------------------------------
(* The bell. *)

MountBell_NoKey(d, u) ==
  /\ reader[d] # u
  /\ reader' = [reader EXCEPT ![d] = u]
  /\ seen' = [seen EXCEPT ![d] = IF reader[d] = NoReader THEN readMark[u] ELSE @]
  /\ UNCHANGED <<noticeVars, feed, polled, bellOpen, timeline, readMark, displayed>>

\* The bell is keyed by the account: another one mounts it again, with the mark
\* that is stored for it.  The feed stays in the query cache of the tab.
MountBell(d, u) ==
  /\ reader[d] # u
  /\ reader' = [reader EXCEPT ![d] = u]
  /\ seen' = [seen EXCEPT ![d] = readMark[u]]
  /\ bellOpen' = [bellOpen EXCEPT ![d] = FALSE]
  /\ timeline' = [timeline EXCEPT ![d] = FALSE]
  /\ UNCHANGED <<noticeVars, feed, polled, readMark, displayed>>

\* The document is loaded again or left.
Unload(d) ==
  /\ reader[d] # NoReader
  /\ reader' = [reader EXCEPT ![d] = NoReader]
  /\ feed' = [feed EXCEPT ![d] = NoReader]
  /\ polled' = [polled EXCEPT ![d] = NoReader]
  /\ bellOpen' = [bellOpen EXCEPT ![d] = FALSE]
  /\ timeline' = [timeline EXCEPT ![d] = FALSE]
  /\ seen' = [seen EXCEPT ![d] = 0]
  /\ UNCHANGED <<noticeVars, readMark, displayed>>

\* Those of S that have fewer than n above them.
Newest(n, S) == {i \in S : Cardinality({j \in S : j > i}) < n}

\* Every minute, on mount, on "retry": the server lists the last ones.
ServeFeed(d) ==
  /\ reader[d] # NoReader
  /\ polled[d] = NoReader
  /\ polled' = [polled EXCEPT ![d] = Newest(FeedLimit, Visible)]
  /\ UNCHANGED <<noticeVars, reader, feed, bellOpen, timeline, seen, readMark, displayed>>

Items(d) == IF feed[d] = NoReader THEN {} ELSE feed[d]

\* An open dialog shows the first few of the items; all of them in the time line.
Rendered(whole, items) == IF whole THEN items ELSE Newest(Front, items)
Offer(d, whole, items) ==
  displayed' = [displayed EXCEPT ![reader[d]] = @ \cup Rendered(whole, items)]

FeedRead(d) ==
  /\ polled[d] # NoReader
  /\ feed' = [feed EXCEPT ![d] = polled[d]]
  /\ polled' = [polled EXCEPT ![d] = NoReader]
  /\ IF bellOpen[d] THEN Offer(d, timeline[d], polled[d]) ELSE UNCHANGED displayed
  /\ UNCHANGED <<noticeVars, reader, bellOpen, timeline, seen, readMark>>

\* The answer is lost; what was read before stays.
FeedFails(d) ==
  /\ polled[d] # NoReader
  /\ polled' = [polled EXCEPT ![d] = NoReader]
  /\ UNCHANGED <<noticeVars, reader, feed, bellOpen, timeline, seen, readMark, displayed>>

OpenBell(d) ==
  /\ reader[d] # NoReader
  /\ ~ bellOpen[d]
  /\ bellOpen' = [bellOpen EXCEPT ![d] = TRUE]
  /\ Offer(d, timeline[d], Items(d))
  /\ UNCHANGED <<noticeVars, reader, feed, polled, timeline, seen, readMark>>

\* The two buttons of the dialog; the choice is kept when it closes.
SwitchView(d, whole) ==
  /\ bellOpen[d]
  /\ timeline' = [timeline EXCEPT ![d] = whole]
  /\ Offer(d, whole, Items(d))
  /\ UNCHANGED <<noticeVars, reader, feed, polled, bellOpen, seen, readMark>>

\* markRead: up to the first item; the items come with the highest id first.
MarkRead(d) ==
  LET latest == IF Items(d) = {} THEN seen[d] ELSE Max(Items(d))
  IN /\ seen' = [seen EXCEPT ![d] = latest]
     /\ readMark' = [readMark EXCEPT ![reader[d]] = latest]

CloseBell(d) ==
  /\ bellOpen[d]
  /\ bellOpen' = [bellOpen EXCEPT ![d] = FALSE]
  /\ MarkRead(d)
  /\ UNCHANGED <<noticeVars, reader, feed, polled, timeline, displayed>>

MarkAll(d) ==
  /\ bellOpen[d]
  /\ \E i \in Items(d) : i > seen[d]
  /\ MarkRead(d)
  /\ UNCHANGED <<noticeVars, reader, feed, polled, bellOpen, timeline, displayed>>

---------------------------------------------------------------------------
Administer(a) ==
  \/ Publish(a) \/ CloseWithdraw(a) \/ Withdraw(a)
  \/ Insert(a) \/ Commit(a) \/ ServeWithdraw(a) \/ LoseCall(a) \/ Done(a)
  \/ \E i \in Ids : OpenWithdraw(a, i)

BellsNext ==
  \/ \E a \in Publishers : Administer(a) /\ browserUnchanged
  \/ \E d \in Tabs :
       \/ Unload(d) \/ ServeFeed(d) \/ FeedRead(d) \/ FeedFails(d)
       \/ OpenBell(d) \/ CloseBell(d) \/ MarkAll(d)
       \/ \E whole \in BOOLEAN : SwitchView(d, whole)
       \/ \E u \in Readers : MountBell(d, u)

BellsSpec == BellsInit /\ [][BellsNext]_bellVars

---------------------------------------------------------------------------
(* The type; a tab without a page holds nothing, and a confirmation is about  *)
(* something that was published.                                              *)
BellsTypeOK ==
  /\ notice \in [Ids -> {"free", "open", "undone", "published", "withdrawn"}]
  /\ late \subseteq Ids
  /\ call \in [Publishers -> Call \cup {NoCall}]
  /\ removing \in [Publishers -> 0 .. MaxId]
  /\ reader \in [Tabs -> Readers \cup {NoReader}]
  /\ feed \in [Tabs -> (SUBSET Ids) \cup {NoReader}]
  /\ polled \in [Tabs -> (SUBSET Ids) \cup {NoReader}]
  /\ bellOpen \in [Tabs -> BOOLEAN]
  /\ timeline \in [Tabs -> BOOLEAN]
  /\ seen \in [Tabs -> 0 .. MaxId]
  /\ readMark \in [Readers -> 0 .. MaxId]
  /\ displayed \in [Readers -> SUBSET Ids]
  /\ \A d \in Tabs : reader[d] = NoReader => feed[d] = NoReader /\ ~ bellOpen[d] /\ seen[d] = 0

\* An account was shown an announcement, or a full front of newer ones.
WasShown(u, i) ==
  \/ i \in displayed[u]
  \/ Front <= Cardinality({j \in displayed[u] : j > i})

(* An announcement that is still published counts as read for an account only *)
(* if dialogs of this browser that were open under that account showed it, or *)
(* showed as many newer ones as a dialog has at first: older ones are for the *)
(* time line, and beyond the list of the server for nobody. The exception is  *)
(* one whose commit came after that of a higher id.  Tabs with feeds of       *)
(* different age, withdrawals of what was read last, another account in the   *)
(* tab and answers that arrive under a closed dialog mark nothing else.       *)
ReadMeansShown ==
  \A u \in Readers, i \in Visible \ late :
    \/ WasShown(u, i)
    \/ /\ i > readMark[u]
       /\ \A d \in Tabs : reader[d] = u => i > seen[d]
=============================================================================
