--------------------------- MODULE ConsoleProofs ---------------------------
(***************************************************************************)
(* The announcements, the lists, the mail settings and the API reference   *)
(* of the console, for any number of tabs, accounts, lists, pages,         *)
(* addresses, tasks and endpoints, each with its inductive invariant and a *)
(* lemma per action or group of actions; and the pages together.           *)
(*                                                                         *)
(* Announcements (BellsInv): a mark is an announcement that was published, *)
(* and of what is visible below an item of a feed the feed has all, or a   *)
(* front of newer ones, so that what counts as read was shown, or as many  *)
(* newer ones were (ReadMeansShown).                                       *)
(*                                                                         *)
(* Lists (ListsInv): what is cached or on its way under a key is for that  *)
(* key, and is as new as the saves that were answered unless it is to be   *)
(* read again, so that the rows that stand are current (RowsCurrent).      *)
(*                                                                         *)
(* Mail settings (SettingsInv): a copy of the mailbox is right until       *)
(* another task writes (CopiesFollow), and a save the tab was told of is in*)
(* all it reads afterwards (HeardIsRead), so that what the form tells is so*)
(* (SettingsTell).                                                         *)
(*                                                                         *)
(* API reference (ExplorerInv): requests are numbered as they are sent,    *)
(* and the key in the form was entered for the endpoint of the page, so    *)
(* that it goes to no other one and what the explorer shows is what came   *)
(* of its last request (ExplorerTells).                                    *)
(***************************************************************************)
EXTENDS Console, ApplicationsProofs, FiniteSetTheorems,
        WellFoundedInduction, TLAPS

HIDE ApplicationsAssumption DEF NotSent, rowVars, dialogVars, keyVars

-----------------------------------------------------------------------------
(* Announcements: the inductive invariant. *)

\* An id that was visible once; a lower one that becomes visible later is late.
Released(i) == i \in Ids /\ notice[i] \in {"published", "withdrawn"}

\* Who has inserted an announcement is alone with it until the commit.
Inserted ==
  \A a \in Publishers : call[a].stage = "inserted" =>
    /\ call[a].kind = "publish"
    /\ call[a].id \in Ids
    /\ notice[call[a].id] = "open"
    /\ \A b \in Publishers : b # a /\ call[b].stage = "inserted" => call[b].id # call[a].id

\* A mark is an id that was published, or none.
MarksKnown ==
  /\ \A u \in Readers : readMark[u] = 0 \/ Released(readMark[u])
  /\ \A d \in Tabs : seen[d] = 0 \/ Released(seen[d])

\* A full front of S is above i.
Fronted(S, i) == Front <= Cardinality({j \in S : j > i})

\* A feed has what is still visible below any of its items, unless it came late
\* or there is a front above it.
Complete(S) ==
  /\ \A i \in S : Released(i)
  /\ \A i \in Visible \ late, j \in S : i < j => i \in S \/ Fronted(S, i)
FeedsComplete ==
  \A d \in Tabs :
    /\ feed[d] # NoReader => Complete(feed[d])
    /\ polled[d] # NoReader => Complete(polled[d])

\* What an open dialog renders was offered; without a page nothing is held.
FeedsDisplayed ==
  \A d \in Tabs :
    /\ bellOpen[d] => reader[d] # NoReader
    /\ bellOpen[d] /\ feed[d] # NoReader => Rendered(timeline[d], feed[d]) \subseteq displayed[reader[d]]
    /\ polled[d] # NoReader => reader[d] # NoReader

BellsInv ==
  /\ BellsTypeOK /\ Inserted /\ MarksKnown /\ FeedsComplete /\ FeedsDisplayed
  /\ ReadMeansShown

-----------------------------------------------------------------------------
(* Ids. *)

\* A set of ids that is not empty has a greatest one: the smallest of the sets
\* of those above a member is empty.
LEMMA MaxIsGreatest ==
  ASSUME NEW S \in SUBSET Ids, S # {}
  PROVE  /\ Max(S) \in S
         /\ \A i \in S : i <= Max(S)
<1> DEFINE Above(i) == {j \in S : j > i}
           Tops == {Above(i) : i \in S}
<1>1. IsFiniteSet(S)
  <2>1. \A i \in S : i \in Nat /\ i <= MaxId
    BY BellsAssumption DEF Ids
  <2> QED BY <2>1, FS_BoundedSetOfNaturals, BellsAssumption
<1>2. IsWellFoundedOn(StrictSubsetOrdering(S), SUBSET S)
  BY <1>1, FS_StrictSubsetOrderingWellFounded, FS_FiniteSubsetsOfFinite
<1>3. Tops \subseteq SUBSET S /\ Tops # {}
  OBVIOUS
<1> HIDE DEF Tops
<1>4. PICK T \in Tops : \A U \in Tops : ~ (<<U, T>> \in StrictSubsetOrdering(S))
  BY <1>2, <1>3, WFMin
<1>5. PICK m \in S : T = Above(m)
  BY <1>4 DEF Tops
<1>6. \A i \in S : i <= m
  <2> SUFFICES ASSUME NEW i \in S, i > m PROVE FALSE
    BY BellsAssumption DEF Ids
  <2>0. \A j \in S : j \in Int
    BY BellsAssumption DEF Ids
  <2>1. Above(i) \subseteq Above(m) /\ i \in Above(m) /\ i \notin Above(i)
    <3>1. \A j \in S : j > i => j > m
      BY <2>0
    <3>2. ~ (i > i)
      BY <2>0
    <3> QED BY <3>1, <3>2
  <2>2. Above(i) \in Tops
    BY DEF Tops
  <2>3. <<Above(i), T>> \in StrictSubsetOrdering(S)
    BY <1>5, <2>1 DEF StrictSubsetOrdering
  <2> QED BY <1>4, <2>2, <2>3
<1>7. \E x \in S : \A y \in S : x >= y
  BY <1>6, BellsAssumption DEF Ids
<1> QED BY <1>7, BellsAssumption DEF Max, Ids

\* More ids, no fewer above any.
LEMMA FrontsGrow ==
  ASSUME NEW S \in SUBSET Ids, NEW T \in SUBSET S, NEW i, NEW n \in Nat,
         n <= Cardinality({j \in T : j > i})
  PROVE  n <= Cardinality({j \in S : j > i})
<1> DEFINE A == {j \in T : j > i}
           B == {j \in S : j > i}
<1>1. IsFiniteSet(B)
  <2>1. \A j \in B : j \in Nat /\ j <= MaxId
    BY BellsAssumption DEF Ids
  <2> QED BY <2>1, FS_BoundedSetOfNaturals, BellsAssumption
<1>2. A \subseteq B
  OBVIOUS
<1>3. /\ IsFiniteSet(A)
      /\ Cardinality(A) \in Nat /\ Cardinality(B) \in Nat
      /\ Cardinality(A) <= Cardinality(B)
  BY <1>1, <1>2, FS_Subset, FS_CardinalityType
<1> HIDE DEF A, B
<1>4. n <= Cardinality(A)
  BY DEF A
<1>5. n <= Cardinality(B)
  BY <1>3, <1>4
<1> QED BY <1>5 DEF B

\* If n of S are above i, n of the newest n are.
LEMMA NewestAbove ==
  ASSUME NEW S \in SUBSET Ids, NEW i \in Ids, NEW n \in Nat,
         n <= Cardinality({j \in S : j > i})
  PROVE  n <= Cardinality({j \in Newest(n, S) : j > i})
<1> DEFINE N == Newest(n, S)
           R == {j \in S : j > i /\ j \notin N}
<1>0. N \in SUBSET S
  BY DEF Newest
<1>1. CASE R = {}
  <2>1. {j \in S : j > i} = {j \in N : j > i}
    BY <1>0, <1>1
  <2> QED BY <2>1
<1>2. CASE R # {}
  <2>1. PICK m \in R : \A j \in R : j <= m
    BY <1>2, MaxIsGreatest
  <2>2. m \in S /\ m > i /\ m \in Ids /\ ~ (Cardinality({j \in S : j > m}) < n)
    BY DEF Newest
  <2>3. {j \in S : j > m} = {j \in N : j > m}
    <3>1. ASSUME NEW j \in S, j > m PROVE j \in N
      BY <2>1, <2>2, <3>1, BellsAssumption DEF Ids
    <3> QED BY <1>0, <3>1
  <2>4. n <= Cardinality({j \in N : j > m})
    <3>1. IsFiniteSet({j \in S : j > m})
      <4>1. \A j \in {j \in S : j > m} : j \in Nat /\ j <= MaxId
        BY BellsAssumption DEF Ids
      <4> QED BY <4>1, FS_BoundedSetOfNaturals, BellsAssumption
    <3>2. Cardinality({j \in S : j > m}) \in Nat
      BY <3>1, FS_CardinalityType
    <3>3. n <= Cardinality({j \in S : j > m})
      BY <2>2, <3>2
    <3> QED BY <2>3, <3>3
  <2>5. n <= Cardinality({j \in {k \in N : k > i} : j > m})
    <3>1. \A j \in N : j > m => j > i
      <4>1. \A j \in N : j \in Nat
        <5>1. \A j \in Ids : j \in Nat
          BY BellsAssumption DEF Ids
        <5> HIDE DEF N
        <5> QED BY <1>0, <5>1
      <4>2. m \in Nat /\ i \in Nat /\ m > i
        BY <2>2, BellsAssumption DEF Ids
      <4> HIDE DEF N, R
      <4> QED BY <4>1, <4>2
    <3>2. {j \in {k \in N : k > i} : j > m} = {j \in N : j > m}
      BY <3>1
    <3> QED BY <2>4, <3>2
  <2>6. {k \in N : k > i} \in SUBSET Ids
    BY <1>0
  <2>7. {j \in {k \in N : k > i} : j > m} \in SUBSET {k \in N : k > i}
    OBVIOUS
  <2>8. {j \in {k \in N : k > i} : j > m} = {j \in {j \in {k \in N : k > i} : j > m} : j > i}
    OBVIOUS
  <2>9. n <= Cardinality({j \in {k \in N : k > i} : j > i})
    BY <2>5, <2>6, <2>7, <2>8, FrontsGrow
  <2>10. {j \in {k \in N : k > i} : j > i} = {j \in N : j > i}
    OBVIOUS
  <2> QED BY <2>9, <2>10
<1> QED BY <1>1, <1>2

\* The newest ones of what is visible are a complete feed.
LEMMA NewestComplete == Complete(Newest(FeedLimit, Visible))
<1> DEFINE N == Newest(FeedLimit, Visible)
<1>0. N \in SUBSET Ids /\ N \subseteq Visible /\ Visible \in SUBSET Ids
  BY DEF Newest, Visible
<1>1. \A j \in N : Released(j)
  BY <1>0 DEF Released, Visible
<1>2. ASSUME NEW j \in Visible, j \notin N PROVE Fronted(N, j)
  <2>1. ~ (Cardinality({k \in Visible : k > j}) < FeedLimit)
    BY <1>2 DEF Newest
  <2>2. Cardinality({k \in Visible : k > j}) \in Nat
    <3>1. \A k \in {k \in Visible : k > j} : k \in Nat /\ k <= MaxId
      BY <1>0, BellsAssumption DEF Ids
    <3>2. IsFiniteSet({k \in Visible : k > j})
      BY <3>1, FS_BoundedSetOfNaturals, BellsAssumption
    <3> QED BY <3>2, FS_CardinalityType
  <2>3. FeedLimit <= Cardinality({k \in Visible : k > j})
    BY <2>1, <2>2, BellsAssumption
  <2>4. FeedLimit <= Cardinality({k \in N : k > j})
    BY <1>0, <2>3, NewestAbove, BellsAssumption
  <2>5. Cardinality({k \in N : k > j}) \in Nat
    <3>1. \A k \in {k \in N : k > j} : k \in Nat /\ k <= MaxId
      BY <1>0, BellsAssumption DEF Ids
    <3>2. IsFiniteSet({k \in N : k > j})
      BY <3>1, FS_BoundedSetOfNaturals, BellsAssumption
    <3> QED BY <3>2, FS_CardinalityType
  <2> QED BY <2>4, <2>5, BellsAssumption DEF Fronted
<1> QED BY <1>1, <1>2 DEF Complete

\* What was shown stays so.
LEMMA ShownStays ==
  ASSUME NEW u \in Readers, displayed'[u] \in SUBSET Ids, displayed[u] \subseteq displayed'[u],
         NEW i, WasShown(u, i)
  PROVE  WasShown(u, i)'
<1>1. CASE i \in displayed[u]
  BY <1>1 DEF WasShown
<1>2. CASE Front <= Cardinality({j \in displayed[u] : j > i})
  <2>1. Front <= Cardinality({j \in displayed'[u] : j > i})
    BY <1>2, FrontsGrow, BellsAssumption
  <2> QED BY <2>1 DEF WasShown
<1> QED BY <1>1, <1>2 DEF WasShown

-----------------------------------------------------------------------------

\* In the beginning nothing was published and nobody reads.
LEMMA StartsRight == BellsInit => BellsInv
<1> SUFFICES ASSUME BellsInit PROVE BellsInv
  OBVIOUS
<1> USE DEF BellsInit
<1>1. BellsTypeOK
  <2>1. 0 \in 0 .. MaxId
    BY BellsAssumption
  <2> QED BY <2>1 DEF BellsTypeOK
<1>2. Inserted
  BY DEF Inserted, NoCall
<1>3. MarksKnown
  BY DEF MarksKnown
<1>4. FeedsComplete /\ FeedsDisplayed
  BY DEF FeedsComplete, FeedsDisplayed
<1>5. ReadMeansShown
  BY BellsAssumption DEF ReadMeansShown, Visible, Ids
<1> QED BY <1>1, <1>2, <1>3, <1>4, <1>5 DEF BellsInv

-----------------------------------------------------------------------------
(* The administrators. *)

\* A step of the administrators that hides no id from those who knew it, and
\* makes one visible in time only if none above it was known.
LEMMA TableGrows ==
  ASSUME BellsInv, browserUnchanged,
         \A i \in Ids : Released(i) => Released(i)',
         \A i \in (Visible \ late)' :
           i \in Visible \ late \/ \A j \in Ids : j >= i => ~ Released(j)
  PROVE  MarksKnown' /\ FeedsComplete' /\ FeedsDisplayed' /\ ReadMeansShown'
<1> USE DEF browserUnchanged
<1>1. MarksKnown'
  BY DEF BellsInv, MarksKnown, Released
<1>2. FeedsDisplayed'
  BY DEF BellsInv, FeedsDisplayed
<1>3. ASSUME NEW S, Complete(S) PROVE Complete(S)'
  <2>1. \A i \in S : Released(i)'
    BY <1>3 DEF Complete, Released
  <2>2. ASSUME NEW i \in (Visible \ late)', NEW j \in S, i < j PROVE i \in S \/ Fronted(S, i)
    <3>1. i \in Ids /\ j \in Ids /\ Released(j)
      BY <1>3 DEF Complete, Released, Visible
    <3>2. j >= i
      BY <2>2, <3>1, BellsAssumption DEF Ids
    <3> QED BY <1>3, <2>2, <3>1, <3>2 DEF Complete
  <2> QED BY <2>1, <2>2 DEF Complete
<1>4. FeedsComplete'
  BY <1>3 DEF BellsInv, FeedsComplete
<1>5. ReadMeansShown'
  <2> SUFFICES ASSUME NEW u \in Readers, NEW i \in (Visible \ late)', ~ WasShown(u, i)
               PROVE  i > readMark[u] /\ \A d \in Tabs : reader[d] = u => i > seen[d]
    BY DEF ReadMeansShown, WasShown
  <2>1. CASE i \in Visible \ late
    BY <2>1 DEF BellsInv, ReadMeansShown
  <2>2. CASE \A j \in Ids : j >= i => ~ Released(j)
    <3>1. i \in Ids
      BY DEF Visible
    <3>2. ASSUME NEW m, m = 0 \/ Released(m) PROVE i > m
      BY <2>2, <3>1, <3>2, BellsAssumption DEF Ids, Released
    <3> QED BY <3>2 DEF BellsInv, MarksKnown
  <2> QED BY <2>1, <2>2
<1> QED BY <1>1, <1>2, <1>4, <1>5

\* What an administrator's step does to the table and to who has inserted what.
LEMMA AdministerTyped ==
  ASSUME BellsInv, NEW a \in Publishers, Administer(a), browserUnchanged
  PROVE  BellsTypeOK' /\ Inserted'
<1> USE BellsAssumption DEF BellsInv, BellsTypeOK, browserUnchanged
<1> USE DEF Ids
<1>0. /\ \A c \in Call : c.stage # "none"
      /\ \A c \in Call \cup {NoCall} : c.stage # "none" => c \in Call
      /\ NoCall.stage = "none"
  BY DEF Call, NoCall
<1>c. \A c \in Call, t \in {"sent", "inserted", "done"}, i \in 0 .. MaxId :
        /\ [c EXCEPT !.stage = t] \in Call
        /\ [c EXCEPT !.stage = t, !.id = i] \in Call
        /\ [c EXCEPT !.stage = t].stage = t
        /\ [c EXCEPT !.stage = t, !.id = i].stage = t
        /\ [c EXCEPT !.stage = t, !.id = i].id = i
        /\ [c EXCEPT !.stage = t, !.id = i].kind = c.kind
  BY DEF Call
<1>n. \A k \in {"publish", "withdraw"}, i \in 0 .. MaxId :
        [stage |-> "sent", kind |-> k, id |-> i] \in Call
  BY DEF Call
<1>1. CASE Publish(a)
  <2>1. BellsTypeOK'
    BY <1>1, <1>n DEF Publish
  <2>2. Inserted'
    BY <1>1 DEF Publish, Inserted
  <2> QED BY <2>1, <2>2
<1>2. CASE CloseWithdraw(a)
  BY <1>2 DEF CloseWithdraw, Inserted
<1>3. CASE Withdraw(a)
  <2>1. BellsTypeOK'
    BY <1>3, <1>n DEF Withdraw
  <2>2. Inserted'
    BY <1>3 DEF Withdraw, Inserted
  <2> QED BY <2>1, <2>2
<1>4. CASE Insert(a)
  <2>1. PICK i \in Ids : /\ notice[i] = "free"
                         /\ notice' = [notice EXCEPT ![i] = "open"]
                         /\ call' = [call EXCEPT ![a].stage = "inserted", ![a].id = i]
    BY <1>4 DEF Insert
  <2>2. call[a] \in Call /\ call[a].kind = "publish" /\ i \in 0 .. MaxId
    BY <1>4, <1>0 DEF Insert
  <2>3. /\ call' = [call EXCEPT ![a] = [call[a] EXCEPT !.stage = "inserted", !.id = i]]
        /\ call'[a] \in Call
        /\ call'[a].stage = "inserted" /\ call'[a].id = i /\ call'[a].kind = "publish"
    <3>1. call' = [call EXCEPT ![a] = [call[a] EXCEPT !.stage = "inserted", !.id = i]]
      BY <2>1
    <3>2. [call[a] EXCEPT !.stage = "inserted", !.id = i] \in Call
      BY <2>2, <1>c
    <3>3. call'[a] = [call[a] EXCEPT !.stage = "inserted", !.id = i]
      BY <3>1
    <3>4. /\ [call[a] EXCEPT !.stage = "inserted", !.id = i].stage = "inserted"
          /\ [call[a] EXCEPT !.stage = "inserted", !.id = i].id = i
          /\ [call[a] EXCEPT !.stage = "inserted", !.id = i].kind = "publish"
      BY <2>2 DEF Call
    <3> QED BY <3>1, <3>2, <3>3, <3>4
  <2>4. BellsTypeOK'
    BY <1>4, <2>1, <2>3 DEF Insert
  <2>5. Inserted'
    BY <1>4, <2>1, <2>3 DEF Insert, Inserted
  <2> QED BY <2>4, <2>5
<1>5. CASE Commit(a)
  <2>0. /\ call[a] \in Call /\ call[a].id \in Ids /\ call[a].stage = "inserted"
    BY <1>5, <1>0 DEF Commit, Inserted
  <2>1. /\ \E v \in {"published", "undone"} : notice' = [notice EXCEPT ![call[a].id] = v]
        /\ late' \subseteq Ids /\ UNCHANGED removing
        /\ \A b \in Publishers \ {a} : call'[b] = call[b]
    BY <1>5, <2>0 DEF Commit, Fails
  <2>2. call' \in [Publishers -> Call \cup {NoCall}] /\ call'[a].stage # "inserted"
    <3>1. \E c \in Call \cup {NoCall} : c.stage # "inserted" /\ call' = [call EXCEPT ![a] = c]
      BY <1>5, <2>0, <1>0, <1>c DEF Commit, Fails
    <3> QED BY <3>1
  <2>3. BellsTypeOK'
    BY <2>1, <2>2
  <2>4. Inserted'
    <3> SUFFICES ASSUME NEW b \in Publishers, call'[b].stage = "inserted"
                 PROVE  /\ call'[b].kind = "publish" /\ call'[b].id \in Ids
                        /\ notice'[call'[b].id] = "open"
                        /\ \A e \in Publishers :
                             e # b /\ call'[e].stage = "inserted" => call'[e].id # call'[b].id
      BY DEF Inserted
    <3>1. b # a /\ call'[b] = call[b]
      BY <2>1, <2>2
    <3>2. /\ call[b].kind = "publish" /\ call[b].id \in Ids /\ notice[call[b].id] = "open"
          /\ call[b].id # call[a].id
          /\ \A e \in Publishers :
               e # b /\ call[e].stage = "inserted" => call[e].id # call[b].id
      BY <2>0, <3>1 DEF Inserted
    <3>3. notice'[call[b].id] = "open"
      BY <2>0, <2>1, <3>2
    <3>4. ASSUME NEW e \in Publishers, e # b, call'[e].stage = "inserted"
          PROVE  call'[e].id # call'[b].id
      <4>1. e # a /\ call'[e] = call[e]
        BY <2>1, <2>2, <3>4
      <4> QED BY <3>1, <3>2, <3>4, <4>1
    <3> QED BY <3>1, <3>2, <3>3, <3>4
  <2> QED BY <2>3, <2>4
<1>6. CASE ServeWithdraw(a)
  <2>0. call[a] \in Call
    BY <1>6, <1>0 DEF ServeWithdraw
  <2>1. \E c \in Call \cup {NoCall} : c.stage # "inserted" /\ call' = [call EXCEPT ![a] = c]
    <3>1. CASE call' = [call EXCEPT ![a].stage = "done"]
      <4>1. /\ [call[a] EXCEPT !.stage = "done"] \in Call
            /\ [call[a] EXCEPT !.stage = "done"].stage # "inserted"
        BY <2>0 DEF Call
      <4> QED BY <3>1, <4>1
    <3>2. CASE Fails(a)
      BY <3>2, <1>0 DEF Fails
    <3> QED BY <1>6, <3>1, <3>2 DEF ServeWithdraw
  <2>2. /\ UNCHANGED <<late, removing>>
        /\ \/ UNCHANGED notice
           \/ \E i \in Visible : notice' = [notice EXCEPT ![i] = "withdrawn"]
    BY <1>6 DEF ServeWithdraw
  <2>3. BellsTypeOK'
    BY <2>1, <2>2
  <2>4. Inserted'
    BY <2>1, <2>2 DEF Inserted, Visible
  <2> QED BY <2>3, <2>4
<1>7. CASE LoseCall(a)
  BY <1>7, <1>0 DEF LoseCall, Fails, Inserted
<1>8. CASE Done(a)
  BY <1>8, <1>0 DEF Done, Inserted
<1>9. ASSUME NEW i \in Ids, OpenWithdraw(a, i) PROVE BellsTypeOK' /\ Inserted'
  BY <1>9 DEF OpenWithdraw, Inserted
<1> QED BY <1>1, <1>2, <1>3, <1>4, <1>5, <1>6, <1>7, <1>8, <1>9 DEF Administer

\* A publisher inserts, commits, withdraws and removes.
LEMMA AdministerKeeps ==
  ASSUME BellsInv, NEW a \in Publishers, Administer(a), browserUnchanged
  PROVE  BellsInv'
<1>1. BellsTypeOK' /\ Inserted'
  BY AdministerTyped
<1>2. /\ \A i \in Ids : Released(i) => Released(i)'
      /\ \A i \in (Visible \ late)' :
           i \in Visible \ late \/ \A j \in Ids : j >= i => ~ Released(j)
  <2> USE BellsAssumption DEF BellsInv, BellsTypeOK, Ids, Released, Visible
  <2>1. CASE UNCHANGED <<notice, late>>
    BY <2>1
  <2>2. CASE Insert(a)
    BY <2>2 DEF Insert
  <2>3. CASE Commit(a)
    BY <2>3 DEF Commit, Inserted
  <2>4. CASE ServeWithdraw(a)
    BY <2>4 DEF ServeWithdraw
  <2>5. \/ UNCHANGED <<notice, late>>
        \/ Insert(a) \/ Commit(a) \/ ServeWithdraw(a)
    BY DEF Administer, Publish, CloseWithdraw, Withdraw, LoseCall, Done, OpenWithdraw
  <2> QED BY <2>1, <2>2, <2>3, <2>4, <2>5
<1>3. MarksKnown' /\ FeedsComplete' /\ FeedsDisplayed' /\ ReadMeansShown'
  BY <1>2, TableGrows
<1> QED BY <1>1, <1>3 DEF BellsInv

-----------------------------------------------------------------------------
(* The tabs. *)

\* The table stands still.
LEMMA TableStands ==
  ASSUME UNCHANGED noticeVars
  PROVE  /\ Visible' = Visible /\ late' = late
         /\ \A i : Released(i)' = Released(i)
         /\ \A S : Complete(S)' = Complete(S)
         /\ Inserted' = Inserted
BY DEF noticeVars, Visible, Released, Complete, Fronted, Inserted

\* What is marked when a dialog closes was in it, or a front of newer ones was.
LEMMA MarkedWasShown ==
  ASSUME BellsInv, NEW d \in Tabs, bellOpen[d], MarkRead(d),
         UNCHANGED <<noticeVars, reader, feed, polled, timeline, displayed>>
  PROVE  MarksKnown' /\ ReadMeansShown'
<1> DEFINE latest == IF Items(d) = {} THEN seen[d] ELSE Max(Items(d))
           v == reader[d]
<1> USE BellsAssumption
<1>0. Items(d) \in SUBSET Ids /\ v \in Readers
  BY DEF BellsInv, BellsTypeOK, Items, FeedsDisplayed
<1>1. /\ seen' = [seen EXCEPT ![d] = latest]
      /\ readMark' = [readMark EXCEPT ![v] = latest]
  BY DEF MarkRead
<1>2. latest = 0 \/ Released(latest)
  <2>1. CASE Items(d) = {}
    BY <2>1 DEF BellsInv, MarksKnown
  <2>2. CASE Items(d) # {}
    BY <1>0, <2>2, MaxIsGreatest DEF BellsInv, FeedsComplete, Complete, Items
  <2> QED BY <2>1, <2>2
<1>r. Items(d) # {} => Rendered(timeline[d], Items(d)) \subseteq displayed[v]
  BY DEF BellsInv, FeedsDisplayed, Items
<1>f. ASSUME NEW i \in Ids, Fronted(Items(d), i) PROVE WasShown(v, i)
  <2>1. Items(d) # {}
    <3>1. Items(d) = {} => {j \in Items(d) : j > i} = {}
      OBVIOUS
    <3> QED BY <1>f, <3>1, FS_EmptySet DEF Fronted
  <2> DEFINE D == Rendered(timeline[d], Items(d))
  <2>2. Front <= Cardinality({j \in D : j > i})
    <3>1. CASE timeline[d]
      BY <1>f, <3>1 DEF Fronted, Rendered
    <3>2. CASE ~ timeline[d]
      <4>1. Front <= Cardinality({j \in Newest(Front, Items(d)) : j > i})
        BY <1>0, <1>f, NewestAbove DEF Fronted
      <4> QED BY <3>2, <4>1 DEF Rendered
    <3> QED BY <3>1, <3>2
  <2>3. D \subseteq displayed[v] /\ displayed[v] \in SUBSET Ids
    BY <1>0, <1>r, <2>1 DEF BellsInv, BellsTypeOK
  <2> HIDE DEF D
  <2>4. Front <= Cardinality({j \in displayed[v] : j > i})
    BY <2>2, <2>3, FrontsGrow
  <2> QED BY <2>4 DEF WasShown
<1>3. ASSUME NEW i \in Visible \ late, ~ WasShown(v, i) PROVE i > latest
  <2>1. i \in Ids
    BY DEF Visible
  <2>2. CASE Items(d) = {}
    BY <2>2, <1>0, <1>3 DEF BellsInv, ReadMeansShown
  <2>3. CASE Items(d) # {}
    <3>1. latest \in Items(d) /\ \A j \in Items(d) : j <= latest
      BY <1>0, <2>3, MaxIsGreatest
    <3>2. ~ Fronted(Items(d), i)
      BY <1>3, <1>f, <2>1
    <3>3. i \notin Items(d)
      <4> SUFFICES ASSUME i \in Items(d) PROVE FALSE
        OBVIOUS
      <4>1. i \notin displayed[v]
        BY <1>3 DEF WasShown
      <4>2. i \notin Rendered(timeline[d], Items(d))
        BY <1>r, <2>3, <4>1
      <4>3. ~ (Cardinality({j \in Items(d) : j > i}) < Front)
        BY <4>2 DEF Rendered, Newest
      <4>4. Cardinality({j \in Items(d) : j > i}) \in Nat
        <5>1. \A k \in {k \in Items(d) : k > i} : k \in Nat /\ k <= MaxId
          BY <1>0 DEF Ids
        <5>2. IsFiniteSet({k \in Items(d) : k > i})
          BY <5>1, FS_BoundedSetOfNaturals
        <5> QED BY <5>2, FS_CardinalityType
      <4> QED BY <3>2, <4>3, <4>4 DEF Fronted
    <3>4. ~ (i < latest)
      BY <3>1, <3>2, <3>3 DEF BellsInv, FeedsComplete, Complete, Items
    <3> QED BY <1>0, <2>1, <3>1, <3>3, <3>4 DEF Ids
  <2> QED BY <2>2, <2>3
<1> HIDE DEF latest
<1>4. MarksKnown'
  BY <1>0, <1>1, <1>2, TableStands DEF BellsInv, BellsTypeOK, MarksKnown
<1>5. ReadMeansShown'
  <2> SUFFICES ASSUME NEW u \in Readers, NEW i \in Visible \ late, ~ WasShown(u, i)
               PROVE  i > readMark'[u] /\ \A e \in Tabs : reader[e] = u => i > seen'[e]
    BY TableStands DEF ReadMeansShown, WasShown
  <2>1. i > readMark[u] /\ \A e \in Tabs : reader[e] = u => i > seen[e]
    BY DEF BellsInv, ReadMeansShown
  <2>2. i > readMark'[u]
    BY <1>0, <1>1, <1>3, <2>1 DEF BellsInv, BellsTypeOK
  <2>3. ASSUME NEW e \in Tabs, reader[e] = u PROVE i > seen'[e]
    BY <1>1, <1>3, <2>1, <2>3 DEF BellsInv, BellsTypeOK
  <2> QED BY <2>2, <2>3
<1> QED BY <1>4, <1>5

\* A tab mounts its bell, polls, opens the dialog and marks as read.
LEMMA TabKeeps ==
  ASSUME BellsInv, NEW d \in Tabs,
         \/ Unload(d) \/ ServeFeed(d) \/ FeedRead(d) \/ FeedFails(d)
         \/ OpenBell(d) \/ CloseBell(d) \/ MarkAll(d)
         \/ \E wide \in BOOLEAN : SwitchView(d, wide)
         \/ \E u \in Readers : MountBell(d, u)
  PROVE  BellsInv'
<1> USE BellsAssumption DEF BellsInv, BellsTypeOK
<1>0. UNCHANGED noticeVars
  BY DEF Unload, ServeFeed, FeedRead, FeedFails, OpenBell, SwitchView, CloseBell, MarkAll, MountBell
<1>s. /\ Visible' = Visible /\ late' = late
      /\ \A i : Released(i)' = Released(i)
      /\ \A S : Complete(S)' = Complete(S)
      /\ Inserted' = Inserted
  BY <1>0, TableStands
<1>1. CASE Unload(d)
  <2>1. BellsTypeOK'
    BY <1>1, <1>0 DEF Unload, noticeVars
  <2>2. MarksKnown' /\ FeedsComplete' /\ FeedsDisplayed'
    BY <1>1, <1>s DEF Unload, MarksKnown, FeedsComplete, FeedsDisplayed
  <2>3. ReadMeansShown'
    BY <1>1, <1>s DEF Unload, ReadMeansShown, WasShown
  <2> QED BY <1>s, <2>1, <2>2, <2>3
<1>2. CASE ServeFeed(d)
  <2>1. Complete(Newest(FeedLimit, Visible))
    BY NewestComplete
  <2>2. Newest(FeedLimit, Visible) \subseteq Ids
    BY DEF Newest, Visible
  <2> QED BY <1>2, <1>0, <1>s, <2>1, <2>2
        DEF ServeFeed, noticeVars, MarksKnown, FeedsComplete, FeedsDisplayed, ReadMeansShown, WasShown
<1>3. CASE FeedRead(d)
  <2>1. reader[d] \in Readers /\ polled[d] \in SUBSET Ids
    BY <1>3 DEF FeedRead, FeedsDisplayed
  <2>r. Rendered(timeline[d], polled[d]) \subseteq Ids
    BY <2>1 DEF Rendered, Newest
  <2>2. BellsTypeOK'
    <3>1. displayed' \in [Readers -> SUBSET Ids]
      BY <1>3, <2>1, <2>r DEF FeedRead, Offer
    <3> QED BY <1>3, <1>0, <2>1, <3>1 DEF FeedRead, noticeVars
  <2>3. MarksKnown' /\ FeedsComplete'
    BY <1>3, <1>s DEF FeedRead, MarksKnown, FeedsComplete
  <2>4. FeedsDisplayed'
    BY <1>3, <2>1 DEF FeedRead, Offer, FeedsDisplayed
  <2>5. ReadMeansShown'
    <3>1. \A u \in Readers : displayed'[u] \in SUBSET Ids /\ displayed[u] \subseteq displayed'[u]
      BY <1>3, <2>1, <2>r DEF FeedRead, Offer
    <3>2. \A u \in Readers, i \in Visible : WasShown(u, i) => WasShown(u, i)'
      BY <3>1, ShownStays
    <3> QED BY <1>3, <1>s, <3>2 DEF FeedRead, ReadMeansShown
  <2> QED BY <1>s, <2>2, <2>3, <2>4, <2>5
<1>4. CASE FeedFails(d)
  BY <1>4, <1>0, <1>s DEF FeedFails, noticeVars, MarksKnown, FeedsComplete, FeedsDisplayed,
                          ReadMeansShown, WasShown
<1>5. ASSUME NEW wide \in BOOLEAN,
             reader[d] \in Readers /\ Offer(d, wide, Items(d)) /\ UNCHANGED <<reader, feed, polled>>,
             timeline' \in {timeline, [timeline EXCEPT ![d] = wide]} /\ timeline'[d] = wide,
             bellOpen' \in {bellOpen, [bellOpen EXCEPT ![d] = TRUE]} /\ UNCHANGED <<seen, readMark>>
      PROVE  BellsInv'
  <2>1. Items(d) \in SUBSET Ids
    BY DEF Items
  <2>r. Rendered(wide, Items(d)) \subseteq Ids
    BY <2>1 DEF Rendered, Newest
  <2>2. displayed' \in [Readers -> SUBSET Ids]
    BY <1>5, <2>r DEF Offer
  <2>3. BellsTypeOK'
    BY <1>5, <1>0, <2>2 DEF noticeVars
  <2>4. MarksKnown' /\ FeedsComplete'
    BY <1>5, <1>s DEF MarksKnown, FeedsComplete
  <2>5. FeedsDisplayed'
    <3>1. ASSUME NEW e \in Tabs, bellOpen'[e], feed[e] # NoReader
          PROVE  Rendered(timeline'[e], feed[e]) \subseteq displayed'[reader[e]]
      <4>1. CASE e = d
        BY <1>5, <3>1, <4>1 DEF Offer, Items
      <4>2. CASE e # d
        BY <1>5, <3>1, <4>2 DEF Offer, FeedsDisplayed
      <4> QED BY <4>1, <4>2
    <3> QED BY <1>5, <3>1 DEF FeedsDisplayed
  <2>6. ReadMeansShown'
    <3>1. \A u \in Readers : displayed'[u] \in SUBSET Ids /\ displayed[u] \subseteq displayed'[u]
      BY <1>5, <2>2 DEF Offer
    <3>2. \A u \in Readers, i \in Visible : WasShown(u, i) => WasShown(u, i)'
      BY <3>1, ShownStays
    <3> QED BY <1>5, <1>s, <3>2 DEF ReadMeansShown
  <2> QED BY <1>s, <2>3, <2>4, <2>5, <2>6
<1>8. CASE OpenBell(d)
  <2>1. reader[d] \in Readers /\ Offer(d, timeline[d], Items(d))
    BY <1>8 DEF OpenBell
  <2>2. timeline' = timeline /\ bellOpen' = [bellOpen EXCEPT ![d] = TRUE]
    BY <1>8 DEF OpenBell
  <2>3. UNCHANGED <<reader, feed, polled, seen, readMark>>
    BY <1>8 DEF OpenBell
  <2> QED BY <1>5, <2>1, <2>2, <2>3
<1>9. ASSUME NEW wide \in BOOLEAN, SwitchView(d, wide) PROVE BellsInv'
  <2>1. reader[d] \in Readers /\ Offer(d, wide, Items(d))
    BY <1>9 DEF SwitchView, FeedsDisplayed
  <2>2. timeline' = [timeline EXCEPT ![d] = wide] /\ timeline'[d] = wide /\ bellOpen' = bellOpen
    BY <1>9 DEF SwitchView
  <2>3. UNCHANGED <<reader, feed, polled, seen, readMark>>
    BY <1>9 DEF SwitchView
  <2> QED BY <1>5, <2>1, <2>2, <2>3
<1>6. CASE CloseBell(d) \/ MarkAll(d)
  <2>1. /\ bellOpen[d] /\ MarkRead(d)
        /\ UNCHANGED <<noticeVars, reader, feed, polled, timeline, displayed>>
        /\ bellOpen' \in {bellOpen, [bellOpen EXCEPT ![d] = FALSE]}
    BY <1>6 DEF CloseBell, MarkAll
  <2>2. MarksKnown' /\ ReadMeansShown'
    BY <2>1, MarkedWasShown
  <2>3. seen' \in [Tabs -> 0 .. MaxId] /\ readMark' \in [Readers -> 0 .. MaxId]
    <3>1. reader[d] # NoReader /\ Items(d) \in SUBSET Ids
      BY <2>1 DEF FeedsDisplayed, Items
    <3>2. (IF Items(d) = {} THEN seen[d] ELSE Max(Items(d))) \in 0 .. MaxId
      <4>1. Items(d) # {} => Max(Items(d)) \in 1 .. MaxId
        BY <3>1, MaxIsGreatest DEF Ids
      <4>2. Items(d) # {} => Max(Items(d)) \in 0 .. MaxId
        BY <4>1
      <4>3. seen[d] \in 0 .. MaxId
        OBVIOUS
      <4> QED BY <4>2, <4>3
    <3> QED BY <2>1, <3>2 DEF MarkRead
  <2>4. \A e \in Tabs : reader[e] = NoReader => seen'[e] = seen[e]
    BY <2>1 DEF MarkRead, FeedsDisplayed
  <2>5. BellsTypeOK'
    BY <1>0, <2>1, <2>3, <2>4 DEF noticeVars
  <2>6. FeedsComplete' /\ FeedsDisplayed'
    BY <1>s, <2>1 DEF FeedsComplete, FeedsDisplayed
  <2> QED BY <1>s, <2>2, <2>5, <2>6
<1>7. ASSUME NEW u \in Readers, MountBell(d, u) PROVE BellsInv'
  <2>1. BellsTypeOK'
    BY <1>7, <1>0 DEF MountBell, noticeVars
  <2>2. MarksKnown' /\ FeedsComplete' /\ FeedsDisplayed'
    BY <1>7, <1>s DEF MountBell, MarksKnown, FeedsComplete, FeedsDisplayed
  <2>3. ReadMeansShown'
    BY <1>7, <1>s DEF MountBell, ReadMeansShown, WasShown
  <2> QED BY <1>s, <2>1, <2>2, <2>3
<1> QED BY <1>1, <1>2, <1>3, <1>4, <1>6, <1>7, <1>8, <1>9

-----------------------------------------------------------------------------
\* Marks are of what was published, feeds lack what is visible below their
\* newest only behind a front of newer ones, and an open dialog has shown what
\* it renders (BellsInv).
THEOREM BellsInvariance == BellsSpec => []BellsInv
<1>1. BellsInv /\ [BellsNext]_bellVars => BellsInv'
  <2> SUFFICES ASSUME BellsInv, [BellsNext]_bellVars PROVE BellsInv'
    OBVIOUS
  <2>1. CASE UNCHANGED bellVars
    BY <2>1 DEF bellVars, noticeVars, BellsInv, BellsTypeOK, Inserted, MarksKnown, Released,
                FeedsComplete, Complete, Fronted, Visible, FeedsDisplayed, ReadMeansShown, WasShown
  <2>2. CASE BellsNext
    BY <2>2, AdministerKeeps, TabKeeps DEF BellsNext
  <2> QED BY <2>1, <2>2
<1> QED BY <1>1, StartsRight, PTL DEF BellsSpec

\* No announcement counts as read of which neither it nor a front of newer ones
\* was shown (ReadMeansShown), whatever the tabs of a browser, their accounts and
\* the publishers do, and for any limit of the list and length of the front.
THEOREM NothingUnseen == BellsSpec => []ReadMeansShown
<1>1. BellsInv => ReadMeansShown
  BY DEF BellsInv
<1> QED BY <1>1, BellsInvariance, PTL

\* The type of the announcements and the bells.
THEOREM BellsTyped == BellsSpec => []BellsTypeOK
<1>1. BellsInv => BellsTypeOK
  BY DEF BellsInv
<1> QED BY <1>1, BellsInvariance, PTL

-----------------------------------------------------------------------------
(* Lists: the inductive invariant. *)

\* What is cached or on its way under a key is for that key.
Keyed ==
  \A q \in Query :
    /\ cached[q] # Nothing => cached[q].for = q
    /\ fetching[q].stage # "none" => fetching[q].for = q

\* An answer on its way is newer than the saves that were answered, or was overtaken.
AnswersNew ==
  \A q \in Query : fetching[q].stage = "answered" =>
    fetching[q].edition >= own[q.table] \/ q \in overtaken

\* What is cached is, too, unless it was invalidated.
CacheNew ==
  \A q \in Query : cached[q] # Nothing /\ fetching[q].stage = "none" =>
    cached[q].edition >= own[q.table] \/ q \in broken \cup overtaken \cup invalid

\* The key that is shown is read when it is invalidated.
ShownRead ==
  cached[at] # Nothing /\ fetching[at].stage = "none" /\ at \in invalid => at \in broken \cup overtaken

\* What a save has written is in the table.
SaveWritten ==
  /\ \A t \in Tables : own[t] <= edition[t]
  /\ saving # Nothing => saving.wrote <= edition[saving.table]

\* What a component keeps is of its list.
KeptIsOwn ==
  /\ previous # Nothing => previous.table = at.table /\ cached[previous] # Nothing
  /\ dialog # Nothing => dialog.table = at.table

\* The types of the variables one by one.
ListTypes ==
  /\ edition \in [Tables -> 0 .. MaxEdition]
  /\ at \in Query /\ typed \in Filters
  /\ cached \in [Query -> Result \cup {Nothing}]
  /\ fetching \in [Query -> Fetching]
  /\ invalid \subseteq Query /\ broken \subseteq Query /\ overtaken \subseteq Query
  /\ previous \in Query \cup {Nothing}
  /\ dialog \in Dialog \cup {Nothing}
  /\ saving \in Saving \cup {Nothing}
  /\ own \in [Tables -> 0 .. MaxEdition]
  /\ requests \in 0 .. MaxRequests

ListsInv ==
  /\ ListTypes /\ Keyed /\ AnswersNew /\ CacheNew /\ ShownRead /\ SaveWritten /\ KeptIsOwn

USE ListsAssumption, NothingAssumption DEF KeyOf, NoFetching, Asked, Fetching

\* A read that is begun for a key will be newer than what is known of it.
LEMMA AskKeeps ==
  ASSUME ListsInv, NEW q \in Query, Ask(q), UNCHANGED <<edition, cached, invalid, own>>
  PROVE  /\ at' = q /\ fetching' \in [Query -> Fetching]
         /\ broken' \subseteq Query /\ overtaken' \subseteq Query
         /\ Keyed' /\ AnswersNew' /\ CacheNew' /\ ShownRead'
<1> USE DEF ListsInv, Ask
<1>1. at' = q /\ broken' \subseteq Query /\ overtaken' \subseteq Query
  BY DEF ListTypes
<1>2. fetching' \in [Query -> Fetching]
  BY DEF ListTypes
<1>3. Keyed'
  BY DEF Keyed, ListTypes
<1>4. AnswersNew'
  BY DEF AnswersNew, ListTypes
<1>5. CacheNew'
  BY DEF CacheNew, ListTypes
<1>6. ShownRead'
  BY DEF ShownRead, CacheNew, ListTypes
<1> QED BY <1>1, <1>2, <1>3, <1>4, <1>5, <1>6

\* The user asks for the rows again.
LEMMA RefreshKeeps ==
  ASSUME ListsInv, Refresh
  PROVE  ListsInv'
<1> USE DEF ListsInv, Refresh
<1>1. ListTypes'
  BY DEF ListTypes
<1>2. Keyed'
  BY DEF Keyed, ListTypes
<1>3. AnswersNew'
  BY DEF AnswersNew, ListTypes
<1>4. CacheNew'
  BY DEF CacheNew, ListTypes
<1>5. ShownRead'
  BY DEF ShownRead, CacheNew, ListTypes
<1>6. SaveWritten'
  BY DEF SaveWritten, ListTypes
<1>7. KeptIsOwn'
  BY DEF KeptIsOwn, ListTypes
<1> QED BY <1>1, <1>2, <1>3, <1>4, <1>5, <1>6, <1>7

\* The answer of the server has the table as it is.
LEMMA ServePageKeeps ==
  ASSUME ListsInv, NEW k \in Query, ServePage(k)
  PROVE  ListsInv'
<1> USE DEF ListsInv, ServePage
<1>1. ListTypes'
  <2>1. fetching[k] \in Fetching /\ fetching[k].stage = "asked" /\ fetching[k].for = k
    BY DEF ListTypes, Keyed
  <2>2. k.table \in Tables /\ edition[k.table] \in Nat
    BY DEF ListTypes, Query
  <2>3. [stage |-> "answered", for |-> k, edition |-> edition[k.table]] \in Fetching
    BY <2>2
  <2>4. fetching' \in [Query -> Fetching]
    BY <2>1, <2>3 DEF ListTypes
  <2> QED BY <2>4 DEF ListTypes
<1>2. Keyed'
  BY DEF Keyed, ListTypes
<1>3. AnswersNew'
  <2> SUFFICES ASSUME NEW q \in Query, fetching'[q].stage = "answered"
               PROVE  fetching'[q].edition >= own[q.table] \/ q \in overtaken
    BY DEF AnswersNew
  <2>1. CASE q = k
    <3>1. k.table \in Tables /\ edition[k.table] \in Nat /\ own[k.table] \in Nat /\ own[k.table] <= edition[k.table]
      BY DEF ListTypes, Query, SaveWritten
    <3>2. fetching'[k].edition = edition[k.table]
      BY DEF ListTypes, Keyed
    <3> QED BY <2>1, <3>1, <3>2
  <2>2. CASE q # k
    BY <2>2 DEF AnswersNew, ListTypes
  <2> QED BY <2>1, <2>2
<1>4. CacheNew'
  BY DEF CacheNew, ListTypes
<1>5. ShownRead'
  BY DEF ShownRead, CacheNew, ListTypes
<1>6. SaveWritten'
  BY DEF SaveWritten, ListTypes
<1>7. KeptIsOwn'
  BY DEF KeptIsOwn, ListTypes
<1> QED BY <1>1, <1>2, <1>3, <1>4, <1>5, <1>6, <1>7

\* An answer is cached under its own key.
LEMMA PageReadKeeps ==
  ASSUME ListsInv, NEW k \in Query, PageRead(k)
  PROVE  ListsInv'
<1> USE DEF ListsInv, PageRead
<1>a. /\ fetching[k] \in Fetching /\ fetching[k].stage = "answered"
      /\ fetching[k].for = k /\ fetching[k].edition \in Nat
  BY DEF ListTypes, Keyed
<1>b. PICK n \in Result : n = [for |-> k, edition |-> fetching[k].edition]
  BY <1>a DEF Result
<1>c. n # Nothing /\ n.for = k /\ n.edition = fetching[k].edition
  BY <1>b
<1>d. cached' = [cached EXCEPT ![k] = n] /\ fetching' = [fetching EXCEPT ![k] = NoFetching]
  BY <1>a, <1>b
<1>1. ListTypes'
  <2>1. cached' \in [Query -> Result \cup {Nothing}]
    BY <1>d DEF ListTypes
  <2>2. fetching' \in [Query -> Fetching]
    BY DEF ListTypes
  <2> QED BY <2>1, <2>2 DEF ListTypes
<1>2. Keyed'
  BY DEF Keyed, ListTypes
<1>3. AnswersNew'
  BY DEF AnswersNew, ListTypes
<1>4. CacheNew'
  <2> SUFFICES ASSUME NEW q \in Query, cached'[q] # Nothing, fetching'[q].stage = "none"
               PROVE  cached'[q].edition >= own[q.table] \/ q \in broken' \cup overtaken \cup invalid'
    BY DEF CacheNew
  <2>1. CASE q = k
    BY <1>a, <1>c, <1>d, <2>1 DEF AnswersNew, ListTypes
  <2>2. CASE q # k
    BY <1>d, <2>2 DEF CacheNew, ListTypes
  <2> QED BY <2>1, <2>2
<1>5. ShownRead'
  BY DEF ShownRead, CacheNew, ListTypes
<1>6. SaveWritten'
  BY DEF SaveWritten, ListTypes
<1>7. KeptIsOwn'
  <2>1. \A q \in Query : cached[q] # Nothing => cached'[q] # Nothing
    BY <1>c, <1>d DEF ListTypes
  <2> QED BY <2>1 DEF KeptIsOwn, ListTypes
<1> QED BY <1>1, <1>2, <1>3, <1>4, <1>5, <1>6, <1>7

\* A failed read leaves the older rows, marked as broken.
LEMMA PageFailsKeeps ==
  ASSUME ListsInv, NEW k \in Query, PageFails(k)
  PROVE  ListsInv'
<1> USE DEF ListsInv, PageFails
<1>1. ListTypes'
  BY DEF ListTypes
<1>2. Keyed'
  BY DEF Keyed, ListTypes
<1>3. AnswersNew'
  BY DEF AnswersNew, ListTypes
<1>4. CacheNew'
  BY DEF CacheNew, ListTypes
<1>5. ShownRead'
  BY DEF ShownRead, CacheNew, ListTypes
<1>6. SaveWritten'
  BY DEF SaveWritten, ListTypes
<1>7. KeptIsOwn'
  BY DEF KeptIsOwn, ListTypes
<1> QED BY <1>1, <1>2, <1>3, <1>4, <1>5, <1>6, <1>7

\* A dialog opens for a row of the list that is shown.
LEMMA OpenRowKeeps ==
  ASSUME ListsInv, OpenRow
  PROVE  ListsInv'
<1> USE DEF ListsInv, OpenRow, Shown
<1>1. ListTypes'
  <2>1. Shown \in Result
    BY DEF Shown, ListTypes, KeptIsOwn
  <2>2. Shown.edition \in Nat /\ at.table \in Tables
    BY <2>1 DEF Result, ListTypes, Query
  <2>3. PICK filled \in BOOLEAN :
          dialog' = [table |-> at.table, edition |-> Shown.edition, ready |-> filled]
    OBVIOUS
  <2>4. dialog' \in Dialog
    BY <2>2, <2>3 DEF Dialog
  <2> QED BY <2>4 DEF ListTypes
<1>2. Keyed'
  BY DEF Keyed, ListTypes
<1>3. AnswersNew'
  BY DEF AnswersNew, ListTypes
<1>4. CacheNew'
  BY DEF CacheNew, ListTypes
<1>5. ShownRead'
  BY DEF ShownRead, CacheNew, ListTypes
<1>6. SaveWritten'
  BY DEF SaveWritten, ListTypes
<1>7. KeptIsOwn'
  BY DEF KeptIsOwn, ListTypes
<1> QED BY <1>1, <1>2, <1>3, <1>4, <1>5, <1>6, <1>7

\* A dialog that is filled in is of the same row.
LEMMA EditRowKeeps ==
  ASSUME ListsInv, EditRow
  PROVE  ListsInv'
<1> USE DEF ListsInv, EditRow
<1>a. dialog \in Dialog /\ dialog.table = at.table
  BY DEF ListTypes, KeptIsOwn
<1>b. dialog' \in Dialog /\ dialog'.table = at.table
  BY <1>a DEF Dialog
<1>1. ListTypes'
  BY <1>b DEF ListTypes
<1>2. Keyed' /\ AnswersNew' /\ CacheNew' /\ ShownRead'
  BY DEF Keyed, AnswersNew, CacheNew, ShownRead, ListTypes
<1>3. SaveWritten'
  BY DEF SaveWritten, ListTypes
<1>4. KeptIsOwn'
  BY <1>b DEF KeptIsOwn, ListTypes
<1> QED BY <1>1, <1>2, <1>3, <1>4

\* A dialog closes.
LEMMA CloseRowKeeps ==
  ASSUME ListsInv, CloseRow
  PROVE  ListsInv'
<1> USE DEF ListsInv, CloseRow
<1>1. ListTypes'
  BY DEF ListTypes
<1>2. Keyed'
  BY DEF Keyed, ListTypes
<1>3. AnswersNew'
  BY DEF AnswersNew, ListTypes
<1>4. CacheNew'
  BY DEF CacheNew, ListTypes
<1>5. ShownRead'
  BY DEF ShownRead, CacheNew, ListTypes
<1>6. SaveWritten'
  BY DEF SaveWritten, ListTypes
<1>7. KeptIsOwn'
  BY DEF KeptIsOwn, ListTypes
<1> QED BY <1>1, <1>2, <1>3, <1>4, <1>5, <1>6, <1>7

\* A dialog sends its row, or a notice is marked.
LEMMA SendKeeps ==
  ASSUME ListsInv, Send
  PROVE  ListsInv'
<1> USE DEF ListsInv, Send
<1>1. ListTypes'
  <2>1. saving' \in Saving
    BY DEF ListTypes, Saving, Query
  <2> QED BY <2>1 DEF ListTypes
<1>2. Keyed'
  BY DEF Keyed, ListTypes
<1>3. AnswersNew'
  BY DEF AnswersNew, ListTypes
<1>4. CacheNew'
  BY DEF CacheNew, ListTypes
<1>5. ShownRead'
  BY DEF ShownRead, CacheNew, ListTypes
<1>6. SaveWritten'
  <2>1. at.table \in Tables /\ edition[at.table] \in Nat
    BY DEF ListTypes, Query
  <2> QED BY <2>1 DEF SaveWritten
<1>7. KeptIsOwn'
  BY DEF KeptIsOwn, ListTypes
<1> QED BY <1>1, <1>2, <1>3, <1>4, <1>5, <1>6, <1>7

\* The server writes the row.
LEMMA ServeRowKeeps ==
  ASSUME ListsInv, ServeRow
  PROVE  ListsInv'
<1> USE DEF ListsInv, ServeRow, Change
<1>1. ListTypes'
  <2>1. saving \in Saving /\ saving.table \in Tables /\ edition[saving.table] \in 0 .. MaxEdition
    BY DEF ListTypes, Saving
  <2>2. saving' \in Saving
    <3>1. PICK n \in Nat : n = edition[saving.table] + 1
      BY <2>1
    <3>2. saving' = [saving EXCEPT !.stage = "done", !.wrote = n]
      BY <3>1
    <3> QED BY <2>1, <3>2 DEF Saving
  <2>3. edition' \in [Tables -> 0 .. MaxEdition]
    BY <2>1 DEF ListTypes
  <2> QED BY <2>2, <2>3 DEF ListTypes
<1>2. Keyed'
  BY DEF Keyed, ListTypes
<1>3. AnswersNew'
  BY DEF AnswersNew, ListTypes
<1>4. CacheNew'
  BY DEF CacheNew, ListTypes
<1>5. ShownRead'
  BY DEF ShownRead, CacheNew, ListTypes
<1>6. SaveWritten'
  <2>1. saving \in Saving /\ saving.table \in Tables /\ edition[saving.table] \in Nat
    BY DEF ListTypes, Saving
  <2>2. saving'.table = saving.table /\ saving'.wrote = edition[saving.table] + 1
    BY <2>1 DEF Saving
  <2>3. edition'[saving.table] = edition[saving.table] + 1
    BY <2>1 DEF ListTypes
  <2>4. \A t \in Tables : own[t] \in Nat /\ edition[t] \in Nat /\ edition'[t] \in {edition[t], edition[t] + 1}
    BY <2>1 DEF ListTypes
  <2> QED BY <2>1, <2>2, <2>3, <2>4 DEF SaveWritten
<1>7. KeptIsOwn'
  BY DEF KeptIsOwn, ListTypes
<1> QED BY <1>1, <1>2, <1>3, <1>4, <1>5, <1>6, <1>7

\* A save that was answered invalidates the pages of its list.
LEMMA RowSavedKeeps ==
  ASSUME ListsInv, RowSaved
  PROVE  ListsInv'
<1> USE DEF ListsInv, RowSaved, Invalidate
<1>a. saving \in Saving /\ saving.table \in Tables
  BY DEF ListTypes, Saving
<1>b. saving.wrote \in 0 .. MaxEdition /\ saving.wrote <= edition[saving.table]
  BY <1>a DEF ListTypes, SaveWritten, Saving
<1>1. ListTypes'
  <2>1. own' \in [Tables -> 0 .. MaxEdition]
    BY <1>a, <1>b DEF ListTypes
  <2>2. saving' \in Saving \cup {Nothing}
    BY <1>a DEF Saving, ListTypes
  <2>3. fetching' \in [Query -> Fetching]
    BY DEF ListTypes
  <2>4. dialog' \in Dialog \cup {Nothing}
    BY DEF ListTypes
  <2>5. invalid' \subseteq Query /\ broken' \subseteq Query /\ overtaken' \subseteq Query
    BY DEF ListTypes
  <2> QED BY <2>1, <2>2, <2>3, <2>4, <2>5 DEF ListTypes
<1>2. Keyed'
  BY DEF Keyed, ListTypes
<1>3. AnswersNew'
  BY DEF AnswersNew, ListTypes
<1>4. CacheNew'
  BY DEF CacheNew, ListTypes
<1>5. ShownRead'
  BY DEF ShownRead, CacheNew, ListTypes
<1>6. SaveWritten'
  <2>1. \A t \in Tables : own'[t] <= edition[t]
    BY <1>a, <1>b DEF ListTypes, SaveWritten
  <2>2. saving' # Nothing => saving'.table = saving.table /\ saving'.wrote = saving.wrote
    BY <1>a DEF Saving
  <2> QED BY <1>b, <2>1, <2>2 DEF SaveWritten
<1>7. KeptIsOwn'
  BY DEF KeptIsOwn, ListTypes
<1> QED BY <1>1, <1>2, <1>3, <1>4, <1>5, <1>6, <1>7

\* A save is over when its list has been read.
LEMMA RowSettledKeeps ==
  ASSUME ListsInv, RowSettled
  PROVE  ListsInv'
<1> USE DEF ListsInv, RowSettled
<1>1. ListTypes'
  BY DEF ListTypes
<1>2. Keyed'
  BY DEF Keyed, ListTypes
<1>3. AnswersNew'
  BY DEF AnswersNew, ListTypes
<1>4. CacheNew'
  BY DEF CacheNew, ListTypes
<1>5. ShownRead'
  BY DEF ShownRead, CacheNew, ListTypes
<1>6. SaveWritten'
  BY DEF SaveWritten, ListTypes
<1>7. KeptIsOwn'
  BY DEF KeptIsOwn, ListTypes
<1> QED BY <1>1, <1>2, <1>3, <1>4, <1>5, <1>6, <1>7

\* A failed save is told and changes nothing cached.
LEMMA RowFailsKeeps ==
  ASSUME ListsInv, RowFails
  PROVE  ListsInv'
<1> USE DEF ListsInv, RowFails
<1>1. ListTypes'
  BY DEF ListTypes
<1>2. Keyed'
  BY DEF Keyed, ListTypes
<1>3. AnswersNew'
  BY DEF AnswersNew, ListTypes
<1>4. CacheNew'
  BY DEF CacheNew, ListTypes
<1>5. ShownRead'
  BY DEF ShownRead, CacheNew, ListTypes
<1>6. SaveWritten'
  BY DEF SaveWritten, ListTypes
<1>7. KeptIsOwn'
  BY DEF KeptIsOwn, ListTypes
<1> QED BY <1>1, <1>2, <1>3, <1>4, <1>5, <1>6, <1>7

\* A write of anyone else is in the table and in nothing cached.
LEMMA OtherKeeps ==
  ASSUME ListsInv, NEW t \in Tables, Other(t)
  PROVE  ListsInv'
<1> USE DEF ListsInv, Other, Change
<1>1. ListTypes'
  BY DEF ListTypes
<1>2. Keyed'
  BY DEF Keyed, ListTypes
<1>3. AnswersNew'
  BY DEF AnswersNew, ListTypes
<1>4. CacheNew'
  BY DEF CacheNew, ListTypes
<1>5. ShownRead'
  BY DEF ShownRead, CacheNew, ListTypes
<1>6. SaveWritten'
  <2>1. \A s \in Tables : own[s] \in Nat /\ edition[s] \in Nat /\ edition'[s] \in {edition[s], edition[s] + 1}
    BY DEF ListTypes
  <2>2. saving # Nothing => saving.table \in Tables /\ saving.wrote \in Nat
    BY DEF ListTypes, Saving
  <2> QED BY <2>1, <2>2 DEF SaveWritten
<1>7. KeptIsOwn'
  BY DEF KeptIsOwn, ListTypes
<1> QED BY <1>1, <1>2, <1>3, <1>4, <1>5, <1>6, <1>7

\* Another list keeps nothing of the one that was left.
LEMMA NavigateKeeps ==
  ASSUME ListsInv, NEW t \in Tables, Navigate(t)
  PROVE  ListsInv'
<1>1. Opened(t) \in Query
  BY DEF Opened, Query, Pages
<1>2. /\ Ask(Opened(t)) /\ UNCHANGED <<edition, cached, invalid, own>>
      /\ requests < MaxRequests /\ requests' = requests + 1 /\ typed' = NoFilter
      /\ previous' = Nothing /\ dialog' = Nothing
      /\ saving' = IF saving = Nothing THEN Nothing ELSE [saving EXCEPT !.here = FALSE]
  BY DEF Navigate
<1>3. /\ at' = Opened(t) /\ fetching' \in [Query -> Fetching]
      /\ broken' \subseteq Query /\ overtaken' \subseteq Query
      /\ Keyed' /\ AnswersNew' /\ CacheNew' /\ ShownRead'
  BY <1>1, <1>2, AskKeeps
<1>4. saving # Nothing => /\ [saving EXCEPT !.here = FALSE] \in Saving
                          /\ [saving EXCEPT !.here = FALSE].table = saving.table
                          /\ [saving EXCEPT !.here = FALSE].wrote = saving.wrote
  BY DEF ListsInv, ListTypes, Saving
<1>5. ListTypes'
  <2>1. saving' \in Saving \cup {Nothing}
    BY <1>2, <1>4
  <2>2. requests' \in 0 .. MaxRequests
    BY <1>2 DEF ListsInv, ListTypes
  <2> QED BY <1>1, <1>2, <1>3, <2>1, <2>2 DEF ListsInv, ListTypes
<1>6. SaveWritten'
  BY <1>2, <1>4 DEF ListsInv, SaveWritten
<1>7. KeptIsOwn'
  BY <1>2 DEF KeptIsOwn
<1> QED BY <1>3, <1>5, <1>6, <1>7 DEF ListsInv

\* Another query of the same list.
LEMMA MoveKeeps ==
  ASSUME ListsInv, NEW q \in Query, Ask(q), q.table = at.table, dialog = Nothing,
         requests < MaxRequests, requests' = requests + 1, Keep, typed' \in Filters,
         UNCHANGED <<edition, cached, invalid, dialog, saving, own>>
  PROVE  ListsInv'
<1>1. /\ at' = q /\ fetching' \in [Query -> Fetching]
      /\ broken' \subseteq Query /\ overtaken' \subseteq Query
      /\ Keyed' /\ AnswersNew' /\ CacheNew' /\ ShownRead'
  BY AskKeeps
<1>2. previous' \in Query \cup {Nothing} /\ requests' \in 0 .. MaxRequests
  BY DEF ListsInv, ListTypes, Keep
<1>3. ListTypes'
  BY <1>1, <1>2 DEF ListsInv, ListTypes
<1>4. SaveWritten'
  BY DEF ListsInv, SaveWritten
<1>5. KeptIsOwn'
  BY <1>1 DEF ListsInv, ListTypes, KeptIsOwn, Keep
<1> QED BY <1>1, <1>3, <1>4, <1>5 DEF ListsInv

\* Another page of the list keeps the rows that were shown last.
LEMMA TurnKeeps ==
  ASSUME ListsInv, Turn
  PROVE  ListsInv'
<1>1. PICK p \in Pages : Ask([at EXCEPT !.page = p])
  BY DEF Turn
<1>2. [at EXCEPT !.page = p] \in Query /\ [at EXCEPT !.page = p].table = at.table
  BY DEF ListsInv, ListTypes, Query
<1>3. typed' \in Filters
  BY DEF Turn, ListsInv, ListTypes
<1> QED BY <1>1, <1>2, <1>3, MoveKeeps DEF Turn

\* What is typed is not read.
LEMMA TypeKeeps ==
  ASSUME ListsInv, NEW f \in Filters, Type(f)
  PROVE  ListsInv'
  BY DEF Type, ListsInv, ListTypes, Keyed, AnswersNew, CacheNew, ShownRead, SaveWritten, KeptIsOwn

\* Another filter is read like another page.
LEMMA SelectKeeps ==
  ASSUME ListsInv, NEW f \in Filters, Select(f), typed' \in Filters
  PROVE  ListsInv'
<1>1. 1 \in Pages
  BY DEF Pages
<1>2. at \in Query
  BY DEF ListsInv, ListTypes
<1>3. /\ [at EXCEPT !.page = 1, !.filter = f] \in Query
      /\ [at EXCEPT !.page = 1, !.filter = f].table = at.table
  BY <1>1, <1>2 DEF Query
<1> QED BY <1>3, MoveKeeps DEF Select

-----------------------------------------------------------------------------

\* In the beginning nothing is cached.
LEMMA ListsStart == ListsInit => ListsInv
<1> SUFFICES ASSUME ListsInit PROVE ListsInv
  OBVIOUS
<1>1. PICK t \in Tables :
        /\ at = Opened(t)
        /\ fetching = [q \in Query |-> IF q = KeyOf(Opened(t)) THEN Asked(Opened(t)) ELSE NoFetching]
  BY DEF ListsInit
<1>2. Opened(t) \in Query
  BY DEF Opened, Query, Pages
<1>3. ListTypes
  <2>1. fetching \in [Query -> Fetching]
    BY <1>1, <1>2
  <2>2. 0 \in 0 .. MaxEdition /\ 0 \in 0 .. MaxRequests
    OBVIOUS
  <2> QED BY <1>1, <1>2, <2>1, <2>2 DEF ListsInit, ListTypes
<1>4. Keyed /\ AnswersNew
  BY <1>1, <1>2 DEF ListsInit, Keyed, AnswersNew
<1>5. CacheNew /\ ShownRead
  BY <1>1, <1>2 DEF ListsInit, CacheNew, ShownRead
<1>6. SaveWritten /\ KeptIsOwn
  BY DEF ListsInit, SaveWritten, KeptIsOwn
<1> QED BY <1>3, <1>4, <1>5, <1>6 DEF ListsInv

\* Every step of the page and of the server keeps the invariant.
LEMMA ListsKeep == ListsInv /\ [ListsNext]_listsVars => ListsInv'
<1> SUFFICES ASSUME ListsInv, [ListsNext]_listsVars PROVE ListsInv'
  OBVIOUS
<1>1. ASSUME NEW t \in Tables, Navigate(t) \/ Other(t) PROVE ListsInv'
  BY <1>1, NavigateKeeps, OtherKeeps
<1>2. ASSUME NEW f \in Filters, Type(f) \/ Choose(f) PROVE ListsInv'
  <2>1. typed \in Filters
    BY DEF ListsInv, ListTypes
  <2> QED BY <1>2, <2>1, TypeKeeps, SelectKeeps DEF Choose
<1>3. ASSUME NEW k \in Query, ServePage(k) \/ PageRead(k) \/ PageFails(k) PROVE ListsInv'
  BY <1>3, ServePageKeeps, PageReadKeeps, PageFailsKeeps
<1>4. CASE Turn \/ Apply \/ Refresh \/ OpenRow \/ EditRow \/ CloseRow
  <2>1. typed \in Filters
    BY DEF ListsInv, ListTypes
  <2> QED BY <1>4, <2>1, TurnKeeps, SelectKeeps, RefreshKeeps, OpenRowKeeps, EditRowKeeps, CloseRowKeeps
       DEF Apply
<1>5. CASE SaveRow \/ Mark \/ ServeRow \/ RowSaved \/ RowSettled \/ RowFails
  BY <1>5, SendKeeps, ServeRowKeeps, RowSavedKeeps, RowSettledKeeps, RowFailsKeeps
     DEF SaveRow, Mark
<1>6. CASE UNCHANGED listsVars
  BY <1>6 DEF listsVars, ListsInv, ListTypes, Keyed, AnswersNew, CacheNew, ShownRead, SaveWritten, KeptIsOwn
<1> QED BY <1>1, <1>2, <1>3, <1>4, <1>5, <1>6 DEF ListsNext

(* The inductive invariant holds for any number of lists, filters, pages and  *)
(* changes.                                                                   *)
THEOREM ListsInvariance == ListsSpec => []ListsInv
BY ListsStart, ListsKeep, PTL DEF ListsSpec

(* The type invariant: what a page keeps and holds in a dialog is of its own  *)
(* list.                                                                      *)
THEOREM ListsTyped == ListsSpec => []ListsTypeOK
<1>1. ListsInv => ListsTypeOK
  BY DEF ListsInv, ListTypes, SaveWritten, KeptIsOwn, ListsTypeOK
<1> QED BY <1>1, ListsInvariance, PTL

(* Rows that stand are those of the page and filter selected, in whatever     *)
(* order the answers came, and are as new as the saves that were answered     *)
(* unless an error or an overtaken read says otherwise.                       *)
THEOREM RowsAreCurrent == ListsSpec => []RowsCurrent
<1>1. ListsInv => RowsCurrent
  BY DEF ListsInv, ListTypes, Keyed, CacheNew, ShownRead, RowsCurrent
<1> QED BY <1>1, ListsInvariance, PTL
HIDE DEF KeyOf, NoFetching, Asked, Fetching
HIDE NothingAssumption
HIDE ListsAssumption

-----------------------------------------------------------------------------
(* Mail settings: the inductive invariant. *)

\* A copy of the mailbox, read when there were c.at writes, is still right if
\* all that came since were changes to its own address.
Follows(c) ==
  /\ c.at <= Len(writes)
  /\ (\A w \in c.at + 1 .. Len(writes) : writes[w].kind = "change" /\ writes[w].email = c.email)
       => mailbox.email = c.email /\ mailbox.verified = c.verified
CopiesFollow ==
  \A d \in Views :
    /\ known[d] # Empty => Follows(known[d])
    /\ reading[d] # Empty => Follows(reading[d])
    /\ known[d] # Empty /\ reading[d] # Empty /\ known[d].at = reading[d].at =>
         known[d].email = reading[d].email /\ known[d].verified = reading[d].verified

\* The last write left the address that is stored.
LastWritten == Len(writes) > 0 => writes[Len(writes)].email = mailbox.email

\* A task knows the write it has made.
WritesKnown ==
  \A i \in Tasks : task[i] # NotBegun =>
    /\ task[i].at <= Len(writes)
    /\ task[i].step \in {"saved", "changed", "reread"} => task[i].at # 0
    /\ task[i].at # 0 => writes[task[i].at].view = task[i].view
    /\ task[i].step = "changed" => writes[task[i].at].kind = "change"
    /\ task[i].step = "saved" => writes[task[i].at].kind # "change"
    /\ task[i].step = "reread" => writes[task[i].at].kind # "change" /\ writes[task[i].at].told

\* A save a tab was told of is in all it reads afterwards.
Heard(d, w) == writes[w].view = d /\ writes[w].told /\ writes[w].kind # "change"
HeardIsRead ==
  \A d \in Views :
    /\ known[d] # Empty =>
         \A w \in known[d].at + 1 .. Len(writes) :
           Heard(d, w) => (\E i \in Tasks : Rereads(d, i) /\ task[i].at = w)
    /\ reading[d] # Empty =>
         \A w \in reading[d].at + 1 .. Len(writes) : ~ Heard(d, w)

\* The address in the form is the one that was read, or something was written since.
Backed(d) == sheet[d].email = known[d].email \/ known[d].at < Len(writes)
\* What a form waits for is a task of its own that is not over and has written, if
\* it has, after what the form was made from was read.
FormsWait ==
  \A d \in Views : sheet[d] # Empty =>
    /\ visible[d] /\ known[d] # Empty
    /\ sheet[d].codeSent => Backed(d)
    /\ \A i \in Tasks : sheet[d].busy = i =>
         /\ task[i] # NotBegun /\ task[i].step # "over" /\ task[i].view = d
         /\ task[i].step \in {"saved", "changed", "reread"} => known[d].at < task[i].at
         /\ task[i].step \in {"send", "sent"} => Backed(d)

\* The types of the variables one by one.
SettingTypes ==
  /\ mailbox \in Mailbox
  /\ writes \in Seq(Write)
  /\ codeFor \in Address
  /\ known \in [Views -> Known \cup {Empty}]
  /\ reading \in [Views -> Known \cup {Empty}]
  /\ visible \in [Views -> BOOLEAN]
  /\ sheet \in [Views -> Sheet \cup {Empty}]
  /\ task \in [Tasks -> Task \cup {NotBegun}]

SettingsInv ==
  /\ SettingTypes /\ CopiesFollow /\ LastWritten /\ WritesKnown /\ HeardIsRead /\ FormsWait

USE MailSettingsAssumption DEF NotBegun, Task, Known, Sheet, Mailbox

\* A write is added after those there were.
LEMMA Appended ==
  ASSUME SettingTypes, NEW e \in Write, writes' = Append(writes, e)
  PROVE  /\ Len(writes) \in Nat /\ Len(writes') = Len(writes) + 1
         /\ writes' \in Seq(Write)
         /\ \A w \in 1 .. Len(writes) : writes'[w] = writes[w]
         /\ writes'[Len(writes) + 1] = e
<1>1. writes \in Seq(Write)
  BY DEF SettingTypes
<1> HIDE DEF Write
<1> QED BY <1>1

\* A step of a task that writes nothing and no form has waited for longer.
LEMMA GoesKeeps ==
  ASSUME SettingsInv, NEW i \in Tasks, NEW step \in {"sent", "failed"}, Goes(i, step),
         task[i].step \in {"save", "change", "send", "verify", "saved", "changed", "sent"},
         step = "sent" => task[i].step = "send",
         codeFor' \in Address, UNCHANGED <<mailbox, writes, known, reading, visible, sheet>>
  PROVE  SettingsInv'
<1>a. task[i] \in Task
  BY DEF SettingsInv, SettingTypes
<1>1. PICK f \in Task : f = [task[i] EXCEPT !.step = step]
  BY <1>a
<1>2. f.step = step /\ f.view = task[i].view /\ f.at = task[i].at /\ f # NotBegun
  BY <1>1 DEF SettingsInv, SettingTypes
<1>3. task' = [task EXCEPT ![i] = f]
  BY <1>1 DEF SettingsInv, SettingTypes, Goes
<1>4. \A j \in Tasks : task'[j] = IF j = i THEN f ELSE task[j]
  BY <1>3 DEF SettingsInv, SettingTypes
<1>5. task[i] \in Task
  BY <1>a
<1> USE DEF SettingsInv
<1>6. SettingTypes'
  BY <1>3 DEF SettingTypes
<1>7. CopiesFollow' /\ LastWritten'
  BY DEF CopiesFollow, Follows, LastWritten
<1>8. WritesKnown'
  BY <1>2, <1>4, <1>5 DEF WritesKnown
<1>9. HeardIsRead'
  <2>1. \A d \in Views, j \in Tasks : Rereads(d, j) => Rereads(d, j)' /\ task'[j].at = task[j].at
    BY <1>2, <1>4 DEF Rereads
  <2> QED BY <2>1 DEF HeardIsRead, Heard
<1>10. FormsWait'
  BY <1>2, <1>4, <1>5 DEF FormsWait, Backed
<1> QED BY <1>6, <1>7, <1>8, <1>9, <1>10

\* A write: it is after all that was read, and nobody was told of it.
LEMMA WroteKeeps ==
  ASSUME SettingsInv, NEW i \in Tasks, NEW step \in {"saved", "changed"}, NEW m \in Mailbox,
         task[i].step \in {"save", "change", "verify"},
         step = "changed" <=> task[i].step = "change",
         mailbox' = m, Wrote(i, step, m.email),
         step = "changed" /\ m.email = mailbox.email => m.verified = mailbox.verified,
         codeFor' \in Address, UNCHANGED <<known, reading, visible, sheet>>
  PROVE  SettingsInv'
<1>1. task[i] \in Task /\ Len(writes) \in Nat
  BY DEF SettingsInv, SettingTypes
<1>2. PICK e \in Write :
        e = [view |-> task[i].view, kind |-> task[i].step, email |-> m.email, told |-> FALSE]
  BY <1>1 DEF Write
<1>3. e.view = task[i].view /\ e.kind = task[i].step /\ e.email = m.email /\ e.told = FALSE
  BY <1>2
<1>4. PICK f \in Task : f = [task[i] EXCEPT !.step = step, !.at = Len(writes) + 1]
  <2>1. PICK n \in Nat : n = Len(writes) + 1
    BY <1>1
  <2>2. [task[i] EXCEPT !.step = step, !.at = n] \in Task
    BY <1>1
  <2> QED BY <2>1, <2>2
<1>5. f.step = step /\ f.view = task[i].view /\ f.at = Len(writes) + 1 /\ f # NotBegun
  BY <1>1, <1>4
<1>6. task' = [task EXCEPT ![i] = f] /\ writes' = Append(writes, e)
  BY <1>2, <1>4 DEF SettingsInv, SettingTypes, Wrote
<1>7. \A j \in Tasks : task'[j] = IF j = i THEN f ELSE task[j]
  BY <1>6 DEF SettingsInv, SettingTypes
<1>8. /\ Len(writes') = Len(writes) + 1
      /\ writes' \in Seq(Write)
      /\ \A w \in 1 .. Len(writes) : writes'[w] = writes[w]
      /\ writes'[Len(writes) + 1] = e
  BY <1>6, Appended DEF SettingsInv
<1> USE DEF SettingsInv
<1>9. SettingTypes'
  BY <1>6, <1>8 DEF SettingTypes
<1>10. CopiesFollow'
  <2>1. ASSUME NEW c \in Known, Follows(c)
        PROVE  /\ c.at <= Len(writes')
               /\ (\A w \in c.at + 1 .. Len(writes') : writes'[w].kind = "change" /\ writes'[w].email = c.email)
                    => m.email = c.email /\ m.verified = c.verified
    <3>1. c.at \in Nat /\ c.at <= Len(writes)
      BY <2>1 DEF Follows
    <3>2. ASSUME \A w \in c.at + 1 .. Len(writes') : writes'[w].kind = "change" /\ writes'[w].email = c.email
          PROVE  m.email = c.email /\ m.verified = c.verified
      <4>1. \A w \in c.at + 1 .. Len(writes) : w \in 1 .. Len(writes) /\ w \in c.at + 1 .. Len(writes')
        BY <1>1, <1>8, <3>1
      <4>2. \A w \in c.at + 1 .. Len(writes) : writes[w].kind = "change" /\ writes[w].email = c.email
        BY <1>8, <3>2, <4>1
      <4>3. mailbox.email = c.email /\ mailbox.verified = c.verified
        BY <2>1, <4>2 DEF Follows
      <4>4. e.kind = "change" /\ e.email = c.email
        BY <1>1, <1>8, <3>1, <3>2
      <4> QED BY <1>3, <4>3, <4>4
    <3> QED BY <1>1, <1>8, <3>1, <3>2
  <2>2. \A d \in Views : /\ known[d] # Empty => known[d] \in Known
                         /\ reading[d] # Empty => reading[d] \in Known
    BY DEF SettingTypes
  <2> HIDE DEF Known
  <2>3. \A d \in Views : /\ known[d] # Empty => Follows(known[d])'
                         /\ reading[d] # Empty => Follows(reading[d])'
    BY <2>1, <2>2 DEF CopiesFollow, Follows
  <2> QED BY <2>3 DEF CopiesFollow
<1>11. LastWritten'
  BY <1>1, <1>3, <1>8 DEF LastWritten
<1>12. WritesKnown'
  <2>1. ASSUME NEW j \in Tasks, j # i, task'[j] # NotBegun
        PROVE  /\ task'[j] = task[j] /\ task[j].at \in Nat /\ task[j].at <= Len(writes)
               /\ task[j].at # 0 => writes'[task[j].at] = writes[task[j].at]
    <3>1. task'[j] = task[j] /\ task[j] \in Task
      BY <1>7, <2>1 DEF SettingTypes
    <3>2. task[j].at \in Nat /\ task[j].at <= Len(writes)
      BY <2>1, <3>1 DEF WritesKnown
    <3> QED BY <1>1, <1>8, <3>1, <3>2
  <2>2. /\ f.at = Len(writes') /\ f.at # 0 /\ writes'[f.at] = e
        /\ f.step = "changed" <=> e.kind = "change"
    BY <1>1, <1>3, <1>5, <1>8
  <2>3. f.step \in {"saved", "changed"}
    BY <1>5
  <2> HIDE DEF Task, NotBegun
  <2> QED BY <1>1, <1>3, <1>5, <1>7, <1>8, <2>1, <2>2, <2>3 DEF WritesKnown
<1>13. HeardIsRead'
  <2>1. \A d \in Views, j \in Tasks : Rereads(d, j) => Rereads(d, j)' /\ task'[j].at = task[j].at
    BY <1>7 DEF Rereads
  <2>2. \A d \in Views : \A w \in 1 .. Len(writes') : Heard(d, w)' => w \in 1 .. Len(writes) /\ Heard(d, w)
    BY <1>1, <1>3, <1>8 DEF Heard
  <2>3. \A d \in Views : /\ known[d] # Empty => known[d].at \in Nat
                         /\ reading[d] # Empty => reading[d].at \in Nat
    BY DEF SettingTypes
  <2> SUFFICES ASSUME NEW d \in Views
               PROVE  /\ known[d] # Empty =>
                           \A w \in known[d].at + 1 .. Len(writes') :
                             Heard(d, w)' => (\E j \in Tasks : Rereads(d, j)' /\ task'[j].at = w)
                      /\ reading[d] # Empty =>
                           \A w \in reading[d].at + 1 .. Len(writes') : ~ Heard(d, w)'
    BY DEF HeardIsRead, Heard, Rereads
  <2>4. ASSUME known[d] # Empty, NEW w \in known[d].at + 1 .. Len(writes'), Heard(d, w)'
        PROVE  \E j \in Tasks : Rereads(d, j)' /\ task'[j].at = w
    <3>1. w \in known[d].at + 1 .. Len(writes) /\ Heard(d, w)
      BY <1>1, <1>8, <2>2, <2>3, <2>4
    <3> QED BY <2>1, <2>4, <3>1 DEF HeardIsRead
  <2>5. ASSUME reading[d] # Empty, NEW w \in reading[d].at + 1 .. Len(writes'), Heard(d, w)'
        PROVE  FALSE
    <3>1. w \in reading[d].at + 1 .. Len(writes) /\ Heard(d, w)
      BY <1>1, <1>8, <2>2, <2>3, <2>5
    <3> QED BY <2>5, <3>1 DEF HeardIsRead
  <2> QED BY <2>4, <2>5
<1>14. FormsWait'
  <2>1. \A d \in Views : known[d] # Empty => known[d].at \in Nat /\ known[d].at <= Len(writes)
    BY DEF CopiesFollow, Follows, SettingTypes
  <2>2. \A d \in Views : sheet[d] # Empty /\ Backed(d) => Backed(d)'
    BY <1>1, <1>8, <2>1 DEF Backed, FormsWait
  <2> QED BY <1>1, <1>5, <1>7, <1>8, <2>1, <2>2 DEF FormsWait
<1> QED BY <1>9, <1>10, <1>11, <1>12, <1>13, <1>14

\* Whoever is told of a write changes nothing else about it.
LEMMA ToldRows ==
  ASSUME SettingsInv, NEW i \in Tasks, task[i].step \in {"saved", "changed"}, writes' = Told(i)
  PROVE  /\ task[i] \in Task /\ task[i].at \in 1 .. Len(writes)
         /\ Len(writes') = Len(writes) /\ writes' \in Seq(Write)
         /\ \A w \in 1 .. Len(writes) :
              /\ writes'[w].view = writes[w].view
              /\ writes'[w].kind = writes[w].kind
              /\ writes'[w].email = writes[w].email
              /\ writes'[w].told = (writes[w].told \/ w = task[i].at)
<1>1. task[i] \in Task /\ task[i] # NotBegun /\ writes \in Seq(Write) /\ Len(writes) \in Nat
  BY DEF SettingsInv, SettingTypes
<1>2. PICK n \in 1 .. Len(writes) : n = task[i].at
  BY <1>1 DEF SettingsInv, WritesKnown
<1>3. writes[n] \in Write
  <2> HIDE DEF Write
  <2> QED BY <1>1, <1>2
<1>4. PICK e \in Write : e = [writes[n] EXCEPT !.told = TRUE]
  BY <1>3 DEF Write
<1>5. /\ e.view = writes[n].view /\ e.kind = writes[n].kind /\ e.email = writes[n].email
      /\ e.told = TRUE
  BY <1>3, <1>4 DEF Write
<1>6. writes' = [writes EXCEPT ![n] = e]
  BY <1>2, <1>4 DEF Told
<1>7. /\ Len(writes') = Len(writes) /\ writes' \in Seq(Write)
      /\ \A w \in 1 .. Len(writes) : writes'[w] = IF w = n THEN e ELSE writes[w]
  <2> HIDE DEF Write
  <2> QED BY <1>1, <1>2, <1>6
<1>8. \A w \in 1 .. Len(writes) : writes[w].told \in BOOLEAN
  <2>1. \A w \in 1 .. Len(writes) : writes[w] \in Write
    <3> HIDE DEF Write
    <3> QED BY <1>1
  <2> QED BY <2>1 DEF Write
<1>9. \A w \in 1 .. Len(writes) :
        /\ writes'[w].view = writes[w].view
        /\ writes'[w].kind = writes[w].kind
        /\ writes'[w].email = writes[w].email
        /\ writes'[w].told = (writes[w].told \/ w = n)
  BY <1>5, <1>7, <1>8
<1> QED BY <1>1, <1>2, <1>7, <1>9

\* No copy is the better or the worse for it.
LEMMA ToldFollows ==
  ASSUME SettingsInv, NEW i \in Tasks, task[i].step \in {"saved", "changed"}, writes' = Told(i),
         mailbox' = mailbox, known' = known, \A d \in Views : reading'[d] \in {reading[d], Empty}
  PROVE  CopiesFollow' /\ LastWritten'
<1>1. /\ Len(writes') = Len(writes) /\ Len(writes) \in Nat
      /\ \A w \in 1 .. Len(writes) :
           writes'[w].kind = writes[w].kind /\ writes'[w].email = writes[w].email
  BY ToldRows DEF SettingsInv, SettingTypes
<1>2. ASSUME NEW c \in Known, Follows(c)
      PROVE  /\ c.at <= Len(writes')
             /\ (\A w \in c.at + 1 .. Len(writes') : writes'[w].kind = "change" /\ writes'[w].email = c.email)
                  => mailbox.email = c.email /\ mailbox.verified = c.verified
  <2>1. \A w \in c.at + 1 .. Len(writes) : w \in 1 .. Len(writes)
    BY <1>1
  <2> QED BY <1>1, <1>2, <2>1 DEF Follows
<1>3. \A d \in Views : /\ known[d] # Empty => known[d] \in Known
                       /\ reading[d] # Empty => reading[d] \in Known
  BY DEF SettingsInv, SettingTypes
<1>4. \A d \in Views : /\ known[d] # Empty => Follows(known[d])'
                       /\ reading'[d] # Empty => Follows(reading[d])'
  <2> HIDE DEF Known
  <2>1. \A d \in Views : /\ known[d] # Empty => Follows(known[d])
                         /\ reading[d] # Empty => Follows(reading[d])
    BY DEF SettingsInv, CopiesFollow
  <2>2. \A d \in Views : known[d] # Empty => Follows(known[d])'
    BY <1>2, <1>3, <2>1 DEF Follows
  <2>3. \A d \in Views : reading'[d] # Empty => Follows(reading[d])'
    BY <1>2, <1>3, <2>1 DEF Follows
  <2> QED BY <2>2, <2>3
<1>5. CopiesFollow'
  BY <1>4 DEF SettingsInv, CopiesFollow
<1>6. LastWritten'
  BY <1>1 DEF SettingsInv, LastWritten
<1> QED BY <1>5, <1>6

\* A task goes on by one step.
LEMMA TaskGoes ==
  ASSUME SettingTypes, NEW i \in Tasks, task[i] # NotBegun,
         NEW step \in {"save", "change", "send", "verify", "saved", "changed", "sent", "failed", "reread", "over"},
         Goes(i, step)
  PROVE  /\ task' \in [Tasks -> Task \cup {NotBegun}]
         /\ task[i] \in Task /\ task'[i] \in Task /\ task'[i] # NotBegun
         /\ task'[i].step = step /\ task'[i].view = task[i].view /\ task'[i].at = task[i].at
         /\ \A j \in Tasks : j # i => task'[j] = task[j]
<1>1. task[i] \in Task
  BY DEF SettingTypes
<1>2. PICK f \in Task : f = [task[i] EXCEPT !.step = step]
  BY <1>1
<1>3. f.step = step /\ f.view = task[i].view /\ f.at = task[i].at /\ f # NotBegun
  BY <1>1, <1>2
<1>4. task' = [task EXCEPT ![i] = f]
  BY <1>2 DEF SettingTypes, Goes
<1> QED BY <1>1, <1>3, <1>4 DEF SettingTypes

\* Whoever waited for the read of d is done; all else is as it was.
LEMMA ReadOverRows ==
  ASSUME SettingTypes, NEW d \in Views, task' = ReadOver(d)
  PROVE  /\ task' \in [Tasks -> Task \cup {NotBegun}]
         /\ \A i \in Tasks : Rereads(d, i) =>
              /\ task[i] # NotBegun /\ task'[i] # NotBegun
              /\ task'[i].step = "over" /\ task'[i].view = task[i].view /\ task'[i].at = task[i].at
         /\ \A i \in Tasks : ~ Rereads(d, i) => task'[i] = task[i]
<1>1. ASSUME NEW i \in Tasks
      PROVE  /\ task'[i] \in Task \cup {NotBegun}
             /\ Rereads(d, i) =>
                  /\ task[i] # NotBegun /\ task'[i] # NotBegun
                  /\ task'[i].step = "over" /\ task'[i].view = task[i].view /\ task'[i].at = task[i].at
             /\ ~ Rereads(d, i) => task'[i] = task[i]
  <2>1. CASE Rereads(d, i)
    <3>1. task[i] \in Task
      BY <2>1 DEF SettingTypes, Rereads
    <3>2. task'[i] = [task[i] EXCEPT !.step = "over"]
      BY <2>1 DEF ReadOver
    <3>3. task'[i] \in Task
      BY <3>1, <3>2
    <3> QED BY <2>1, <3>1, <3>2, <3>3
  <2>2. CASE ~ Rereads(d, i)
    <3>1. task'[i] = task[i]
      BY <2>2 DEF ReadOver
    <3> QED BY <2>2, <3>1 DEF SettingTypes
  <2> QED BY <2>1, <2>2
<1>2. task' = [i \in Tasks |-> task'[i]]
  BY DEF ReadOver
<1>3. task' \in [Tasks -> Task \cup {NotBegun}]
  <2> HIDE DEF Task, NotBegun
  <2> QED BY <1>1, <1>2
<1> QED BY <1>1, <1>3

\* The server answers a read with the mailbox as it is.
LEMMA ServeSettingsKeeps ==
  ASSUME SettingsInv, NEW d \in Views, ServeSettings(d)
  PROVE  SettingsInv'
<1> USE DEF SettingsInv, ServeSettings
<1>1. SettingTypes'
  BY DEF SettingTypes
<1>2. CopiesFollow'
  BY DEF CopiesFollow, Follows, SettingTypes
<1>3. LastWritten'
  BY DEF LastWritten, SettingTypes
<1>4. WritesKnown'
  BY DEF WritesKnown, SettingTypes
<1>5. HeardIsRead'
  BY DEF HeardIsRead, Heard, Rereads, SettingTypes, WritesKnown
<1>6. FormsWait'
  BY DEF FormsWait, Backed, SettingTypes
<1> QED BY <1>1, <1>2, <1>3, <1>4, <1>5, <1>6

\* What was read is what the tab knows, and makes or leaves its form.
LEMMA SettingsReadKeeps ==
  ASSUME SettingsInv, NEW d \in Views, SettingsRead(d)
  PROVE  SettingsInv'
<1>1. /\ reading[d] # Empty /\ known' = [known EXCEPT ![d] = reading[d]]
      /\ reading' = [reading EXCEPT ![d] = Empty] /\ task' = ReadOver(d)
      /\ UNCHANGED <<mailbox, writes, codeFor, visible>>
  BY DEF SettingsRead
<1>2. SettingTypes /\ reading[d] \in Known
  BY <1>1 DEF SettingsInv, SettingTypes
<1>3. /\ \A v \in Views : known'[v] = IF v = d THEN reading[d] ELSE known[v]
      /\ \A v \in Views : reading'[v] = IF v = d THEN Empty ELSE reading[v]
      /\ known' \in [Views -> Known \cup {Empty}] /\ reading' \in [Views -> Known \cup {Empty}]
  <2> HIDE DEF Known
  <2> QED BY <1>1, <1>2 DEF SettingTypes
<1>4. NewSheet(reading[d]) \in Sheet
  BY <1>2 DEF NewSheet
<1>5. \/ /\ visible[d] /\ (sheet[d] = Empty \/ known[d].at # reading[d].at)
         /\ sheet' = [sheet EXCEPT ![d] = NewSheet(reading[d])]
      \/ /\ sheet[d] # Empty => known[d].at = reading[d].at \/ ~ visible[d]
         /\ sheet' = sheet
  BY DEF SettingsRead
<1>6. /\ task' \in [Tasks -> Task \cup {NotBegun}]
      /\ \A i \in Tasks : Rereads(d, i) =>
           /\ task[i] # NotBegun /\ task'[i] # NotBegun
           /\ task'[i].step = "over" /\ task'[i].view = task[i].view /\ task'[i].at = task[i].at
      /\ \A i \in Tasks : ~ Rereads(d, i) => task'[i] = task[i]
  BY <1>1, <1>2, ReadOverRows
<1> USE DEF SettingsInv
<1>7. SettingTypes'
  <2>1. sheet' \in [Views -> Sheet \cup {Empty}]
    <3> HIDE DEF Sheet
    <3> QED BY <1>4, <1>5 DEF SettingTypes
  <2> QED BY <1>1, <1>3, <1>6, <2>1 DEF SettingTypes
<1>8. CopiesFollow' /\ LastWritten'
  <2>1. \A c : Follows(c) => Follows(c)'
    BY <1>1 DEF Follows
  <2>2. \A v \in Views : /\ known'[v] # Empty => Follows(known'[v])
                         /\ reading'[v] # Empty => Follows(reading'[v])
    BY <1>1, <1>3 DEF CopiesFollow
  <2>3. \A v \in Views : /\ known'[v] # Empty => Follows(known[v])'
                         /\ reading'[v] # Empty => Follows(reading[v])'
    BY <1>1, <2>2 DEF Follows
  <2>4. CopiesFollow'
    BY <1>3, <2>3 DEF CopiesFollow
  <2> QED BY <1>1, <2>4 DEF LastWritten
<1>9. WritesKnown'
  BY <1>1, <1>6 DEF WritesKnown
<1>10. HeardIsRead'
  <2>1. \A v \in Views, i \in Tasks : v # d /\ Rereads(v, i) => Rereads(v, i)' /\ task'[i].at = task[i].at
    BY <1>6 DEF Rereads
  <2>2. \A w : \A v \in Views : Heard(v, w)' <=> Heard(v, w)
    BY <1>1 DEF Heard
  <2> QED BY <1>1, <1>3, <2>1, <2>2 DEF HeardIsRead
<1>11. FormsWait'
  <2>1. ASSUME NEW v \in Views, v # d, sheet'[v] # Empty
        PROVE  /\ sheet'[v] = sheet[v] /\ known'[v] = known[v]
               /\ \A i \in Tasks : sheet[v].busy = i => task'[i] = task[i]
    <3>1. sheet'[v] = sheet[v] /\ known'[v] = known[v]
      BY <1>3, <1>5, <2>1 DEF SettingTypes
    <3>2. \A i \in Tasks : sheet[v].busy = i => ~ Rereads(d, i)
      BY <2>1, <3>1 DEF FormsWait, Rereads
    <3> QED BY <1>6, <3>1, <3>2
  <2>2. CASE visible[d] /\ sheet' = [sheet EXCEPT ![d] = NewSheet(reading[d])]
    <3>1. /\ sheet'[d].codeSent = FALSE
          /\ \A i \in Tasks : sheet'[d].busy # i
          /\ visible'[d] /\ known'[d] # Empty
      BY <1>1, <1>3, <2>2, MailSettingsAssumption DEF SettingTypes, NewSheet
    <3> QED BY <1>1, <2>1, <3>1 DEF FormsWait, Backed
  <2>3. CASE sheet' = sheet /\ (sheet[d] # Empty => known[d].at = reading[d].at \/ ~ visible[d])
    <3>1. ASSUME sheet[d] # Empty
          PROVE  /\ visible[d] /\ known[d] # Empty /\ known[d].at = reading[d].at
                 /\ known[d].email = reading[d].email
      BY <1>1, <2>3, <3>1 DEF FormsWait, CopiesFollow
    <3>2. ASSUME sheet[d] # Empty, NEW i \in Tasks, sheet[d].busy = i
          PROVE  ~ Rereads(d, i)
      <4>1. SUFFICES ASSUME Rereads(d, i)
                     PROVE  FALSE
        OBVIOUS
      <4>2. /\ task[i] # NotBegun /\ task[i].view = d
            /\ task[i].step = "reread" /\ known[d].at < task[i].at
        BY <3>2, <4>1 DEF FormsWait, Rereads
      <4>3. /\ task[i].at <= Len(writes)
            /\ Heard(d, task[i].at) /\ task[i] \in Task
        BY <4>2 DEF WritesKnown, Heard, SettingTypes
      <4>4. reading[d].at \in Nat /\ reading[d].at < task[i].at
        BY <1>2, <3>1, <3>2, <4>2
      <4>5. task[i].at \in reading[d].at + 1 .. Len(writes)
        BY <4>3, <4>4 DEF SettingTypes
      <4> QED BY <1>1, <4>3, <4>5 DEF HeardIsRead
    <3>3. sheet[d] # Empty => (Backed(d) => Backed(d)')
      BY <1>1, <1>3, <2>3, <3>1 DEF Backed
    <3>4. sheet[d] # Empty => known'[d] # Empty /\ known'[d].at = known[d].at
      BY <1>1, <1>3, <3>1
    <3>5. \A v \in Views : v # d /\ sheet[v] # Empty => (Backed(v) => Backed(v)')
      BY <1>1, <2>1, <2>3 DEF Backed
    <3>6. sheet'[d] # Empty =>
            /\ visible'[d] /\ known'[d] # Empty
            /\ sheet'[d].codeSent => Backed(d)'
            /\ \A i \in Tasks : sheet'[d].busy = i =>
                 /\ task'[i] # NotBegun /\ task'[i].step # "over" /\ task'[i].view = d
                 /\ task'[i].step \in {"saved", "changed", "reread"} => known'[d].at < task'[i].at
                 /\ task'[i].step \in {"send", "sent"} => Backed(d)'
      BY <1>1, <1>6, <2>3, <3>2, <3>3, <3>4 DEF FormsWait
    <3>7. ASSUME NEW v \in Views, v # d, sheet'[v] # Empty
          PROVE  /\ visible'[v] /\ known'[v] # Empty
                 /\ sheet'[v].codeSent => Backed(v)'
                 /\ \A i \in Tasks : sheet'[v].busy = i =>
                      /\ task'[i] # NotBegun /\ task'[i].step # "over" /\ task'[i].view = v
                      /\ task'[i].step \in {"saved", "changed", "reread"} => known'[v].at < task'[i].at
                      /\ task'[i].step \in {"send", "sent"} => Backed(v)'
      BY <1>1, <2>1, <2>3, <3>5, <3>7 DEF FormsWait
    <3> QED BY <3>6, <3>7 DEF FormsWait
  <2> QED BY <1>5, <2>2, <2>3
<1> QED BY <1>7, <1>8, <1>9, <1>10, <1>11

\* A failed read takes away what the tab knew, and its form.
LEMMA SettingsFailKeeps ==
  ASSUME SettingsInv, NEW d \in Views, SettingsFail(d)
  PROVE  SettingsInv'
<1> USE DEF SettingsInv, SettingsFail, ReadOver, Rereads
<1>1. SettingTypes'
  BY DEF SettingTypes
<1>2. CopiesFollow'
  BY DEF CopiesFollow, Follows, SettingTypes
<1>3. LastWritten'
  BY DEF LastWritten, SettingTypes
<1>4. WritesKnown'
  BY DEF WritesKnown, SettingTypes
<1>5. HeardIsRead'
  <2>1. \A v \in Views, j \in Tasks :
          v # d /\ Rereads(v, j) => Rereads(v, j)' /\ task'[j].at = task[j].at
    <3>1. \A j \in Tasks : ~ Rereads(d, j) => task'[j] = task[j]
      BY ReadOverRows
    <3> QED BY <3>1
  <2>2. known'[d] = Empty /\ reading'[d] = Empty
    BY DEF SettingTypes
  <2>3. \A v \in Views : v # d => known'[v] = known[v] /\ reading'[v] = reading[v]
    BY DEF SettingTypes
  <2>4. \A w : \A v \in Views : Heard(v, w)' <=> Heard(v, w)
    BY DEF Heard
  <2> HIDE DEF SettingsFail, ReadOver, Rereads
  <2>5. writes' = writes
    BY DEF SettingsFail
  <2> QED BY <2>1, <2>2, <2>3, <2>4, <2>5 DEF HeardIsRead
<1>6. FormsWait'
  BY DEF FormsWait, Backed, SettingTypes
<1> QED BY <1>1, <1>2, <1>3, <1>4, <1>5, <1>6

\* A page that is left has no form.
LEMMA LeaveSettingsKeeps ==
  ASSUME SettingsInv, NEW d \in Views, LeaveSettings(d)
  PROVE  SettingsInv'
<1> USE DEF SettingsInv, LeaveSettings
<1>1. SettingTypes'
  BY DEF SettingTypes
<1>2. CopiesFollow'
  BY DEF CopiesFollow, Follows, SettingTypes
<1>3. LastWritten'
  BY DEF LastWritten, SettingTypes
<1>4. WritesKnown'
  BY DEF WritesKnown, SettingTypes
<1>5. HeardIsRead'
  BY DEF HeardIsRead, Heard, Rereads, SettingTypes, WritesKnown
<1>6. FormsWait'
  BY DEF FormsWait, Backed, SettingTypes
<1> QED BY <1>1, <1>2, <1>3, <1>4, <1>5, <1>6

\* A page that is shown again makes its form of what it knows.
LEMMA ReturnToSettingsKeeps ==
  ASSUME SettingsInv, NEW d \in Views, ReturnToSettings(d)
  PROVE  SettingsInv'
<1> USE DEF SettingsInv, ReturnToSettings, NewSheet
<1>1. SettingTypes'
  BY DEF SettingTypes
<1>2. CopiesFollow'
  BY DEF CopiesFollow, Follows, SettingTypes
<1>3. LastWritten'
  BY DEF LastWritten, SettingTypes
<1>4. WritesKnown'
  BY DEF WritesKnown, SettingTypes
<1>5. HeardIsRead'
  BY DEF HeardIsRead, Heard, Rereads, SettingTypes, WritesKnown
<1>6. FormsWait'
  BY DEF FormsWait, Backed, SettingTypes
<1> QED BY <1>1, <1>2, <1>3, <1>4, <1>5, <1>6

\* Another address in the form has no code yet.
LEMMA EditAddressKeeps ==
  ASSUME SettingsInv, NEW d \in Views, NEW a \in Address, EditAddress(d, a)
  PROVE  SettingsInv'
<1> USE DEF SettingsInv, EditAddress, Editable
<1>1. SettingTypes'
  <2>1. sheet[d] \in Sheet
    BY DEF SettingTypes
  <2>2. PICK r \in Sheet : r = [sheet[d] EXCEPT !.email = a, !.on = FALSE, !.codeSent = FALSE]
    BY <2>1
  <2>3. sheet' = [sheet EXCEPT ![d] = r]
    BY <2>2
  <2>4. sheet' \in [Views -> Sheet \cup {Empty}]
    <3> HIDE DEF Sheet
    <3> QED BY <2>3 DEF SettingTypes
  <2> QED BY <2>4 DEF SettingTypes
<1>2. CopiesFollow'
  BY DEF CopiesFollow, Follows, SettingTypes
<1>3. LastWritten'
  BY DEF LastWritten, SettingTypes
<1>4. WritesKnown'
  BY DEF WritesKnown, SettingTypes
<1>5. HeardIsRead'
  BY DEF HeardIsRead, Heard, Rereads, SettingTypes, WritesKnown
<1>6. FormsWait'
  BY DEF FormsWait, Backed, SettingTypes
<1> QED BY <1>1, <1>2, <1>3, <1>4, <1>5, <1>6

\* Mail is switched on and off in the form.
LEMMA SwitchMailKeeps ==
  ASSUME SettingsInv, NEW d \in Views, SwitchMail(d)
  PROVE  SettingsInv'
<1> USE DEF SettingsInv, SwitchMail, Editable
<1>1. SettingTypes'
  <2>1. sheet[d] \in Sheet
    BY DEF SettingTypes
  <2>2. PICK r \in Sheet : r = [sheet[d] EXCEPT !.on = ~ @]
    BY <2>1
  <2>3. sheet' = [sheet EXCEPT ![d] = r]
    BY <2>2
  <2>4. sheet' \in [Views -> Sheet \cup {Empty}]
    <3> HIDE DEF Sheet
    <3> QED BY <2>3 DEF SettingTypes
  <2> QED BY <2>4 DEF SettingTypes
<1>2. CopiesFollow'
  BY DEF CopiesFollow, Follows, SettingTypes
<1>3. LastWritten'
  BY DEF LastWritten, SettingTypes
<1>4. WritesKnown'
  BY DEF WritesKnown, SettingTypes
<1>5. HeardIsRead'
  BY DEF HeardIsRead, Heard, Rereads, SettingTypes, WritesKnown
<1>6. FormsWait'
  BY DEF FormsWait, Backed, SettingTypes
<1> QED BY <1>1, <1>2, <1>3, <1>4, <1>5, <1>6

\* A button of the form begins a task, and the form waits for it.
LEMMA BeginKeeps ==
  ASSUME SettingsInv, NEW d \in Views, NEW i \in Tasks, NEW step \in {"save", "change", "send", "verify"}, Begin(d, i, step), step = "send" => sheet[d].email = known[d].email
  PROVE  SettingsInv'
<1> USE DEF SettingsInv, Begin, Editable
<1>1. SettingTypes'
  BY DEF SettingTypes
<1>2. CopiesFollow'
  BY DEF CopiesFollow, Follows, SettingTypes
<1>3. LastWritten'
  BY DEF LastWritten, SettingTypes
<1>4. WritesKnown'
  BY DEF WritesKnown, SettingTypes
<1>5. HeardIsRead'
  <2>1. \A v \in Views, j \in Tasks : Rereads(v, j) => Rereads(v, j)' /\ task'[j].at = task[j].at
    BY DEF Rereads, SettingTypes
  <2> QED BY <2>1 DEF HeardIsRead, Heard
<1>6. FormsWait'
  BY DEF FormsWait, Backed, SettingTypes
<1> QED BY <1>1, <1>2, <1>3, <1>4, <1>5, <1>6

\* A save or a change of address is a write.
LEMMA ServePutKeeps ==
  ASSUME SettingsInv, NEW i \in Tasks, ServePut(i)
  PROVE  SettingsInv'
<1>1. task[i] \in Task /\ task[i].step \in {"save", "change"} /\ codeFor \in Address /\ mailbox \in Mailbox
  BY DEF SettingsInv, SettingTypes, ServePut
<1>2. CASE Goes(i, "failed") /\ UNCHANGED <<mailbox, writes>>
  BY <1>1, <1>2, GoesKeeps DEF ServePut
<1>3. CASE /\ mailbox' = [email |-> task[i].email,
                         verified |-> task[i].email = mailbox.email /\ mailbox.verified,
                         on |-> task[i].on]
           /\ Wrote(i, IF task[i].step = "save" THEN "saved" ELSE "changed", task[i].email)
  <2>1. PICK m \in Mailbox : m = [email |-> task[i].email,
                         verified |-> task[i].email = mailbox.email /\ mailbox.verified,
                         on |-> task[i].on]
    BY <1>1
  <2>2. m.email = task[i].email /\ (m.email = mailbox.email => m.verified = mailbox.verified)
    BY <1>1, <2>1
  <2>3. PICK step \in {"saved", "changed"} : step = IF task[i].step = "save" THEN "saved" ELSE "changed"
    OBVIOUS
  <2>4. mailbox' = m /\ Wrote(i, step, m.email)
    BY <1>3, <2>1, <2>2, <2>3
  <2> QED BY <1>1, <2>2, <2>3, <2>4, WroteKeeps DEF ServePut
<1> QED BY <1>2, <1>3 DEF ServePut

\* A code that is sent is no write of the mailbox.
LEMMA ServeSendKeeps ==
  ASSUME SettingsInv, NEW i \in Tasks, ServeSend(i)
  PROVE  SettingsInv'
<1>1. codeFor \in Address /\ mailbox.email \in Address
  BY DEF SettingsInv, SettingTypes
<1>2. codeFor' \in Address /\ (Goes(i, "failed") \/ Goes(i, "sent"))
  BY <1>1 DEF ServeSend
<1> QED BY <1>2, GoesKeeps DEF ServeSend

\* A code that is right verifies the address it was made for.
LEMMA ServeVerifyKeeps ==
  ASSUME SettingsInv, NEW i \in Tasks, ServeVerify(i)
  PROVE  SettingsInv'
<1>1. codeFor \in Address /\ Empty \in Address /\ mailbox \in Mailbox
  BY DEF SettingsInv, SettingTypes, Address
<1>2. CASE Goes(i, "failed") /\ UNCHANGED <<mailbox, codeFor, writes>>
  BY <1>1, <1>2, GoesKeeps DEF ServeVerify
<1>3. CASE mailbox' = [mailbox EXCEPT !.verified = TRUE] /\ codeFor' = Empty /\ Wrote(i, "saved", mailbox.email)
  <2>1. PICK m \in Mailbox : m = [mailbox EXCEPT !.verified = TRUE]
    BY <1>1
  <2>2. m.email = mailbox.email
    BY <1>1, <2>1
  <2> QED BY <1>1, <1>3, <2>1, <2>2, WroteKeeps DEF ServeVerify
<1> QED BY <1>2, <1>3 DEF ServeVerify

\* A request that is lost fails at its tab.
LEMMA LoseTaskKeeps ==
  ASSUME SettingsInv, NEW i \in Tasks, LoseTask(i)
  PROVE  SettingsInv'
<1>1. codeFor \in Address
  BY DEF SettingsInv, SettingTypes
<1> QED BY <1>1, GoesKeeps DEF LoseTask

\* A tab that is told of its save reads again if it is shown.
LEMMA SettingsSavedKeeps ==
  ASSUME SettingsInv, NEW i \in Tasks, SettingsSaved(i)
  PROVE  SettingsInv'
<1>1. CASE ~ visible[task[i].view]
  <2>1. task[i] \in Task /\ task[i] # NotBegun /\ task[i].view \in Views
    BY DEF SettingsInv, SettingTypes, SettingsSaved
  <2>2. PICK f \in Task : f = [task[i] EXCEPT !.step = "over"]
    BY <2>1
  <2>3. f.step = "over" /\ f.view = task[i].view /\ f.at = task[i].at /\ f # NotBegun
    BY <2>1, <2>2
  <2>4. task' = [task EXCEPT ![i] = f]
    BY <2>2, <1>1 DEF SettingsInv, SettingTypes, SettingsSaved, Goes
  <2>5. \A j \in Tasks : task'[j] = IF j = i THEN f ELSE task[j]
    BY <2>4 DEF SettingsInv, SettingTypes
  <2>6. task[i].step = "saved" /\ UNCHANGED <<mailbox, writes, codeFor, known, reading, visible, sheet>>
    BY <1>1 DEF SettingsSaved
  <2> USE DEF SettingsInv
  <2>7. SettingTypes'
    BY <2>4, <2>6 DEF SettingTypes
  <2>8. CopiesFollow' /\ LastWritten'
    BY <2>6 DEF CopiesFollow, Follows, LastWritten
  <2>9. WritesKnown'
    BY <2>1, <2>3, <2>5, <2>6 DEF WritesKnown
  <2>10. HeardIsRead'
    <3>1. \A d \in Views, j \in Tasks : Rereads(d, j) => Rereads(d, j)' /\ task'[j].at = task[j].at
      BY <2>5, <2>6 DEF Rereads
    <3> QED BY <2>6, <3>1 DEF HeardIsRead, Heard
  <2>11. FormsWait'
    <3>1. \A d \in Views : sheet[d] # Empty => sheet[d].busy # i
      BY <1>1 DEF FormsWait
    <3> QED BY <2>5, <2>6, <3>1 DEF FormsWait, Backed
  <2> QED BY <2>7, <2>8, <2>9, <2>10, <2>11
<1>2. CASE visible[task[i].view]
  <2>1. task[i] \in Task /\ task[i] # NotBegun /\ task[i].view \in Views
    BY DEF SettingsInv, SettingTypes, SettingsSaved
  <2>2. PICK f \in Task : f = [task[i] EXCEPT !.step = "reread"]
    BY <2>1
  <2>3. f.step = "reread" /\ f.view = task[i].view /\ f.at = task[i].at /\ f # NotBegun
    BY <2>1, <2>2
  <2>4. task' = [task EXCEPT ![i] = f]
    BY <2>2, <1>2 DEF SettingsInv, SettingTypes, SettingsSaved, Goes
  <2>5. \A j \in Tasks : task'[j] = IF j = i THEN f ELSE task[j]
    BY <2>4 DEF SettingsInv, SettingTypes
  <2>6. /\ task[i].step = "saved" /\ writes' = Told(i)
        /\ reading' = [reading EXCEPT ![task[i].view] = Empty]
        /\ UNCHANGED <<mailbox, codeFor, known, visible, sheet>>
    BY <1>2 DEF SettingsSaved
  <2>7. /\ task[i].at \in 1 .. Len(writes) /\ Len(writes') = Len(writes) /\ writes' \in Seq(Write)
        /\ \A w \in 1 .. Len(writes) :
             /\ writes'[w].view = writes[w].view
             /\ writes'[w].kind = writes[w].kind
             /\ writes'[w].told = (writes[w].told \/ w = task[i].at)
    BY <2>6, ToldRows
  <2> USE DEF SettingsInv
  <2>8. \A d \in Views : reading'[d] = IF d = task[i].view THEN Empty ELSE reading[d]
    BY <2>1, <2>6 DEF SettingTypes
  <2>9. SettingTypes'
    BY <2>4, <2>6, <2>7 DEF SettingTypes
  <2>10. CopiesFollow' /\ LastWritten'
    BY <2>6, <2>8, ToldFollows
  <2>11. writes[task[i].at].kind # "change" /\ writes[task[i].at].view = task[i].view
    BY <2>1, <2>6, <2>7 DEF WritesKnown
  <2>12. WritesKnown'
    <3>1. ASSUME NEW j \in Tasks, task'[j] # NotBegun
          PROVE  /\ task'[j].at <= Len(writes)
                 /\ task'[j].step \in {"saved", "changed", "reread"} => task'[j].at # 0
                 /\ task'[j].at # 0 => writes'[task'[j].at].view = task'[j].view
                 /\ task'[j].step = "changed" => writes'[task'[j].at].kind = "change"
                 /\ task'[j].step = "saved" => writes'[task'[j].at].kind # "change"
                 /\ task'[j].step = "reread" =>
                      writes'[task'[j].at].kind # "change" /\ writes'[task'[j].at].told
      <4> HIDE DEF Task, Sheet, Known, Mailbox
      <4>1. CASE j = i
        <5>1. task'[j] = f /\ f.at \in 1 .. Len(writes) /\ f.at # 0 /\ f.view = task[i].view
          BY <2>1, <2>3, <2>5, <2>6, <2>7, <2>11, <4>1
        <5>2. /\ writes'[f.at].view = writes[task[i].at].view
              /\ writes'[f.at].kind = writes[task[i].at].kind
              /\ writes'[f.at].told
          BY <2>1, <2>3, <2>5, <2>6, <2>7, <2>11
        <5>3. writes[task[i].at].view = task[i].view
          BY <2>1, <2>3, <2>5, <2>6, <2>7, <2>11 DEF WritesKnown
        <5> QED BY <2>1, <2>3, <2>5, <2>6, <2>7, <2>11, <5>1, <5>2, <5>3
      <4>2. CASE j # i
        <5>1. task[j] = task'[j] /\ task[j] # NotBegun
          BY <2>1, <2>3, <2>5, <2>6, <2>7, <2>11, <4>2, <3>1
        <5>2. task[j].at \in Nat
          BY <5>1 DEF SettingTypes, Task
        <5>3. task[j].at <= Len(writes)
          BY <5>1 DEF WritesKnown
        <5>4. task[j].at # 0 => task[j].at \in 1 .. Len(writes)
          BY <2>7, <5>2, <5>3
        <5>5. CASE task[j].at = 0
          BY <5>1, <5>3, <5>5 DEF WritesKnown
        <5>6. CASE task[j].at # 0
          <6>1. /\ writes'[task[j].at].view = writes[task[j].at].view
                /\ writes'[task[j].at].kind = writes[task[j].at].kind
                /\ writes[task[j].at].told => writes'[task[j].at].told
            BY <2>7, <5>4, <5>6
          <6> QED BY <5>1, <5>3, <5>6, <6>1 DEF WritesKnown
        <5> QED BY <5>5, <5>6
      <4> QED BY <4>1, <4>2
    <3> QED BY <2>7, <3>1 DEF WritesKnown
  <2>13. HeardIsRead'
    <3>1. \A d \in Views, j \in Tasks : Rereads(d, j) => Rereads(d, j)' /\ task'[j].at = task[j].at
      BY <2>5, <2>6 DEF Rereads
    <3>2. Rereads(task[i].view, i)' /\ task'[i].at = task[i].at
      BY <2>3, <2>5 DEF Rereads
    <3>3. \A d \in Views : \A w \in 1 .. Len(writes) :
            Heard(d, w)' => Heard(d, w) \/ (d = task[i].view /\ w = task[i].at)
      BY <2>7, <2>11 DEF Heard
    <3>4. \A d \in Views : /\ known[d] # Empty => known[d].at \in Nat
                           /\ reading[d] # Empty => reading[d].at \in Nat
      BY DEF SettingTypes
    <3>5. \A n \in Nat : \A w \in n + 1 .. Len(writes) : w \in 1 .. Len(writes)
      BY <2>7
    <3>6. \A d \in Views : known[d] # Empty =>
            \A w \in known[d].at + 1 .. Len(writes) :
              Heard(d, w)' => (\E j \in Tasks : Rereads(d, j)' /\ task'[j].at = w)
      <4> SUFFICES ASSUME NEW d \in Views, known[d] # Empty,
                          NEW w \in known[d].at + 1 .. Len(writes), Heard(d, w)'
                   PROVE  \E j \in Tasks : Rereads(d, j)' /\ task'[j].at = w
        OBVIOUS
      <4>1. w \in 1 .. Len(writes)
        BY <3>4, <3>5
      <4>2. CASE Heard(d, w)
        BY <3>1, <4>2 DEF HeardIsRead
      <4>3. CASE d = task[i].view /\ w = task[i].at
        <5>1. Rereads(d, i)' /\ task'[i].at = w
          BY <2>3, <2>5, <4>3 DEF Rereads
        <5> QED BY <5>1
      <4> QED BY <3>3, <4>1, <4>2, <4>3
    <3>7. \A d \in Views : reading'[d] # Empty =>
            reading'[d] = reading[d] /\ \A w \in reading[d].at + 1 .. Len(writes) : ~ Heard(d, w)'
      BY <2>8, <3>3, <3>4, <3>5 DEF HeardIsRead
    <3> QED BY <2>6, <2>7, <3>6, <3>7 DEF HeardIsRead
  <2>14. FormsWait'
    <3>1. \A d \in Views : sheet[d] # Empty /\ Backed(d) => Backed(d)'
      BY <2>6, <2>7 DEF Backed
    <3> QED BY <2>1, <2>3, <2>5, <2>6, <3>1 DEF FormsWait
  <2> QED BY <2>9, <2>10, <2>12, <2>13, <2>14
<1> QED BY <1>1, <1>2

\* A change of address is followed by the code for it.
LEMMA AddressChangedKeeps ==
  ASSUME SettingsInv, NEW i \in Tasks, AddressChanged(i)
  PROVE  SettingsInv'
<1>1. task[i] \in Task /\ task[i] # NotBegun /\ task[i].view \in Views
  BY DEF SettingsInv, SettingTypes, AddressChanged
<1>2. PICK f \in Task : f = [task[i] EXCEPT !.step = "send"]
  BY <1>1
<1>3. f.step = "send" /\ f.view = task[i].view /\ f.at = task[i].at /\ f # NotBegun
  BY <1>1, <1>2
<1>4. task' = [task EXCEPT ![i] = f]
  BY <1>2 DEF SettingsInv, SettingTypes, AddressChanged, Goes
<1>5. \A j \in Tasks : task'[j] = IF j = i THEN f ELSE task[j]
  BY <1>4 DEF SettingsInv, SettingTypes
<1>6. /\ task[i].step = "changed" /\ writes' = Told(i)
      /\ UNCHANGED <<mailbox, codeFor, known, reading, visible, sheet>>
  BY DEF AddressChanged
<1>7. /\ task[i].at \in 1 .. Len(writes) /\ Len(writes') = Len(writes) /\ writes' \in Seq(Write)
      /\ \A w \in 1 .. Len(writes) :
           /\ writes'[w].view = writes[w].view
           /\ writes'[w].kind = writes[w].kind
           /\ writes'[w].told = (writes[w].told \/ w = task[i].at)
  BY <1>6, ToldRows
<1> USE DEF SettingsInv
<1>8. SettingTypes'
  BY <1>4, <1>6, <1>7 DEF SettingTypes
<1>9. CopiesFollow' /\ LastWritten'
  <2>1. \A d \in Views : reading'[d] \in {reading[d], Empty}
    BY <1>6
  <2> QED BY <1>6, <2>1, ToldFollows
<1>10. WritesKnown'
  <2>1. ASSUME NEW j \in Tasks, task'[j] # NotBegun
        PROVE  /\ task'[j].at <= Len(writes)
               /\ task'[j].step \in {"saved", "changed", "reread"} => task'[j].at # 0
               /\ task'[j].at # 0 => writes'[task'[j].at].view = task'[j].view
               /\ task'[j].step = "changed" => writes'[task'[j].at].kind = "change"
               /\ task'[j].step = "saved" => writes'[task'[j].at].kind # "change"
               /\ task'[j].step = "reread" =>
                    writes'[task'[j].at].kind # "change" /\ writes'[task'[j].at].told
    <3> HIDE DEF Task, Sheet, Known, Mailbox
    <3>1. CASE j = i
      <4>1. task'[j] = f /\ f.at \in 1 .. Len(writes) /\ f.at # 0 /\ f.view = task[i].view
        BY <1>1, <1>3, <1>5, <1>6, <1>7, <3>1
      <4>2. /\ writes'[f.at].view = writes[task[i].at].view
            /\ writes'[f.at].kind = writes[task[i].at].kind
            /\ writes'[f.at].told
        BY <1>1, <1>3, <1>5, <1>6, <1>7
      <4>3. writes[task[i].at].view = task[i].view
        BY <1>1, <1>3, <1>5, <1>6, <1>7 DEF WritesKnown
      <4> QED BY <1>1, <1>3, <1>5, <1>6, <1>7, <4>1, <4>2, <4>3
    <3>2. CASE j # i
      <4>1. task[j] = task'[j] /\ task[j] # NotBegun
        BY <1>1, <1>3, <1>5, <1>6, <1>7, <3>2, <2>1
      <4>2. task[j].at \in Nat
        BY <4>1 DEF SettingTypes, Task
      <4>3. task[j].at <= Len(writes)
        BY <4>1 DEF WritesKnown
      <4>4. task[j].at # 0 => task[j].at \in 1 .. Len(writes)
        BY <1>7, <4>2, <4>3
      <4>5. CASE task[j].at = 0
        BY <4>1, <4>3, <4>5 DEF WritesKnown
      <4>6. CASE task[j].at # 0
        <5>1. /\ writes'[task[j].at].view = writes[task[j].at].view
              /\ writes'[task[j].at].kind = writes[task[j].at].kind
              /\ writes[task[j].at].told => writes'[task[j].at].told
          BY <1>7, <4>4, <4>6
        <5> QED BY <4>1, <4>3, <4>6, <5>1 DEF WritesKnown
      <4> QED BY <4>5, <4>6
    <3> QED BY <3>1, <3>2
  <2> QED BY <1>7, <2>1 DEF WritesKnown
<1>11. HeardIsRead'
  <2>1. \A d \in Views, j \in Tasks : Rereads(d, j) => Rereads(d, j)' /\ task'[j].at = task[j].at
    BY <1>5, <1>6 DEF Rereads
  <2>2. writes[task[i].at].kind = "change"
    BY <1>1, <1>6 DEF WritesKnown
  <2>3. \A d \in Views : \A w \in 1 .. Len(writes) : Heard(d, w)' => Heard(d, w)
    BY <1>7, <2>2 DEF Heard
  <2>4. \A d \in Views : /\ known[d] # Empty => known[d].at \in Nat
                         /\ reading[d] # Empty => reading[d].at \in Nat
    BY DEF SettingTypes
  <2>5. \A n \in Nat : \A w \in n + 1 .. Len(writes) : w \in 1 .. Len(writes)
    BY <1>7
  <2>6. \A d \in Views : known[d] # Empty =>
          \A w \in known[d].at + 1 .. Len(writes) :
            Heard(d, w)' => (\E j \in Tasks : Rereads(d, j)' /\ task'[j].at = w)
    BY <2>1, <2>3, <2>4, <2>5 DEF HeardIsRead
  <2>7. \A d \in Views : reading[d] # Empty =>
          \A w \in reading[d].at + 1 .. Len(writes) : ~ Heard(d, w)'
    BY <2>3, <2>4, <2>5 DEF HeardIsRead
  <2> QED BY <1>6, <1>7, <2>6, <2>7 DEF HeardIsRead
<1>12. FormsWait'
  <2>1. \A d \in Views : sheet[d] # Empty /\ Backed(d) => Backed(d)'
    BY <1>6, <1>7 DEF Backed
  <2>2. \A d \in Views : sheet[d] # Empty /\ sheet[d].busy = i => Backed(d)'
    <3>1. \A d \in Views : sheet[d] # Empty /\ sheet[d].busy = i =>
            known[d].at < task[i].at /\ known[d].at \in Nat
      BY <1>6 DEF FormsWait, SettingTypes
    <3> QED BY <1>6, <1>7, <3>1 DEF Backed
  <2> QED BY <1>1, <1>3, <1>5, <1>6, <2>1, <2>2 DEF FormsWait
<1> QED BY <1>8, <1>9, <1>10, <1>11, <1>12

\* A task that is over lets its form go on.
LEMMA TaskEndsKeeps ==
  ASSUME SettingsInv, NEW i \in Tasks, TaskEnds(i)
  PROVE  SettingsInv'
<1>1. task[i].step \in {"sent", "failed"} /\ Goes(i, "over")
      /\ UNCHANGED <<mailbox, writes, codeFor, known, reading, visible>>
  BY DEF TaskEnds
<1>2. SettingTypes /\ task[i] # NotBegun
  BY <1>1 DEF SettingsInv
<1>3. /\ task' \in [Tasks -> Task \cup {NotBegun}]
      /\ task[i] \in Task /\ task'[i] \in Task /\ task'[i] # NotBegun
      /\ task'[i].step = "over" /\ task'[i].view = task[i].view /\ task'[i].at = task[i].at
      /\ \A j \in Tasks : j # i => task'[j] = task[j]
  BY <1>1, <1>2, TaskGoes
<1>4. PICK d \in Views : d = task[i].view
  BY <1>3
<1>5. \/ Waiter(d, i) /\ sheet' = [sheet EXCEPT ![d].busy = Empty,
           ![d].codeSent = @ \/ task[i].step = "sent"]
      \/ ~ Waiter(d, i) /\ sheet' = sheet
  BY <1>4 DEF TaskEnds
<1> USE DEF SettingsInv
<1>6. \/ /\ sheet[d] # Empty /\ sheet[d].busy = i
         /\ \E r \in Sheet : /\ r.email = sheet[d].email /\ r.busy = Empty
                             /\ r.codeSent => sheet[d].codeSent \/ task[i].step = "sent"
                             /\ sheet' = [sheet EXCEPT ![d] = r]
      \/ /\ sheet' = sheet
         /\ sheet[d] # Empty => sheet[d].busy # i
  <2>1. CASE Waiter(d, i)
    <3>1. sheet[d] \in Sheet /\ sheet[d].busy = i /\ sheet[d] # Empty
      BY <1>4, <2>1 DEF Waiter, SettingTypes
    <3>2. PICK b \in BOOLEAN : b = (sheet[d].codeSent \/ task[i].step = "sent")
      OBVIOUS
    <3>3. PICK r \in Sheet : r = [sheet[d] EXCEPT !.busy = Empty, !.codeSent = b]
      BY <3>1
    <3>4. /\ r.email = sheet[d].email /\ r.busy = Empty
          /\ r.codeSent => sheet[d].codeSent \/ task[i].step = "sent"
      BY <3>1, <3>2, <3>3
    <3>5. sheet' = [sheet EXCEPT ![d] = r]
      BY <1>4, <1>5, <2>1, <3>1, <3>2, <3>3 DEF SettingTypes
    <3> QED BY <3>1, <3>4, <3>5
  <2>2. CASE ~ Waiter(d, i)
    BY <1>5, <2>2 DEF Waiter
  <2> QED BY <2>1, <2>2
<1>7. SettingTypes'
  <2>1. sheet' \in [Views -> Sheet \cup {Empty}]
    <3> HIDE DEF Sheet
    <3> QED BY <1>6 DEF SettingTypes
  <2> QED BY <1>1, <1>3, <2>1 DEF SettingTypes
<1>8. CopiesFollow' /\ LastWritten'
  BY <1>1 DEF CopiesFollow, Follows, LastWritten
<1>9. WritesKnown'
  BY <1>1, <1>3 DEF WritesKnown
<1>10. HeardIsRead'
  <2>1. \A v \in Views, j \in Tasks : Rereads(v, j) => Rereads(v, j)' /\ task'[j].at = task[j].at
    BY <1>1, <1>3 DEF Rereads
  <2> QED BY <1>1, <2>1 DEF HeardIsRead, Heard
<1>11. FormsWait'
  <2>1. CASE /\ sheet' = sheet
             /\ sheet[d] # Empty => sheet[d].busy # i
    <3>1. \A v \in Views : sheet[v] # Empty => sheet[v].busy # i
      BY <1>4, <2>1 DEF FormsWait
    <3> QED BY <1>1, <1>3, <2>1, <3>1 DEF FormsWait, Backed
  <2>2. CASE \E r \in Sheet : /\ r.email = sheet[d].email /\ r.busy = Empty
                              /\ r.codeSent => sheet[d].codeSent \/ task[i].step = "sent"
                              /\ sheet[d] # Empty /\ sheet[d].busy = i
                              /\ sheet' = [sheet EXCEPT ![d] = r]
    <3>1. PICK r \in Sheet : /\ r.email = sheet[d].email /\ r.busy = Empty
                             /\ r.codeSent => sheet[d].codeSent \/ task[i].step = "sent"
                             /\ sheet[d] # Empty /\ sheet[d].busy = i
                             /\ sheet' = [sheet EXCEPT ![d] = r]
      BY <2>2
    <3>a. sheet \in [Views -> Sheet \cup {Empty}]
      BY DEF SettingTypes
    <3> HIDE DEF Sheet, Task
    <3>2. \A v \in Views : sheet'[v] = IF v = d THEN r ELSE sheet[v]
      BY <1>4, <3>1, <3>a
    <3>3. \A v \in Views : sheet[v] # Empty /\ Backed(v) => Backed(v)'
      BY <1>1, <3>1, <3>2 DEF Backed
    <3>4. ASSUME NEW v \in Views, v # d, sheet'[v] # Empty
          PROVE  /\ visible'[v] /\ known'[v] # Empty
                 /\ sheet'[v].codeSent => Backed(v)'
                 /\ \A j \in Tasks : sheet'[v].busy = j =>
                      /\ task'[j] # NotBegun /\ task'[j].step # "over" /\ task'[j].view = v
                      /\ task'[j].step \in {"saved", "changed", "reread"} => known'[v].at < task'[j].at
                      /\ task'[j].step \in {"send", "sent"} => Backed(v)'
      <4>1. sheet'[v] = sheet[v] /\ sheet[v] # Empty
        BY <3>2, <3>4
      <4>2. \A j \in Tasks : sheet[v].busy = j => j # i
        BY <1>4, <3>4, <4>1 DEF FormsWait
      <4>3. \A j \in Tasks : sheet[v].busy = j => task'[j] = task[j]
        BY <1>3, <4>2
      <4> QED BY <1>1, <3>3, <4>1, <4>3 DEF FormsWait
    <3>5. /\ visible'[d] /\ known'[d] # Empty
          /\ r.codeSent => Backed(d)'
      BY <1>1, <1>4, <3>1, <3>3 DEF FormsWait
    <3>6. \A j \in Tasks : sheet'[d].busy # j
      BY <1>4, <3>1, <3>2, MailSettingsAssumption
    <3> QED BY <1>4, <3>2, <3>4, <3>5, <3>6 DEF FormsWait
  <2> QED BY <1>6, <2>1, <2>2
<1> QED BY <1>7, <1>8, <1>9, <1>10, <1>11

\* What is begun: for sendCode without a change of the address the form has the
\* one that was read.
LEMMA BegunKeeps ==
  ASSUME SettingsInv, NEW d \in Views, NEW i \in Tasks,
         SaveSettings(d, i) \/ SendCode(d, i) \/ ConfirmCode(d, i)
  PROVE  SettingsInv'
<1>1. CASE SaveSettings(d, i)
  BY <1>1, BeginKeeps DEF SaveSettings
<1>2. CASE SendCode(d, i)
  BY <1>2, BeginKeeps DEF SendCode
<1>3. CASE ConfirmCode(d, i)
  BY <1>3, BeginKeeps DEF ConfirmCode
<1> QED BY <1>1, <1>2, <1>3

\* In the beginning nobody has read anything.
LEMMA SettingsStart == SettingsInit => SettingsInv
<1> SUFFICES ASSUME SettingsInit
             PROVE  SettingsInv
  OBVIOUS
<1>1. SettingTypes
  <2>1. mailbox.email \in Address /\ mailbox \in Mailbox
    BY DEF SettingsInit, Address
  <2>2. /\ known \in [Views -> Known \cup {Empty}] /\ reading \in [Views -> Known \cup {Empty}]
        /\ visible \in [Views -> BOOLEAN] /\ sheet \in [Views -> Sheet \cup {Empty}]
    BY DEF SettingsInit
  <2>3. task \in [Tasks -> Task \cup {NotBegun}]
    <3> HIDE DEF Task
    <3> QED BY DEF SettingsInit
  <2>4. writes \in Seq(Write) /\ codeFor \in Address
    BY DEF SettingsInit, Address
  <2> QED BY <2>1, <2>2, <2>3, <2>4 DEF SettingTypes
<1> QED BY <1>1 DEF SettingsInit, SettingsInv, CopiesFollow, LastWritten, WritesKnown, HeardIsRead, FormsWait

\* Every step of a tab and of the server keeps the invariant.
LEMMA SettingsKept == SettingsInv /\ [SettingsNext]_settingVars => SettingsInv'
<1> SUFFICES ASSUME SettingsInv, [SettingsNext]_settingVars
             PROVE  SettingsInv'
  OBVIOUS
<1>1. CASE UNCHANGED settingVars
  BY <1>1 DEF settingVars, SettingsInv, SettingTypes, CopiesFollow, Follows, LastWritten, WritesKnown,
              HeardIsRead, Heard, Rereads, FormsWait, Backed
<1>2. ASSUME NEW d \in Views,
             \/ ServeSettings(d) \/ SettingsRead(d) \/ SettingsFail(d)
             \/ LeaveSettings(d) \/ ReturnToSettings(d) \/ SwitchMail(d)
             \/ \E a \in Address : EditAddress(d, a)
             \/ \E i \in Tasks : SaveSettings(d, i) \/ SendCode(d, i) \/ ConfirmCode(d, i)
      PROVE  SettingsInv'
  BY <1>2, ServeSettingsKeeps, SettingsReadKeeps, SettingsFailKeeps, LeaveSettingsKeeps,
     ReturnToSettingsKeeps, SwitchMailKeeps, EditAddressKeeps, BegunKeeps
<1>3. ASSUME NEW i \in Tasks,
             \/ ServePut(i) \/ ServeSend(i) \/ ServeVerify(i) \/ LoseTask(i)
             \/ SettingsSaved(i) \/ AddressChanged(i) \/ TaskEnds(i)
      PROVE  SettingsInv'
  BY <1>3, ServePutKeeps, ServeSendKeeps, ServeVerifyKeeps, LoseTaskKeeps, SettingsSavedKeeps,
     AddressChangedKeeps, TaskEndsKeeps
<1> QED BY <1>1, <1>2, <1>3 DEF SettingsNext

\* The inductive invariant holds for any number of tabs, addresses and tasks.
THEOREM SettingsInvariance == SettingsSpec => []SettingsInv
<1> QED BY SettingsStart, SettingsKept, PTL DEF SettingsSpec

\* The invariant has the types in it.
LEMMA SettingsInvTyped == SettingsInv => SettingsTypeOK
<1> SUFFICES ASSUME SettingsInv
             PROVE  SettingsTypeOK
  OBVIOUS
<1>1. SettingTypes /\ FormsWait
  BY DEF SettingsInv
<1>2. ASSUME NEW d \in Views, sheet[d] # Empty
      PROVE  /\ visible[d] /\ known[d] # Empty
             /\ sheet[d].busy # Empty =>
                  LET t == task[sheet[d].busy] IN t # NotBegun /\ t.step # "over" /\ t.view = d
  <2>1. sheet[d].busy \in Tasks \cup {Empty}
    BY <1>1, <1>2 DEF SettingTypes
  <2> QED BY <1>1, <1>2, <2>1 DEF FormsWait
<1> QED BY <1>1, <1>2 DEF SettingsTypeOK, SettingTypes

\* The type invariant: a form is of a tab that is shown and has read, and waits for
\* a task of its own.
THEOREM SettingsTyped == SettingsSpec => []SettingsTypeOK
<1> QED BY SettingsInvariance, SettingsInvTyped, PTL

\* If nothing was written since, the copy that was read and the form made from it
\* are right.  Otherwise, if the tab has been shown all it was told of and no
\* address but the one in the form was stored in between, all it knows nothing of
\* are changes of its own to that address, and the last of them is stored.
LEMMA SettingsInvTells == SettingsInv => SettingsTell
<1> SUFFICES ASSUME SettingsInv, NEW d \in Views, Editable(d), Badge(d) \/ CodeEntry(d),
                    \A w \in 1 .. Len(writes) : w > known[d].at => ~ Unheard(d, w) /\ ~ Departed(d, w)
             PROVE  mailbox.email = sheet[d].email /\ (Badge(d) => mailbox.verified)
  BY DEF SettingsTell
<1> USE DEF SettingsInv
<1>1. sheet[d] # Empty /\ known[d] # Empty
  BY DEF Editable, FormsWait
<1>2. /\ known[d] \in Known /\ known[d].at \in Nat /\ sheet[d] \in Sheet
      /\ Len(writes) \in Nat /\ known[d].at <= Len(writes)
  BY <1>1 DEF SettingTypes, CopiesFollow, Follows
<1>3. ASSUME NEW w \in known[d].at + 1 .. Len(writes)
      PROVE  writes[w].kind = "change" /\ writes[w].email = sheet[d].email
  <2>1. w \in 1 .. Len(writes) /\ w > known[d].at
    BY <1>2
  <2>2. /\ writes[w].view = d /\ writes[w].told
        /\ ~ \E i \in Tasks : Rereads(d, i) /\ task[i].at = w
        /\ ~ (writes[w].kind = "change" /\ writes[w].email # sheet[d].email)
    BY <2>1 DEF Unheard, Departed
  <2>3. ~ Heard(d, w)
    BY <1>1, <2>2 DEF HeardIsRead
  <2> QED BY <2>2, <2>3 DEF Heard
<1>4. CASE known[d].at = Len(writes)
  <2>1. \A w \in known[d].at + 1 .. Len(writes) : FALSE
    BY <1>2, <1>4
  <2>2. mailbox.email = known[d].email /\ mailbox.verified = known[d].verified
    BY <1>1, <2>1 DEF CopiesFollow, Follows
  <2>3. sheet[d].email = known[d].email
    BY <1>1, <1>2, <1>4 DEF FormsWait, Backed, Badge, CodeEntry
  <2> QED BY <2>2, <2>3 DEF Badge
<1>5. CASE known[d].at < Len(writes)
  <2>1. Len(writes) \in known[d].at + 1 .. Len(writes) /\ Len(writes) > 0
    BY <1>2, <1>5
  <2>2. mailbox.email = sheet[d].email
    BY <1>3, <2>1 DEF LastWritten
  <2>3. ASSUME Badge(d)
        PROVE  mailbox.verified
    <3>1. sheet[d].email = known[d].email /\ known[d].verified
      BY <2>3 DEF Badge
    <3>2. \A w \in known[d].at + 1 .. Len(writes) :
            writes[w].kind = "change" /\ writes[w].email = known[d].email
      BY <1>3, <3>1
    <3>3. Follows(known[d])
      BY <1>1 DEF CopiesFollow
    <3> QED BY <3>1, <3>2, <3>3 DEF Follows
  <2> QED BY <2>2, <2>3
<1> QED BY <1>2, <1>4, <1>5

\* What the form says of its address, and that a code is on its way to it, is so
\* unless another task wrote after the form was read: in the other tab, or an
\* earlier form's.
THEOREM SettingsTold == SettingsSpec => []SettingsTell
<1> QED BY SettingsInvariance, SettingsInvTells, PTL
HIDE DEF NotBegun, Task, Known, Sheet, Mailbox
HIDE MailSettingsAssumption

-----------------------------------------------------------------------------
(* The API reference. *)

\* The requests are numbered as they are sent.
InOrder == \A i, j \in Calls : i < j /\ Made(j) => Made(i)

\* The key in the form was entered for the endpoint of the page.
KeyEntered == key # NoKey => <<hash, key>> \in entered

ExplorerInv == ReferenceTypeOK /\ InOrder /\ KeyEntered /\ ExplorerTells

\* A request is a record, and NotMade is none.
LEMMA MadeCalls ==
  /\ \A i \in Calls : i \in Nat /\ i # NoAnswer
  /\ \A c \in ExplorerCall : c # NotMade
<1>1. \A i \in Calls : i \in Nat /\ i # NoAnswer
  BY ReferenceAssumption DEF Calls, NoAnswer
<1>2. \A c \in ExplorerCall : c # NotMade
  <2>1. \A c \in ExplorerCall : c.heard # "none"
    BY DEF ExplorerCall
  <2>2. NotMade.heard = "none"
    BY DEF NotMade
  <2> QED BY <2>1, <2>2
<1> QED BY <1>1, <1>2

\* The explorer goes with all it holds.
LEMMA UnmountKeeps ==
  ASSUME ExplorerInv, Unmount, UNCHANGED <<catalog, entered>>,
         hash' \in Endpoints \cup {Guide}, there' \in BOOLEAN
  PROVE  ExplorerInv'
<1> USE DEF ExplorerInv, ReferenceTypeOK
<1>1. \A i \in Calls :
        /\ calls'[i] \in ExplorerCall \cup {NotMade}
        /\ Made(i)' <=> Made(i)
        /\ Made(i) => /\ ~ calls'[i].live
                      /\ calls'[i].endpoint = calls[i].endpoint /\ calls'[i].key = calls[i].key
  <2> SUFFICES ASSUME NEW i \in Calls
               PROVE  /\ calls'[i] \in ExplorerCall \cup {NotMade}
                      /\ Made(i)' <=> Made(i)
                      /\ Made(i) => /\ ~ calls'[i].live
                                    /\ calls'[i].endpoint = calls[i].endpoint
                                    /\ calls'[i].key = calls[i].key
    OBVIOUS
  <2>1. CASE Made(i)
    <3>1. calls[i] \in ExplorerCall /\ calls'[i] = [calls[i] EXCEPT !.live = FALSE]
      BY <2>1 DEF Unmount, Made
    <3>2. /\ calls'[i] \in ExplorerCall /\ ~ calls'[i].live
          /\ calls'[i].endpoint = calls[i].endpoint /\ calls'[i].key = calls[i].key
      BY <3>1 DEF ExplorerCall
    <3> QED BY <2>1, <3>2, MadeCalls DEF Made
  <2>2. CASE ~ Made(i)
    BY <2>2 DEF Unmount, Made
  <2> QED BY <2>1, <2>2
<1>2. Mine' = {}
  BY <1>1 DEF Mine
<1>3. calls' \in [Calls -> ExplorerCall \cup {NotMade}]
  <2>1. calls' = [i \in Calls |-> calls'[i]]
    BY DEF Unmount
  <2> QED BY <1>1, <2>1
<1>4. ReferenceTypeOK'
  BY <1>3 DEF Unmount
<1>5. InOrder'
  BY <1>1 DEF InOrder
<1>6. ExplorerTells'
  <2>1. \A i \in Calls : Made(i)' => <<calls'[i].endpoint, calls'[i].key>> \in entered'
    BY <1>1 DEF ExplorerTells
  <2>2. result' = NoAnswer /\ trying' = FALSE
    BY DEF Unmount
  <2> QED BY <1>2, <2>1, <2>2 DEF ExplorerTells
<1>7. KeyEntered'
  BY DEF Unmount, KeyEntered
<1> QED BY <1>4, <1>5, <1>6, <1>7

\* The form and the catalog change while the requests are as they were.
LEMMA FormKeeps ==
  ASSUME ExplorerInv, UNCHANGED <<hash, trying, error, result, calls>>,
         catalog' \in SUBSET Endpoints, there' \in BOOLEAN, there => there',
         key' \in Keys \cup {NoKey}, whole' \in BOOLEAN,
         entered \subseteq entered', entered' \subseteq Endpoints \X Keys,
         ~ Exploring' => key' = NoKey, KeyEntered'
  PROVE  ExplorerInv'
<1> USE DEF ExplorerInv
<1>1. ReferenceTypeOK'
  BY DEF ReferenceTypeOK, Exploring
<1>2. InOrder'
  BY DEF InOrder, Made
<1>3. ExplorerTells'
  BY DEF ExplorerTells, Mine, Made, Tells
<1> QED BY <1>1, <1>2, <1>3

\* A request is sent when nothing is waited for.
LEMMA TryKeeps ==
  ASSUME ExplorerInv, Try
  PROVE  ExplorerInv'
<1> USE DEF ExplorerInv, ReferenceTypeOK
<1>1. CASE hash \in Posting /\ ~ whole
  <2>1. ReferenceTypeOK'
    BY <1>1 DEF Try, Exploring
  <2>2. InOrder'
    BY <1>1 DEF Try, InOrder, Made
  <2>3. ExplorerTells'
    BY <1>1, MadeCalls DEF Try, ExplorerTells, Mine, Made, Tells
  <2>4. KeyEntered'
    BY <1>1 DEF Try, KeyEntered
  <2> QED BY <2>1, <2>2, <2>3, <2>4
<1>2. CASE ~ (hash \in Posting /\ ~ whole)
  <2> DEFINE c == [endpoint |-> hash, key |-> key, live |-> TRUE,
                   served |-> "not", heard |-> "waiting"]
  <2>1. PICK i \in Calls : /\ ~ Made(i) /\ \A j \in Calls : j < i => Made(j)
                           /\ calls' = [calls EXCEPT ![i] = c]
    BY <1>2 DEF Try
  <2>2. /\ c \in ExplorerCall /\ hash \in Endpoints /\ key \in Keys
        /\ c.endpoint = hash /\ c.key = key /\ c.live /\ c.heard = "waiting"
    BY DEF Try, Exploring, ExplorerCall
  <2> HIDE DEF c
  <2>3. /\ error' = "none" /\ trying' = TRUE /\ result' = NoAnswer /\ Exploring'
        /\ UNCHANGED <<catalog, there, hash, key, whole, entered>>
    BY <1>2 DEF Try, Exploring
  <2>4. calls' \in [Calls -> ExplorerCall \cup {NotMade}] /\ calls'[i] = c
    BY <2>1, <2>2
  <2>5. \A j \in Calls : j # i => calls'[j] = calls[j]
    BY <2>1
  <2>6. ReferenceTypeOK'
    BY <2>3, <2>4
  <2>7. \A j \in Calls : Made(j)' <=> Made(j) \/ j = i
    BY <2>2, <2>4, <2>5, MadeCalls DEF Made
  <2>8. \A j \in Calls : Made(j) => j < i
    BY <2>1, MadeCalls DEF InOrder
  <2>9. InOrder'
    BY <2>1, <2>7, <2>8, MadeCalls DEF InOrder
  <2>10. Mine' = Mine \cup {i} /\ \A j \in Mine : j < i /\ calls'[j] = calls[j]
    BY <2>2, <2>4, <2>5, <2>7, <2>8, MadeCalls DEF Mine
  <2>11. <<hash, key>> \in entered /\ KeyEntered'
    BY <2>3 DEF Try, KeyEntered
  <2>12. ExplorerTells'
    <3>1. \A j \in Calls : Made(j)' => <<calls'[j].endpoint, calls'[j].key>> \in entered'
      BY <2>2, <2>3, <2>4, <2>5, <2>7, <2>11 DEF ExplorerTells
    <3>2. trying' <=> \E j \in Mine' : calls'[j].heard = "waiting"
      BY <2>2, <2>3, <2>4, <2>10
    <3>3. ASSUME NEW j \in Mine'
          PROVE  /\ calls'[j].endpoint = hash'
                 /\ IF \E k \in Mine' : k > j THEN calls'[j].heard # "waiting" /\ result' # j
                    ELSE Tells(j)'
      <4>1. CASE j = i
        <5>1. ~ \E k \in Mine' : k > i
          <6>1. \A k \in Mine' : k = i \/ k < i
            BY <2>10
          <6>2. \A k \in Mine' : k \in Nat
            BY MadeCalls DEF Mine
          <6> QED BY <6>1, <6>2, MadeCalls
        <5>2. Tells(i)'
          BY <2>2, <2>3, <2>4 DEF Tells
        <5> QED BY <2>2, <2>3, <2>4, <4>1, <5>1, <5>2
      <4>2. CASE j # i
        <5>1. j \in Mine /\ i > j /\ i \in Mine' /\ calls'[j] = calls[j] /\ j \in Calls
          BY <2>10, <4>2, MadeCalls DEF Mine
        <5>2. calls[j].heard # "waiting" /\ calls[j].endpoint = hash
          BY <5>1 DEF Try, ExplorerTells
        <5> QED BY <2>3, <5>1, <5>2, MadeCalls
      <4> QED BY <4>1, <4>2
    <3> QED BY <2>3, <3>1, <3>2, <3>3 DEF ExplorerTells
  <2> QED BY <2>6, <2>9, <2>11, <2>12
<1> QED BY <1>1, <1>2

\* The gateway serves a request, which the browser does not see yet.
LEMMA ServeKeeps ==
  ASSUME ExplorerInv, NEW i \in Calls, Serve(i)
  PROVE  ExplorerInv'
<1> USE DEF ExplorerInv, ReferenceTypeOK
<1>1. PICK v \in {"charged", "refused"} : calls' = [calls EXCEPT ![i] = [calls[i] EXCEPT !.served = v]]
  BY DEF Serve
<1>2. calls[i] \in ExplorerCall
  BY DEF Serve, Made
<1>3. calls' \in [Calls -> ExplorerCall \cup {NotMade}]
  <2>1. [calls[i] EXCEPT !.served = v] \in ExplorerCall
    BY <1>2 DEF ExplorerCall
  <2> QED BY <1>1, <2>1
<1>4. \A j \in Calls :
        /\ Made(j)' <=> Made(j)
        /\ Made(j) => /\ calls'[j].live = calls[j].live /\ calls'[j].heard = calls[j].heard
                      /\ calls'[j].endpoint = calls[j].endpoint /\ calls'[j].key = calls[j].key
  <2> SUFFICES ASSUME NEW j \in Calls
               PROVE  /\ Made(j)' <=> Made(j)
                      /\ Made(j) => /\ calls'[j].live = calls[j].live
                                    /\ calls'[j].heard = calls[j].heard
                                    /\ calls'[j].endpoint = calls[j].endpoint
                                    /\ calls'[j].key = calls[j].key
    OBVIOUS
  <2>1. CASE j = i
    <3>1. calls'[i] = [calls[i] EXCEPT !.served = v]
      BY <1>1
    <3>2. /\ calls'[i] \in ExplorerCall
          /\ calls'[i].live = calls[i].live /\ calls'[i].heard = calls[i].heard
          /\ calls'[i].endpoint = calls[i].endpoint /\ calls'[i].key = calls[i].key
      BY <1>2, <3>1 DEF ExplorerCall
    <3> QED BY <1>2, <2>1, <3>2, MadeCalls DEF Made
  <2>2. CASE j # i
    BY <1>1, <2>2 DEF Made
  <2> QED BY <2>1, <2>2
<1>5. Mine' = Mine
  BY <1>4 DEF Mine
<1>6. ReferenceTypeOK'
  BY <1>3 DEF Serve, Exploring
<1>7. InOrder' /\ KeyEntered'
  BY <1>4 DEF InOrder, KeyEntered, Serve
<1>8. ExplorerTells'
  <2>1. \A j \in Mine : j \in Calls /\ Made(j)
    BY DEF Mine
  <2>2. \A j \in Mine : Tells(j)' <=> Tells(j)
    BY <1>4, <2>1 DEF Tells, Serve
  <2> QED BY <1>4, <1>5, <2>1, <2>2 DEF Serve, ExplorerTells
<1> QED BY <1>6, <1>7, <1>8

\* Something comes of a request: an answer, or none.
LEMMA HeardKeeps ==
  ASSUME ExplorerInv, NEW i \in Calls, Answer(i) \/ GiveUp(i)
  PROVE  ExplorerInv'
<1> USE DEF ExplorerInv, ReferenceTypeOK
<1>1. PICK v \in {"answered", "timeout", "network"} :
        /\ calls' = [calls EXCEPT ![i] = [calls[i] EXCEPT !.heard = v]]
        /\ ~ calls[i].live => UNCHANGED <<error, result>>
        /\ calls[i].live /\ v = "answered" => result' = i /\ error' = error
        /\ calls[i].live /\ v # "answered" => result' = result /\ error' = v
  BY DEF Answer, GiveUp
<1>t. trying' = (trying /\ ~ calls[i].live)
  BY DEF Answer, GiveUp
<1>2. /\ calls[i] \in ExplorerCall /\ Made(i) /\ calls[i].heard = "waiting"
      /\ UNCHANGED <<catalog, there, hash, key, whole, entered>>
  BY DEF Answer, GiveUp, Made
<1>3. calls' \in [Calls -> ExplorerCall \cup {NotMade}]
  <2>1. [calls[i] EXCEPT !.heard = v] \in ExplorerCall
    BY <1>2 DEF ExplorerCall
  <2> QED BY <1>1, <2>1
<1>4. /\ Made(i)' /\ calls'[i].live = calls[i].live /\ calls'[i].heard = v
      /\ calls'[i].endpoint = calls[i].endpoint /\ calls'[i].key = calls[i].key
  <2>1. calls'[i] = [calls[i] EXCEPT !.heard = v]
    BY <1>1
  <2>2. /\ calls'[i] \in ExplorerCall
        /\ calls'[i].live = calls[i].live /\ calls'[i].heard = v
        /\ calls'[i].endpoint = calls[i].endpoint /\ calls'[i].key = calls[i].key
    BY <1>2, <2>1 DEF ExplorerCall
  <2> QED BY <2>2, MadeCalls DEF Made
<1>5. \A j \in Calls : j # i => calls'[j] = calls[j] /\ (Made(j)' <=> Made(j))
  BY <1>1 DEF Made
<1>6. Mine' = Mine
  BY <1>2, <1>4, <1>5 DEF Mine
<1>7. InOrder' /\ KeyEntered'
  BY <1>2, <1>4, <1>5 DEF InOrder, KeyEntered
<1>8. \A j \in Calls : Made(j)' => <<calls'[j].endpoint, calls'[j].key>> \in entered'
  BY <1>2, <1>4, <1>5 DEF ExplorerTells
<1>9. CASE i \notin Mine
  <2>1. ~ calls[i].live /\ UNCHANGED <<error, result, trying>>
    BY <1>1, <1>2, <1>9, <1>t DEF Mine
  <2>2. ReferenceTypeOK'
    BY <1>2, <1>3, <2>1 DEF Exploring
  <2>3. \A j \in Mine : calls'[j] = calls[j] /\ (Tells(j)' <=> Tells(j))
    BY <1>5, <1>9, <2>1 DEF Mine, Tells
  <2>4. ExplorerTells'
    BY <1>2, <1>6, <1>8, <2>1, <2>3 DEF ExplorerTells
  <2> QED BY <1>7, <2>2, <2>4
<1>10. CASE i \in Mine
  <2>1. calls[i].live /\ trying /\ trying' = FALSE
    BY <1>2, <1>10, <1>t DEF Mine, ExplorerTells
  <2>2. (\A j \in Mine : ~ (j > i)) /\ Tells(i) /\ result = NoAnswer /\ error = "none"
    BY <1>2, <1>10 DEF ExplorerTells, Tells
  <2>3. \A j \in Mine : j # i => i > j /\ calls[j].heard # "waiting" /\ calls'[j] = calls[j]
    <3>1. \A j \in Mine : j \in Nat /\ i \in Nat
      BY MadeCalls DEF Mine
    <3>2. \A j \in Mine : j # i => i > j
      BY <2>2, <3>1
    <3>3. \A j \in Mine : j # i => calls[j].heard # "waiting"
      BY <1>10, <3>2 DEF ExplorerTells
    <3>4. \A j \in Mine : j # i => calls'[j] = calls[j]
      BY <1>5 DEF Mine
    <3> QED BY <3>2, <3>3, <3>4
  <2>4. result' \in {i, NoAnswer} /\ Tells(i)' /\ error' \in {"none", "timeout", "network"}
    BY <1>1, <1>4, <2>1, <2>2 DEF Tells
  <2>5. ReferenceTypeOK'
    BY <1>2, <1>3, <2>1, <2>4 DEF Exploring
  <2>6. ~ \E j \in Mine : calls'[j].heard = "waiting"
    BY <1>4, <2>3
  <2>7. ASSUME NEW j \in Mine
        PROVE  /\ calls'[j].endpoint = hash'
               /\ IF \E k \in Mine : k > j THEN calls'[j].heard # "waiting" /\ result' # j
                  ELSE Tells(j)'
    <3>1. CASE j = i
      BY <1>2, <1>4, <1>10, <2>2, <2>4, <3>1 DEF ExplorerTells
    <3>2. CASE j # i
      <4>1. i > j /\ calls[j].heard # "waiting" /\ calls'[j] = calls[j]
        BY <2>3, <3>2
      <4>2. result' # j
        BY <2>4, <3>2, MadeCalls DEF Mine
      <4>3. calls[j].endpoint = hash
        BY DEF ExplorerTells
      <4> QED BY <1>2, <1>10, <4>1, <4>2, <4>3
    <3> QED BY <3>1, <3>2
  <2>8. result' # NoAnswer => result' \in Mine'
    BY <1>6, <1>10, <2>4
  <2>9. ExplorerTells'
    BY <1>6, <1>8, <2>1, <2>6, <2>7, <2>8 DEF ExplorerTells
  <2> QED BY <1>7, <2>5, <2>9
<1> QED BY <1>9, <1>10

\* The requests of the explorer, what it waits for and what it says stay in step
\* (ExplorerInv).
LEMMA ExplorerInvariance == ReferenceSpec => []ExplorerInv
<1>1. ReferenceInit => ExplorerInv
  <2> SUFFICES ASSUME ReferenceInit PROVE ExplorerInv
    OBVIOUS
  <2>1. \A i \in Calls : ~ Made(i)
    BY DEF ReferenceInit, Made
  <2> QED BY <2>1 DEF ReferenceInit, ExplorerInv, ReferenceTypeOK, InOrder, KeyEntered,
                    ExplorerTells, Mine
<1>2. ExplorerInv /\ [ReferenceNext]_referenceVars => ExplorerInv'
  <2> SUFFICES ASSUME ExplorerInv, [ReferenceNext]_referenceVars PROVE ExplorerInv'
    OBVIOUS
  <2>1. CASE UNCHANGED referenceVars
    BY <2>1 DEF referenceVars, ExplorerInv, ReferenceTypeOK, Exploring, InOrder, KeyEntered,
                ExplorerTells, Mine, Made, Tells
  <2>2. ASSUME NEW h \in Endpoints \cup {Guide}, Follow(h) PROVE ExplorerInv'
    BY <2>2, UnmountKeeps DEF Follow, ExplorerInv, ReferenceTypeOK
  <2>3. CASE CatalogFails
    BY <2>3, UnmountKeeps DEF CatalogFails, ExplorerInv, ReferenceTypeOK
  <2>4. CASE CatalogRead
    BY <2>4, FormKeeps DEF CatalogRead, ExplorerInv, ReferenceTypeOK, Exploring, KeyEntered
  <2>5. ASSUME NEW k \in Keys \cup {NoKey}, EnterKey(k) PROVE ExplorerInv'
    BY <2>5, FormKeeps DEF EnterKey, ExplorerInv, ReferenceTypeOK, Exploring, KeyEntered
  <2>6. CASE EditBody
    BY <2>6, FormKeeps DEF EditBody, ExplorerInv, ReferenceTypeOK, Exploring, KeyEntered
  <2>7. CASE Try
    BY <2>7, TryKeeps
  <2>8. ASSUME NEW i \in Calls, Serve(i) \/ Answer(i) \/ GiveUp(i) PROVE ExplorerInv'
    BY <2>8, ServeKeeps, HeardKeeps
  <2> QED BY <2>1, <2>2, <2>3, <2>4, <2>5, <2>6, <2>7, <2>8 DEF ReferenceNext
<1> QED BY <1>1, <1>2, PTL DEF ReferenceSpec

\* The type of the API reference.
THEOREM ReferenceTyped == ReferenceSpec => []ReferenceTypeOK
<1>1. ExplorerInv => ReferenceTypeOK
  BY DEF ExplorerInv
<1> QED BY <1>1, ExplorerInvariance, PTL

\* An explorer sends a key only to endpoints it was entered for, and tells what
\* came of its last request, for any number of endpoints, keys and requests.
THEOREM ExplorerTold == ReferenceSpec => []ExplorerTells
<1>1. ExplorerInv => ExplorerTells
  BY DEF ExplorerInv
<1> QED BY <1>1, ExplorerInvariance, PTL

-----------------------------------------------------------------------------
(* The pages together. *)

(* The type invariants of the pages hold side by side, for any number of      *)
(* applications, lists, tabs, tasks and requests.                             *)
THEOREM ConsoleTyped == ConsoleSpec => []ConsoleTypeOK
BY ApplicationsTyped, ListsTyped, BellsTyped, SettingsTyped, ReferenceTyped, PTL
   DEF ConsoleSpec, ConsoleTypeOK
=============================================================================
