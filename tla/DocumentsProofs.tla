-------------------------- MODULE DocumentsProofs --------------------------
(***************************************************************************)
(* The documents of one browser, for any number of documents, accounts,    *)
(* sessions, lost answers and restarts: a visit is recorded before its page*)
(* is shown and not again (VisitsHonest), and a page is of the account it  *)
(* shows (PageBelongs).                                                    *)
(*                                                                         *)
(* DocumentsInv says what lies behind these: a session that is anywhere has*)
(* been given out, a closed document asks for nothing, a visit's count is  *)
(* known by its stage, and a document that has the token of the cookie     *)
(* shows the cookie's account, has asked who that is, or has an error      *)
(* (TokenFollows). One lemma per action.                                   *)
(***************************************************************************)
EXTENDS Documents, TLAPS

-----------------------------------------------------------------------------
(* The inductive invariant. *)

\* A session that is anywhere in a document has been given out, so that the
\* next sign-in brings one that is nowhere.
SessionsKnown ==
  /\ cookie # Nobody => holder[cookie] # Nobody
  /\ \A d \in Docs : csrf[d] # Nobody => holder[csrf[d]] # Nobody
  /\ \A d \in Docs, r \in Runs : query[d][r].stage # "none" =>
       /\ query[d][r].session # Nobody => holder[query[d][r].session] # Nobody
       /\ query[d][r].stage \in {"told", "waiting"} => query[d][r].session # Nobody
  /\ \A d \in Docs, u \in Accounts : visit[d][u].stage # "none" => holder[visit[d][u].token] = u

\* A document that is not open asks for nothing.
ClosedIdle ==
  \A d \in Docs : d \notin open =>
    csrf[d] = Nobody /\ shown[d] = Nobody /\ \A r \in Runs : query[d][r].stage = "none"

\* A visit is counted while it is in the map; one that was taken out again and
\* counted had its answer lost.
Held(d, u) == IF visit[d][u].stage \in {"stored", "done"} THEN 1 ELSE 0
VisitsCounted ==
  \A d \in Docs, u \in Accounts : recorded[d][u] >= Held(d, u) /\ recorded[d][u] <= Held(d, u) + faults

\* Only what was visited is shown, and only what is being visited is waited for.
ShownVisited ==
  \A d \in Docs : shown[d] # Nobody => visit[d][shown[d]].stage = "done"
WaitingVisited ==
  \A d \in Docs, r \in Runs : query[d][r].stage = "waiting" =>
    visit[d][holder[query[d][r].session]].stage \notin {"none", "done"}

\* A document that has the cookie's token, or is about to get it from a query
\* that was replaced, shows the cookie's account, has asked for it, or was told
\* of an error instead.
Aware(d) ==
  \/ csrf[d] = cookie
  \/ query[d]["replaced"].stage # "none" /\ query[d]["replaced"].session = cookie
TokenFollows ==
  \A d \in Docs : cookie # Nobody /\ Aware(d) =>
    IF query[d]["current"].stage = "none"
    THEN shown[d] # Nobody /\ error[d] = "none" => shown[d] = holder[cookie]
    ELSE query[d]["current"].session = cookie

\* The types of the variables one by one.
DocumentTypes ==
  /\ cookie \in Sessions \cup {Nobody}
  /\ holder \in [Sessions -> Accounts \cup {Nobody}]
  /\ live \subseteq {s \in Sessions : holder[s] # Nobody}
  /\ open \subseteq Docs
  /\ home \subseteq open
  /\ csrf \in [Docs -> Sessions \cup {Nobody}]
  /\ query \in [Docs -> [Runs -> Fetch \cup {NoFetch}]]
  /\ visit \in [Docs -> [Accounts -> Visit \cup {NoVisit}]]
  /\ recorded \in [Docs -> [Accounts -> Nat]]
  /\ shown \in [Docs -> Accounts \cup {Nobody}]
  /\ error \in [Docs -> {"none", "failed", "denied"}]
  /\ sidebar \in [Docs -> Accounts \cup {Default}]
  /\ stored \in [Accounts -> Accounts \cup {Default}]
  /\ faults \in 0 .. MaxFaults /\ restarts \in 0 .. MaxRestarts

DocumentsInv ==
  /\ DocumentTypes /\ SessionsKnown /\ ClosedIdle /\ VisitsCounted
  /\ ShownVisited /\ WaitingVisited /\ TokenFollows /\ SidebarIsOwn

USE DocumentsAssumption DEF NoFetch, NoVisit, Fetch, Visit, Runs

\* A resolved query shows its account under the sidebar of that account.
LEMMA ResolvedShows ==
  ASSUME DocumentTypes, SidebarIsOwn, NEW d \in Docs, NEW u \in Accounts, Resolved(d, u),
         d \in open, open' = open, home' = home, stored' = stored
  PROVE  /\ shown' = [shown EXCEPT ![d] = u]
         /\ error' = [error EXCEPT ![d] = "none"]
         /\ sidebar' \in [Docs -> Accounts \cup {Default}]
         /\ SidebarIsOwn'
<1>1. /\ shown' = [shown EXCEPT ![d] = u]
      /\ error' = [error EXCEPT ![d] = "none"]
  BY DEF Resolved
<1>2. PICK v \in {sidebar[d], stored[u]} :
        /\ sidebar' = [sidebar EXCEPT ![d] = v]
        /\ v \in {Default, u}
  BY DEF Resolved, SidebarIsOwn
<1>3. sidebar' \in [Docs -> Accounts \cup {Default}]
  BY <1>2 DEF DocumentTypes
<1>4. SidebarIsOwn'
  BY <1>1, <1>2 DEF SidebarIsOwn, DocumentTypes, Mounted
<1> QED BY <1>1, <1>3, <1>4

\* A query that went on waiting waits for the same visit, which is not over.
LEMMA WaitingSame ==
  ASSUME DocumentTypes, SessionsKnown, WaitingVisited,
         \A e \in Docs, q \in Runs : query'[e][q].stage = "waiting" => query'[e][q] = query[e][q],
         \A s \in Sessions : holder[s] # Nobody => holder'[s] = holder[s],
         \A e \in Docs, v \in Accounts : visit'[e][v].stage \in {"none", "done"} =>
           visit[e][v].stage \in {"none", "done"}
  PROVE  WaitingVisited'
<1> SUFFICES ASSUME NEW e \in Docs, NEW q \in Runs, query'[e][q].stage = "waiting"
             PROVE  (visit[e][holder[query[e][q].session]].stage \notin {"none", "done"})'
  BY DEF WaitingVisited
<1>1. query'[e][q] = query[e][q] /\ query[e][q].stage = "waiting" /\ query[e][q] \in Fetch
  BY DEF DocumentTypes
<1>2. PICK s \in Sessions : s = query[e][q].session
  BY <1>1 DEF SessionsKnown
<1>3. PICK v \in Accounts : v = holder[s]
  BY <1>1, <1>2 DEF SessionsKnown, DocumentTypes
<1>4. visit[e][v].stage \notin {"none", "done"}
  BY <1>1, <1>2, <1>3 DEF WaitingVisited
<1>5. holder'[s] = v
  BY <1>3, DocumentsAssumption
<1> QED BY <1>1, <1>2, <1>4, <1>5

\* A document that starts anew satisfies the invariant whatever it held.
LEMMA FreshKeeps ==
  ASSUME DocumentsInv, NEW d \in Docs,
         Leaves(d), holder' = holder, stored' = stored,
         faults' = faults, restarts' = restarts,
         live' \subseteq live, cookie' \in {cookie, Nobody}
  PROVE  DocumentsInv'
<1> USE DEF DocumentsInv, Leaves, Fresh
<1>1. DocumentTypes'
  BY DEF DocumentTypes
<1>2. SessionsKnown'
  BY DEF SessionsKnown, DocumentTypes
<1>3. ClosedIdle'
  BY DEF ClosedIdle, DocumentTypes
<1>4. VisitsCounted'
  BY DEF VisitsCounted, Held, DocumentTypes
<1>5. ShownVisited'
  BY DEF ShownVisited, DocumentTypes
<1>6. WaitingVisited'
  BY DEF WaitingVisited, DocumentTypes
<1>7. TokenFollows'
  BY DEF TokenFollows, Aware, Mounted, DocumentTypes, SessionsKnown, ClosedIdle
<1>8. SidebarIsOwn'
  BY DEF SidebarIsOwn, Mounted, DocumentTypes, ClosedIdle
<1> QED BY <1>1, <1>2, <1>3, <1>4, <1>5, <1>6, <1>7, <1>8

\* A sign-in brings a session that is in no document yet.
LEMMA SignInKeeps ==
  ASSUME DocumentsInv, NEW u \in Accounts, SignIn(u)
  PROVE  DocumentsInv'
<1> USE DEF DocumentsInv, SignIn
<1>1. DocumentTypes'
  BY DEF DocumentTypes
<1>2. SessionsKnown'
  BY DEF SessionsKnown, DocumentTypes
<1>3. ClosedIdle'
  BY DEF ClosedIdle, DocumentTypes
<1>4. VisitsCounted'
  BY DEF VisitsCounted, Held, DocumentTypes, SessionsKnown
<1>5. ShownVisited'
  BY DEF ShownVisited, DocumentTypes, SessionsKnown
<1>6. WaitingVisited'
  <2>1. \A e \in Docs, q \in Runs : query'[e][q].stage = "waiting" => query'[e][q] = query[e][q]
    BY DEF DocumentTypes
  <2>2. \A x \in Sessions : holder[x] # Nobody => holder'[x] = holder[x]
    BY DEF DocumentTypes
  <2>3. \A e \in Docs, v \in Accounts : visit'[e][v].stage \in {"none", "done"} =>
         visit[e][v].stage \in {"none", "done"}
    BY DEF DocumentTypes
  <2> QED BY <2>1, <2>2, <2>3, WaitingSame
<1>7. TokenFollows'
  BY DEF TokenFollows, Aware, Mounted, DocumentTypes, SessionsKnown, ClosedIdle
<1>8. SidebarIsOwn'
  BY DEF SidebarIsOwn, Mounted, DocumentTypes, ClosedIdle
<1> QED BY <1>1, <1>2, <1>3, <1>4, <1>5, <1>6, <1>7, <1>8

\* A session that ends stays where it is written.
LEMMA EndSessionKeeps ==
  ASSUME DocumentsInv, NEW s \in Sessions, EndSession(s)
  PROVE  DocumentsInv'
<1> USE DEF DocumentsInv, EndSession
<1>1. DocumentTypes'
  BY DEF DocumentTypes
<1>2. SessionsKnown'
  BY DEF SessionsKnown, DocumentTypes
<1>3. ClosedIdle'
  BY DEF ClosedIdle, DocumentTypes
<1>4. VisitsCounted'
  BY DEF VisitsCounted, Held, DocumentTypes, SessionsKnown
<1>5. ShownVisited'
  BY DEF ShownVisited, DocumentTypes, SessionsKnown
<1>6. WaitingVisited'
  <2>1. \A e \in Docs, q \in Runs : query'[e][q].stage = "waiting" => query'[e][q] = query[e][q]
    BY DEF DocumentTypes
  <2>2. \A x \in Sessions : holder[x] # Nobody => holder'[x] = holder[x]
    BY DEF DocumentTypes
  <2>3. \A e \in Docs, v \in Accounts : visit'[e][v].stage \in {"none", "done"} =>
         visit[e][v].stage \in {"none", "done"}
    BY DEF DocumentTypes
  <2> QED BY <2>1, <2>2, <2>3, WaitingSame
<1>7. TokenFollows'
  BY DEF TokenFollows, Aware, Mounted, DocumentTypes, SessionsKnown, ClosedIdle
<1>8. SidebarIsOwn'
  BY DEF SidebarIsOwn, Mounted, DocumentTypes, ClosedIdle
<1> QED BY <1>1, <1>2, <1>3, <1>4, <1>5, <1>6, <1>7, <1>8

\* A document opens and has asked for nothing.
LEMMA OpenDocumentKeeps ==
  ASSUME DocumentsInv, NEW d \in Docs, OpenDocument(d)
  PROVE  DocumentsInv'
<1> USE DEF DocumentsInv, OpenDocument
<1>1. DocumentTypes'
  BY DEF DocumentTypes
<1>2. SessionsKnown'
  BY DEF SessionsKnown, DocumentTypes
<1>3. ClosedIdle'
  BY DEF ClosedIdle, DocumentTypes
<1>4. VisitsCounted'
  BY DEF VisitsCounted, Held, DocumentTypes, SessionsKnown
<1>5. ShownVisited'
  BY DEF ShownVisited, DocumentTypes, SessionsKnown
<1>6. WaitingVisited'
  <2>1. \A e \in Docs, q \in Runs : query'[e][q].stage = "waiting" => query'[e][q] = query[e][q]
    BY DEF DocumentTypes
  <2>2. \A x \in Sessions : holder[x] # Nobody => holder'[x] = holder[x]
    BY DEF DocumentTypes
  <2>3. \A e \in Docs, v \in Accounts : visit'[e][v].stage \in {"none", "done"} =>
         visit[e][v].stage \in {"none", "done"}
    BY DEF DocumentTypes
  <2> QED BY <2>1, <2>2, <2>3, WaitingSame
<1>7. TokenFollows'
  BY DEF TokenFollows, Aware, Mounted, DocumentTypes, SessionsKnown, ClosedIdle
<1>8. SidebarIsOwn'
  BY DEF SidebarIsOwn, Mounted, DocumentTypes, ClosedIdle
<1> QED BY <1>1, <1>2, <1>3, <1>4, <1>5, <1>6, <1>7, <1>8

\* A query carries the cookie of its time.
LEMMA AskMeKeeps ==
  ASSUME DocumentsInv, NEW d \in Docs, AskMe(d)
  PROVE  DocumentsInv'
<1>1. cookie \in Sessions \cup {Nobody} /\ query[d]["current"] \in Fetch \cup {NoFetch}
  BY DEF DocumentsInv, DocumentTypes
<1> DEFINE asked == [stage |-> "asked", session |-> cookie]
<1>2. asked \in Fetch /\ asked.stage = "asked" /\ asked.session = cookie
  BY <1>1
<1>3. PICK f \in Fetch : f = asked
  BY <1>2
<1>4. f.stage = "asked" /\ f.session = cookie
  BY <1>2, <1>3
<1>5. CASE query[d]["current"] = NoFetch /\ query' = [query EXCEPT ![d]["current"] = f] /\ UNCHANGED restarts
  <2> HIDE DEF AskMe, asked
  <2> USE <1>4, <1>5 DEF DocumentsInv
  <2>0. UNCHANGED <<cookie, holder, live, open, home, csrf, visit, recorded, shown, error, sidebar, stored, faults>> /\ d \in open
    BY DEF AskMe
  <2> USE <2>0
  <2>1. DocumentTypes'
    BY DEF DocumentTypes
  <2>2. SessionsKnown'
    BY DEF SessionsKnown, DocumentTypes
  <2>3. ClosedIdle'
    BY DEF ClosedIdle, DocumentTypes
  <2>4. VisitsCounted'
    BY DEF VisitsCounted, Held, DocumentTypes, SessionsKnown
  <2>5. ShownVisited'
    BY DEF ShownVisited, DocumentTypes, SessionsKnown
  <2>6. WaitingVisited'
    <3>1. \A e \in Docs, q \in Runs : query'[e][q].stage = "waiting" => query'[e][q] = query[e][q]
      BY DEF DocumentTypes
    <3>2. \A x \in Sessions : holder[x] # Nobody => holder'[x] = holder[x]
      BY DEF DocumentTypes
    <3>3. \A e \in Docs, v \in Accounts : visit'[e][v].stage \in {"none", "done"} =>
           visit[e][v].stage \in {"none", "done"}
      BY DEF DocumentTypes
    <3> QED BY <3>1, <3>2, <3>3, WaitingSame
  <2>7. TokenFollows'
    BY DEF TokenFollows, Aware, Mounted, DocumentTypes, SessionsKnown, ClosedIdle
  <2>8. SidebarIsOwn'
    BY DEF SidebarIsOwn, Mounted, DocumentTypes, ClosedIdle
  <2> QED BY <2>1, <2>2, <2>3, <2>4, <2>5, <2>6, <2>7, <2>8
<1>6. CASE /\ shown[d] # Nobody
           /\ query[d]["current"] # NoFetch
           /\ query[d]["replaced"] = NoFetch
           /\ restarts < MaxRestarts
           /\ restarts' = restarts + 1
           /\ query' = [query EXCEPT ![d] = [r \in Runs |-> IF r = "current" THEN f ELSE query[d]["current"]]]
  <2> HIDE DEF AskMe, asked
  <2> USE <1>4, <1>6 DEF DocumentsInv
  <2>0. UNCHANGED <<cookie, holder, live, open, home, csrf, visit, recorded, shown, error, sidebar, stored, faults>> /\ d \in open
    BY DEF AskMe
  <2> USE <2>0
  <2>1. DocumentTypes'
    BY DEF DocumentTypes
  <2>2. SessionsKnown'
    BY DEF SessionsKnown, DocumentTypes
  <2>3. ClosedIdle'
    BY DEF ClosedIdle, DocumentTypes
  <2>4. VisitsCounted'
    BY DEF VisitsCounted, Held, DocumentTypes, SessionsKnown
  <2>5. ShownVisited'
    BY DEF ShownVisited, DocumentTypes, SessionsKnown
  <2>6. WaitingVisited'
    <3>1. \A e \in Docs, q \in Runs : query'[e][q].stage = "waiting" =>
           \E p \in Runs : query[e][p].stage = "waiting" /\ query'[e][q].session = query[e][p].session
      BY DEF DocumentTypes
    <3> SUFFICES ASSUME NEW e \in Docs, NEW q \in Runs, query'[e][q].stage = "waiting"
                 PROVE  (visit[e][holder[query[e][q].session]].stage \notin {"none", "done"})'
      BY DEF WaitingVisited
    <3>2. PICK p \in Runs : query[e][p].stage = "waiting" /\ query'[e][q].session = query[e][p].session
      BY <3>1
    <3>3. visit[e][holder[query[e][p].session]].stage \notin {"none", "done"}
      BY <3>2 DEF WaitingVisited
    <3> QED BY <3>2, <3>3
  <2>7. TokenFollows'
    BY DEF TokenFollows, Aware, Mounted, DocumentTypes, SessionsKnown, ClosedIdle
  <2>8. SidebarIsOwn'
    BY DEF SidebarIsOwn, Mounted, DocumentTypes, ClosedIdle
  <2> QED BY <2>1, <2>2, <2>3, <2>4, <2>5, <2>6, <2>7, <2>8
<1> QED
  <2>1. AskMe(d) =>
          \/ query[d]["current"] = NoFetch /\ query' = [query EXCEPT ![d]["current"] = asked] /\ UNCHANGED restarts
          \/ /\ shown[d] # Nobody
             /\ query[d]["current"] # NoFetch
             /\ query[d]["replaced"] = NoFetch
             /\ restarts < MaxRestarts
             /\ restarts' = restarts + 1
             /\ query' = [query EXCEPT ![d] = [r \in Runs |-> IF r = "current" THEN asked ELSE query[d]["current"]]]
    BY DEF AskMe
  <2> QED BY <1>3, <1>5, <1>6, <2>1

\* The answer is for the session the query carried.
LEMMA ServeMeKeeps ==
  ASSUME DocumentsInv, NEW d \in Docs, NEW r \in Runs, ServeMe(d, r)
  PROVE  DocumentsInv'
<1> USE DEF DocumentsInv, ServeMe
<1>1. DocumentTypes'
  <2>1. query[d][r] \in Fetch
    BY DEF DocumentTypes
  <2>2. query' \in [Docs -> [Runs -> Fetch \cup {NoFetch}]]
    BY <2>1 DEF DocumentTypes
  <2> QED BY <2>1, <2>2 DEF DocumentTypes
<1>2. SessionsKnown'
  BY DEF SessionsKnown, DocumentTypes
<1>3. ClosedIdle'
  BY DEF ClosedIdle, DocumentTypes
<1>4. VisitsCounted'
  BY DEF VisitsCounted, Held, DocumentTypes, SessionsKnown
<1>5. ShownVisited'
  BY DEF ShownVisited, DocumentTypes, SessionsKnown
<1>6. WaitingVisited'
  <2>1. \A e \in Docs, q \in Runs : query'[e][q].stage = "waiting" => query'[e][q] = query[e][q]
    BY DEF DocumentTypes
  <2>2. \A x \in Sessions : holder[x] # Nobody => holder'[x] = holder[x]
    BY DEF DocumentTypes
  <2>3. \A e \in Docs, v \in Accounts : visit'[e][v].stage \in {"none", "done"} =>
         visit[e][v].stage \in {"none", "done"}
    BY DEF DocumentTypes
  <2> QED BY <2>1, <2>2, <2>3, WaitingSame
<1>7. TokenFollows'
  BY DEF TokenFollows, Aware, Mounted, DocumentTypes, SessionsKnown, ClosedIdle
<1>8. SidebarIsOwn'
  BY DEF SidebarIsOwn, Mounted, DocumentTypes, ClosedIdle
<1> QED BY <1>1, <1>2, <1>3, <1>4, <1>5, <1>6, <1>7, <1>8

\* An answer brings the token, and shows its account if it was visited.
LEMMA ToldMeKeeps ==
  ASSUME DocumentsInv, NEW d \in Docs, NEW r \in Runs, ToldMe(d, r)
  PROVE  DocumentsInv'
<1>1. PICK s \in Sessions : s = query[d][r].session
  BY DEF DocumentsInv, ToldMe, DocumentTypes, SessionsKnown
<1>2. PICK u \in Accounts : u = holder[s]
  BY <1>1 DEF DocumentsInv, ToldMe, DocumentTypes, SessionsKnown
<1>3. csrf' = [csrf EXCEPT ![d] = s] /\ query[d][r].stage = "told" /\ query[d][r] \in Fetch
      /\ UNCHANGED <<cookie, holder, live, open, home, recorded, stored, faults, restarts>>
  BY <1>1 DEF DocumentsInv, ToldMe, DocumentTypes
<1>4. CASE visit[d][u].stage = "done"
  <2>1. /\ query' = [query EXCEPT ![d][r] = NoFetch]
        /\ IF r = "current" THEN Resolved(d, u) ELSE UNCHANGED <<shown, error, sidebar>>
        /\ UNCHANGED visit
    BY <1>1, <1>2, <1>4 DEF ToldMe
  <2>2. query[d]["current"] \in Fetch \cup {NoFetch} /\ d \in open
    BY <1>3 DEF DocumentsInv, ClosedIdle, DocumentTypes
  <2> USE <1>1, <1>2, <1>3, <1>4, <2>2 DEF DocumentsInv
  <2>3. CASE r = "current"
    <3> USE <2>3
    <3>0. /\ query' = [query EXCEPT ![d][r] = NoFetch] /\ UNCHANGED visit
          /\ shown' = [shown EXCEPT ![d] = u] /\ error' = [error EXCEPT ![d] = "none"]
          /\ sidebar' \in [Docs -> Accounts \cup {Default}] /\ SidebarIsOwn'
      BY <2>1, ResolvedShows
    <3> USE <3>0
    <3>1. DocumentTypes'
      BY DEF DocumentTypes
    <3>2. SessionsKnown'
      BY DEF SessionsKnown, DocumentTypes
    <3>3. ClosedIdle'
      BY DEF ClosedIdle, DocumentTypes
    <3>4. VisitsCounted'
      BY DEF VisitsCounted, Held, DocumentTypes, SessionsKnown
    <3>5. ShownVisited'
      BY DEF ShownVisited, DocumentTypes, SessionsKnown
    <3>6. WaitingVisited'
      <4>1. \A e \in Docs, q \in Runs : query'[e][q].stage = "waiting" => query'[e][q] = query[e][q]
        BY DEF DocumentTypes
      <4>2. \A x \in Sessions : holder[x] # Nobody => holder'[x] = holder[x]
        BY DEF DocumentTypes
      <4>3. \A e \in Docs, v \in Accounts : visit'[e][v].stage \in {"none", "done"} =>
             visit[e][v].stage \in {"none", "done"}
        BY DEF DocumentTypes
      <4> QED BY <4>1, <4>2, <4>3, WaitingSame
    <3>7. TokenFollows'
      BY DEF TokenFollows, Aware, Mounted, DocumentTypes, SessionsKnown, ClosedIdle
    <3>8. SidebarIsOwn'
      BY DEF SidebarIsOwn, Mounted, DocumentTypes, ClosedIdle
    <3> QED BY <3>1, <3>2, <3>3, <3>4, <3>5, <3>6, <3>7, <3>8
  <2>4. CASE r # "current"
    <3> USE <2>1, <2>4
    <3>1. DocumentTypes'
      BY DEF DocumentTypes
    <3>2. SessionsKnown'
      BY DEF SessionsKnown, DocumentTypes
    <3>3. ClosedIdle'
      BY DEF ClosedIdle, DocumentTypes
    <3>4. VisitsCounted'
      BY DEF VisitsCounted, Held, DocumentTypes, SessionsKnown
    <3>5. ShownVisited'
      BY DEF ShownVisited, DocumentTypes, SessionsKnown
    <3>6. WaitingVisited'
      <4>1. \A e \in Docs, q \in Runs : query'[e][q].stage = "waiting" => query'[e][q] = query[e][q]
        BY DEF DocumentTypes
      <4>2. \A x \in Sessions : holder[x] # Nobody => holder'[x] = holder[x]
        BY DEF DocumentTypes
      <4>3. \A e \in Docs, v \in Accounts : visit'[e][v].stage \in {"none", "done"} =>
             visit[e][v].stage \in {"none", "done"}
        BY DEF DocumentTypes
      <4> QED BY <4>1, <4>2, <4>3, WaitingSame
    <3>7. TokenFollows'
      BY DEF TokenFollows, Aware, Mounted, DocumentTypes, SessionsKnown, ClosedIdle
    <3>8. SidebarIsOwn'
      BY DEF SidebarIsOwn, Mounted, DocumentTypes, ClosedIdle
    <3> QED BY <3>1, <3>2, <3>3, <3>4, <3>5, <3>6, <3>7, <3>8
  <2> QED BY <2>3, <2>4
<1>5. CASE visit[d][u].stage # "done"
  <2> USE DEF DocumentsInv
  <2> DEFINE v == [stage |-> "sent", cookie |-> cookie, token |-> s]
  <2>1. /\ query' = [query EXCEPT ![d][r].stage = "waiting"]
        /\ visit' = IF visit[d][u] = NoVisit THEN [visit EXCEPT ![d][u] = v] ELSE visit
        /\ UNCHANGED <<shown, error, sidebar>>
    BY <1>1, <1>2, <1>5 DEF ToldMe
  <2>2. v \in Visit /\ v.stage = "sent" /\ v.token = s
    BY DEF DocumentTypes
  <2> HIDE DEF v
  <2>3. PICK f \in Fetch : f = [query[d][r] EXCEPT !.stage = "waiting"]
    BY <1>3
  <2>4. f.stage = "waiting" /\ f.session = s
    BY <1>1, <1>3, <2>3
  <2>5. query' = [query EXCEPT ![d][r] = f]
    BY <2>1, <2>3 DEF DocumentTypes
  <2>6. \A e \in Docs, q \in Runs : query'[e][q] = IF e = d /\ q = r THEN f ELSE query[e][q]
    BY <2>5 DEF DocumentTypes
  <2>7. visit[d][u] \in Visit \cup {NoVisit}
    BY DEF DocumentTypes
  <2>8. \A e \in Docs, w \in Accounts :
          visit'[e][w] = IF e = d /\ w = u /\ visit[d][u] = NoVisit THEN v ELSE visit[e][w]
    BY <2>1 DEF DocumentTypes
  <2>9. visit'[d][u].stage \notin {"none", "done"}
    BY <1>5, <2>2, <2>7, <2>8
  <2>10. DocumentTypes'
    <3>1. query' \in [Docs -> [Runs -> Fetch \cup {NoFetch}]]
      BY <2>5 DEF DocumentTypes
    <3>2. visit' \in [Docs -> [Accounts -> Visit \cup {NoVisit}]]
      BY <2>1, <2>2 DEF DocumentTypes
    <3>3. csrf' \in [Docs -> Sessions \cup {Nobody}]
      BY <1>3 DEF DocumentTypes
    <3> QED BY <1>3, <2>1, <3>1, <3>2, <3>3 DEF DocumentTypes
  <2>11. SessionsKnown'
    <3>1. /\ cookie' # Nobody => holder'[cookie'] # Nobody
          /\ \A e \in Docs : csrf'[e] # Nobody => holder'[csrf'[e]] # Nobody
      BY <1>2, <1>3 DEF SessionsKnown, DocumentTypes
    <3>2. \A e \in Docs, q \in Runs : query'[e][q].stage # "none" =>
            /\ query'[e][q].session # Nobody => holder'[query'[e][q].session] # Nobody
            /\ query'[e][q].stage \in {"told", "waiting"} => query'[e][q].session # Nobody
      BY <1>2, <1>3, <2>4, <2>6 DEF SessionsKnown
    <3>3. ASSUME NEW e \in Docs, NEW w \in Accounts, visit'[e][w].stage # "none"
          PROVE  holder'[visit'[e][w].token] = w
      <4>1. CASE visit'[e][w] = v /\ w = u
        BY <1>2, <1>3, <2>2, <4>1
      <4>2. CASE visit'[e][w] = visit[e][w]
        BY <1>3, <3>3, <4>2 DEF SessionsKnown
      <4> QED BY <2>8, <4>1, <4>2
    <3> QED BY <3>1, <3>2, <3>3 DEF SessionsKnown
  <2>12. ClosedIdle'
    <3>1. \A e \in Docs, q \in Runs : query'[e][q].stage # "none" => query[e][q].stage # "none"
      BY <1>3, <2>6
    <3>2. d \in open
      BY <1>3 DEF ClosedIdle
    <3> QED BY <1>3, <2>1, <3>1, <3>2 DEF ClosedIdle, DocumentTypes
  <2>13. VisitsCounted'
    <3>1. \A e \in Docs, w \in Accounts : Held(e, w)' = Held(e, w)
      BY <2>2, <2>8 DEF Held
    <3> QED BY <1>3, <3>1 DEF VisitsCounted
  <2>14. ShownVisited'
    <3> SUFFICES ASSUME NEW e \in Docs, shown[e] # Nobody PROVE visit'[e][shown[e]].stage = "done"
      BY <2>1 DEF ShownVisited
    <3>1. visit[e][shown[e]].stage = "done" /\ shown[e] \in Accounts
      BY DEF ShownVisited, DocumentTypes
    <3> QED BY <2>8, <3>1
  <2>15. WaitingVisited'
    <3> SUFFICES ASSUME NEW e \in Docs, NEW q \in Runs, query'[e][q].stage = "waiting"
                 PROVE  visit'[e][holder[query'[e][q].session]].stage \notin {"none", "done"}
      BY <1>3 DEF WaitingVisited
    <3>1. CASE e = d /\ q = r
      <4>1. query'[e][q] = f
        BY <2>6, <3>1
      <4>2. holder[query'[e][q].session] = u
        BY <1>2, <2>4, <4>1
      <4> QED BY <2>9, <3>1, <4>2
    <3>2. CASE ~ (e = d /\ q = r)
      <4>1. query'[e][q] = query[e][q]
        BY <2>6, <3>2
      <4>2. query[e][q] \in Fetch /\ query[e][q].session # Nobody
        BY <4>1 DEF SessionsKnown, DocumentTypes
      <4>3. holder[query[e][q].session] # Nobody
        BY <4>1, <4>2 DEF SessionsKnown
      <4>4. PICK w \in Accounts : w = holder[query[e][q].session]
        BY <4>2, <4>3 DEF DocumentTypes
      <4>5. visit[e][w].stage \notin {"none", "done"}
        BY <4>1, <4>4 DEF WaitingVisited
      <4>6. visit'[e][w].stage \notin {"none", "done"}
        BY <2>8, <4>5
      <4> QED BY <4>1, <4>4, <4>6
    <3> QED BY <3>1, <3>2
  <2>16. TokenFollows'
    BY <1>1, <1>3, <2>1, <2>4, <2>6
       DEF TokenFollows, Aware, Mounted, DocumentTypes, SessionsKnown, ClosedIdle
  <2>17. SidebarIsOwn'
    BY <1>3, <2>1 DEF SidebarIsOwn, Mounted, DocumentTypes, ClosedIdle
  <2> QED BY <2>10, <2>11, <2>12, <2>13, <2>14, <2>15, <2>16, <2>17
<1> QED BY <1>4, <1>5

\* A refusal takes the user to the sign-in page, or is noted by the home page.
LEMMA DeniedMeKeeps ==
  ASSUME DocumentsInv, NEW d \in Docs, DeniedMe(d)
  PROVE  DocumentsInv'
<1>1. CASE d \notin home
  BY <1>1, FreshKeeps DEF DeniedMe
<1>2. CASE d \in home
  <2>0. /\ query' = [query EXCEPT ![d]["current"] = NoFetch]
        /\ error' = [error EXCEPT ![d] = "denied"]
        /\ UNCHANGED <<cookie, holder, live, open, home, csrf, visit, recorded, shown, sidebar,
                       stored, faults, restarts>>
    BY <1>2 DEF DeniedMe
  <2> USE <1>2, <2>0 DEF DocumentsInv
  <2>1. DocumentTypes'
    BY DEF DocumentTypes
  <2>2. SessionsKnown'
    BY DEF SessionsKnown, DocumentTypes
  <2>3. ClosedIdle'
    BY DEF ClosedIdle, DocumentTypes
  <2>4. VisitsCounted'
    BY DEF VisitsCounted, Held, DocumentTypes
  <2>5. ShownVisited'
    BY DEF ShownVisited, DocumentTypes
  <2>6. WaitingVisited'
    BY DEF WaitingVisited, SessionsKnown, DocumentTypes
  <2>7. TokenFollows'
    BY DEF TokenFollows, Aware, DocumentTypes
  <2>8. SidebarIsOwn'
    BY DEF SidebarIsOwn, Mounted, DocumentTypes
  <2> QED BY <2>1, <2>2, <2>3, <2>4, <2>5, <2>6, <2>7, <2>8
<1> QED BY <1>1, <1>2

\* Between the home page and the console nothing of the session changes; a page
\* that comes back from behind an error has the sidebar of its account.
LEMMA NavigateKeeps ==
  ASSUME DocumentsInv, NEW d \in Docs, Navigate(d)
  PROVE  DocumentsInv'
<1>1. CASE d \in home /\ error[d] = "denied"
  BY <1>1, FreshKeeps DEF Navigate
<1>2. CASE ~ (d \in home /\ error[d] = "denied")
  <2>0. /\ UNCHANGED <<cookie, holder, live, open, csrf, query, visit, recorded, shown, error,
                       stored, faults, restarts>>
        /\ \/ d \in home /\ home' = home \ {d} /\ UNCHANGED sidebar
           \/ /\ d \in open /\ home' = home \cup {d}
              /\ sidebar' = IF shown[d] # Nobody /\ ~ Mounted(d)
                            THEN [sidebar EXCEPT ![d] = stored[shown[d]]] ELSE sidebar
    BY <1>2 DEF Navigate
  <2> USE <2>0 DEF DocumentsInv
  <2>1. DocumentTypes'
    <3>1. home' \subseteq open'
      BY DEF DocumentTypes
    <3>2. shown[d] # Nobody => stored[shown[d]] \in Accounts \cup {Default}
      BY DEF DocumentTypes
    <3>3. sidebar' \in [Docs -> Accounts \cup {Default}]
      BY <3>2 DEF DocumentTypes
    <3> QED BY <3>1, <3>3 DEF DocumentTypes
  <2>2. SessionsKnown'
    BY DEF SessionsKnown, DocumentTypes
  <2>3. ClosedIdle'
    BY DEF ClosedIdle, DocumentTypes
  <2>4. VisitsCounted'
    BY DEF VisitsCounted, Held, DocumentTypes
  <2>5. ShownVisited'
    BY DEF ShownVisited, DocumentTypes
  <2>6. WaitingVisited'
    BY DEF WaitingVisited, SessionsKnown, DocumentTypes
  <2>7. TokenFollows'
    BY DEF TokenFollows, Aware, DocumentTypes
  <2>8. SidebarIsOwn'
    BY DEF SidebarIsOwn, Mounted, DocumentTypes
  <2> QED BY <2>1, <2>2, <2>3, <2>4, <2>5, <2>6, <2>7, <2>8
<1> QED BY <1>1, <1>2

\* Nothing comes of a replaced query that was refused.
LEMMA DropMeKeeps ==
  ASSUME DocumentsInv, NEW d \in Docs, DropMe(d)
  PROVE  DocumentsInv'
<1> USE DEF DocumentsInv, DropMe
<1>1. DocumentTypes'
  BY DEF DocumentTypes
<1>2. SessionsKnown'
  BY DEF SessionsKnown, DocumentTypes
<1>3. ClosedIdle'
  BY DEF ClosedIdle, DocumentTypes
<1>4. VisitsCounted'
  BY DEF VisitsCounted, Held, DocumentTypes, SessionsKnown
<1>5. ShownVisited'
  BY DEF ShownVisited, DocumentTypes, SessionsKnown
<1>6. WaitingVisited'
  <2>1. \A e \in Docs, q \in Runs : query'[e][q].stage = "waiting" => query'[e][q] = query[e][q]
    BY DEF DocumentTypes
  <2>2. \A x \in Sessions : holder[x] # Nobody => holder'[x] = holder[x]
    BY DEF DocumentTypes
  <2>3. \A e \in Docs, v \in Accounts : visit'[e][v].stage \in {"none", "done"} =>
         visit[e][v].stage \in {"none", "done"}
    BY DEF DocumentTypes
  <2> QED BY <2>1, <2>2, <2>3, WaitingSame
<1>7. TokenFollows'
  BY DEF TokenFollows, Aware, Mounted, DocumentTypes, SessionsKnown, ClosedIdle
<1>8. SidebarIsOwn'
  BY DEF SidebarIsOwn, Mounted, DocumentTypes, ClosedIdle
<1> QED BY <1>1, <1>2, <1>3, <1>4, <1>5, <1>6, <1>7, <1>8

\* A query that fails shows the error.
LEMMA FailMeKeeps ==
  ASSUME DocumentsInv, NEW d \in Docs, FailMe(d)
  PROVE  DocumentsInv'
<1> USE DEF DocumentsInv, FailMe
<1>1. DocumentTypes'
  BY DEF DocumentTypes
<1>2. SessionsKnown'
  BY DEF SessionsKnown, DocumentTypes
<1>3. ClosedIdle'
  BY DEF ClosedIdle, DocumentTypes
<1>4. VisitsCounted'
  BY DEF VisitsCounted, Held, DocumentTypes, SessionsKnown
<1>5. ShownVisited'
  BY DEF ShownVisited, DocumentTypes, SessionsKnown
<1>6. WaitingVisited'
  <2>1. \A e \in Docs, q \in Runs : query'[e][q].stage = "waiting" => query'[e][q] = query[e][q]
    BY DEF DocumentTypes
  <2>2. \A x \in Sessions : holder[x] # Nobody => holder'[x] = holder[x]
    BY DEF DocumentTypes
  <2>3. \A e \in Docs, v \in Accounts : visit'[e][v].stage \in {"none", "done"} =>
         visit[e][v].stage \in {"none", "done"}
    BY DEF DocumentTypes
  <2> QED BY <2>1, <2>2, <2>3, WaitingSame
<1>7. TokenFollows'
  BY DEF TokenFollows, Aware, Mounted, DocumentTypes, SessionsKnown, ClosedIdle
<1>8. SidebarIsOwn'
  BY DEF SidebarIsOwn, Mounted, DocumentTypes, ClosedIdle
<1> QED BY <1>1, <1>2, <1>3, <1>4, <1>5, <1>6, <1>7, <1>8

\* The server counts the visit it is asked for.
LEMMA ServeVisitKeeps ==
  ASSUME DocumentsInv, NEW d \in Docs, NEW u \in Accounts, ServeVisit(d, u)
  PROVE  DocumentsInv'
<1> USE DEF DocumentsInv, ServeVisit
<1>1. DocumentTypes'
  <2>1. visit[d][u] \in Visit
    BY DEF DocumentTypes
  <2>2. visit' \in [Docs -> [Accounts -> Visit \cup {NoVisit}]]
    BY <2>1 DEF DocumentTypes
  <2>3. recorded' \in [Docs -> [Accounts -> Nat]]
    BY <2>1 DEF DocumentTypes, SessionsKnown
  <2> QED BY <2>1, <2>2, <2>3 DEF DocumentTypes
<1>2. SessionsKnown'
  BY DEF SessionsKnown, DocumentTypes
<1>3. ClosedIdle'
  BY DEF ClosedIdle, DocumentTypes
<1>4. VisitsCounted'
  BY DEF VisitsCounted, Held, DocumentTypes, SessionsKnown
<1>5. ShownVisited'
  BY DEF ShownVisited, DocumentTypes, SessionsKnown
<1>6. WaitingVisited'
  <2>1. \A e \in Docs, q \in Runs : query'[e][q].stage = "waiting" => query'[e][q] = query[e][q]
    BY DEF DocumentTypes
  <2>2. \A x \in Sessions : holder[x] # Nobody => holder'[x] = holder[x]
    BY DEF DocumentTypes
  <2>3. \A e \in Docs, v \in Accounts : visit'[e][v].stage \in {"none", "done"} =>
         visit[e][v].stage \in {"none", "done"}
    BY DEF DocumentTypes
  <2> QED BY <2>1, <2>2, <2>3, WaitingSame
<1>7. TokenFollows'
  BY DEF TokenFollows, Aware, Mounted, DocumentTypes, SessionsKnown, ClosedIdle
<1>8. SidebarIsOwn'
  BY DEF SidebarIsOwn, Mounted, DocumentTypes, ClosedIdle
<1> QED BY <1>1, <1>2, <1>3, <1>4, <1>5, <1>6, <1>7, <1>8

\* A visit whose answer is lost may have been counted.
LEMMA LoseVisitKeeps ==
  ASSUME DocumentsInv, NEW d \in Docs, NEW u \in Accounts, LoseVisit(d, u)
  PROVE  DocumentsInv'
<1> USE DEF DocumentsInv, LoseVisit
<1>1. DocumentTypes'
  <2>1. visit[d][u] \in Visit
    BY DEF DocumentTypes
  <2>2. visit' \in [Docs -> [Accounts -> Visit \cup {NoVisit}]]
    BY <2>1 DEF DocumentTypes
  <2> QED BY <2>1, <2>2 DEF DocumentTypes
<1>2. SessionsKnown'
  BY DEF SessionsKnown, DocumentTypes
<1>3. ClosedIdle'
  BY DEF ClosedIdle, DocumentTypes
<1>4. VisitsCounted'
  BY DEF VisitsCounted, Held, DocumentTypes, SessionsKnown
<1>5. ShownVisited'
  BY DEF ShownVisited, DocumentTypes, SessionsKnown
<1>6. WaitingVisited'
  <2>1. \A e \in Docs, q \in Runs : query'[e][q].stage = "waiting" => query'[e][q] = query[e][q]
    BY DEF DocumentTypes
  <2>2. \A x \in Sessions : holder[x] # Nobody => holder'[x] = holder[x]
    BY DEF DocumentTypes
  <2>3. \A e \in Docs, v \in Accounts : visit'[e][v].stage \in {"none", "done"} =>
         visit[e][v].stage \in {"none", "done"}
    BY DEF DocumentTypes
  <2> QED BY <2>1, <2>2, <2>3, WaitingSame
<1>7. TokenFollows'
  BY DEF TokenFollows, Aware, Mounted, DocumentTypes, SessionsKnown, ClosedIdle
<1>8. SidebarIsOwn'
  BY DEF SidebarIsOwn, Mounted, DocumentTypes, ClosedIdle
<1> QED BY <1>1, <1>2, <1>3, <1>4, <1>5, <1>6, <1>7, <1>8

\* All queries of a document that wait for a visit go on.
LEMMA WokenRows ==
  ASSUME DocumentTypes, NEW d \in Docs, NEW u \in Accounts, query' = Woken(d, u)
  PROVE  /\ query' \in [Docs -> [Runs -> Fetch \cup {NoFetch}]]
         /\ \A e \in Docs, r \in Runs :
              IF e = d /\ Waits(d, r, u) THEN query'[e][r].stage = "none" ELSE query'[e][r] = query[e][r]
<1>0. \A r \in Runs : (IF Waits(d, r, u) THEN NoFetch ELSE query[d][r]) \in Fetch \cup {NoFetch}
  BY DEF DocumentTypes
<1>1. PICK row \in [Runs -> Fetch \cup {NoFetch}] :
        row = [r \in Runs |-> IF Waits(d, r, u) THEN NoFetch ELSE query[d][r]]
  <2> HIDE DEF Fetch, Runs, NoFetch
  <2> QED BY <1>0
<1>2. query' = [query EXCEPT ![d] = row]
  BY <1>1 DEF Woken
<1>3. \A r \in Runs : row[r] = IF Waits(d, r, u) THEN NoFetch ELSE query[d][r]
  BY <1>1
<1>4. query' \in [Docs -> [Runs -> Fetch \cup {NoFetch}]]
  BY <1>2 DEF DocumentTypes
<1>5. \A e \in Docs, r \in Runs :
        IF e = d /\ Waits(d, r, u) THEN query'[e][r].stage = "none" ELSE query'[e][r] = query[e][r]
  BY <1>2, <1>3 DEF DocumentTypes
<1> QED BY <1>4, <1>5

\* A visit that was stored lets its queries show the account.
LEMMA VisitStoredKeeps ==
  ASSUME DocumentsInv, NEW d \in Docs, NEW u \in Accounts, VisitStored(d, u)
  PROVE  DocumentsInv'
<1>1. visit[d][u] \in Visit /\ visit[d][u].stage = "stored"
  BY DEF VisitStored, DocumentsInv, DocumentTypes
<1>2. PICK v \in Visit : v = [visit[d][u] EXCEPT !.stage = "done"]
  BY <1>1
<1>3. v.stage = "done" /\ v.token = visit[d][u].token
  BY <1>1, <1>2
<1>4. visit' = [visit EXCEPT ![d][u] = v]
  BY <1>2 DEF VisitStored, DocumentsInv, DocumentTypes
<1>5. UNCHANGED <<cookie, holder, live, open, home, csrf, recorded, stored, faults, restarts>>
  BY DEF VisitStored
<1>6. /\ query' \in [Docs -> [Runs -> Fetch \cup {NoFetch}]]
      /\ \A e \in Docs, r \in Runs :
           IF e = d /\ Waits(d, r, u) THEN query'[e][r].stage = "none" ELSE query'[e][r] = query[e][r]
  BY WokenRows DEF VisitStored, DocumentsInv
<1>7. IF Waits(d, "current", u)
      THEN /\ shown' = [shown EXCEPT ![d] = u] /\ error' = [error EXCEPT ![d] = "none"]
           /\ sidebar' \in [Docs -> Accounts \cup {Default}] /\ SidebarIsOwn'
      ELSE UNCHANGED <<shown, error, sidebar>>
  <2>1. CASE Waits(d, "current", u)
    <3>1. d \in open
      BY <2>1 DEF Waits, ClosedIdle, DocumentsInv
    <3>2. Resolved(d, u)
      BY <2>1 DEF VisitStored
    <3> QED BY <1>5, <2>1, <3>1, <3>2, ResolvedShows DEF DocumentsInv
  <2> QED BY <2>1 DEF VisitStored
<1> USE <1>1, <1>3, <1>4, <1>5, <1>7 DEF DocumentsInv
<1>8. DocumentTypes'
  <2>1. visit' \in [Docs -> [Accounts -> Visit \cup {NoVisit}]]
    BY DEF DocumentTypes
  <2>2. /\ shown' \in [Docs -> Accounts \cup {Nobody}] /\ error' \in [Docs -> {"none", "failed", "denied"}]
        /\ sidebar' \in [Docs -> Accounts \cup {Default}]
    <3>1. CASE Waits(d, "current", u)
      <4>1. shown' = [shown EXCEPT ![d] = u] /\ error' = [error EXCEPT ![d] = "none"]
        BY <3>1
      <4>2. sidebar' \in [Docs -> Accounts \cup {Default}]
        BY <3>1
      <4> QED BY <4>1, <4>2 DEF DocumentTypes
    <3>2. CASE ~ Waits(d, "current", u)
      BY <3>2 DEF DocumentTypes
    <3> QED BY <3>1, <3>2
  <2> QED BY <1>6, <2>1, <2>2 DEF DocumentTypes
<1>9. SessionsKnown'
  <2>1. /\ cookie' # Nobody => holder'[cookie'] # Nobody
        /\ \A e \in Docs : csrf'[e] # Nobody => holder'[csrf'[e]] # Nobody
    BY DEF SessionsKnown, DocumentTypes
  <2>2. \A e \in Docs, r \in Runs : query'[e][r].stage # "none" => query'[e][r] = query[e][r]
    BY <1>6
  <2>3. \A e \in Docs, w \in Accounts : visit'[e][w].stage # "none" =>
          visit[e][w].stage # "none" /\ visit'[e][w].token = visit[e][w].token
    BY DEF DocumentTypes
  <2> QED BY <2>1, <2>2, <2>3 DEF SessionsKnown
<1>10. ClosedIdle'
  <2>1. \A e \in Docs, r \in Runs : query'[e][r].stage # "none" => query[e][r].stage # "none"
    BY <1>6
  <2>2. Waits(d, "current", u) => d \in open
    BY DEF Waits, ClosedIdle
  <2> QED BY <2>1, <2>2 DEF ClosedIdle, DocumentTypes
<1>11. VisitsCounted'
  BY DEF VisitsCounted, Held, DocumentTypes
<1>12. ShownVisited'
  BY DEF ShownVisited, DocumentTypes
<1>13. WaitingVisited'
  <2> SUFFICES ASSUME NEW e \in Docs, NEW q \in Runs, query'[e][q].stage = "waiting"
               PROVE  visit'[e][holder[query'[e][q].session]].stage \notin {"none", "done"}
    BY DEF WaitingVisited
  <2>1. query'[e][q] = query[e][q] /\ ~ (e = d /\ Waits(d, q, u))
    BY <1>6
  <2>2. query[e][q] \in Fetch /\ query[e][q].session # Nobody
    BY <2>1 DEF SessionsKnown, DocumentTypes
  <2>3. holder[query[e][q].session] # Nobody
    BY <2>1, <2>2 DEF SessionsKnown
  <2>4. PICK w \in Accounts : w = holder[query[e][q].session]
    BY <2>2, <2>3 DEF DocumentTypes
  <2>5. ~ (e = d /\ w = u)
    BY <2>1, <2>4 DEF Waits
  <2>6. visit'[e][w] = visit[e][w]
    BY <2>5 DEF DocumentTypes
  <2> QED BY <2>1, <2>4, <2>6 DEF WaitingVisited
<1>14. TokenFollows'
  <2>1. \A e \in Docs : \A r \in Runs : query'[e][r].stage # "none" => query'[e][r] = query[e][r]
    BY <1>6
  <2>2. \A e \in Docs : query'[e]["current"].stage = "none" =>
          query[e]["current"].stage = "none" \/ (e = d /\ Waits(d, "current", u))
    BY <1>6
  <2> SUFFICES ASSUME NEW e \in Docs, cookie # Nobody, Aware(e)'
               PROVE  IF query'[e]["current"].stage = "none"
                      THEN shown'[e] # Nobody /\ error'[e] = "none" => shown'[e] = holder[cookie]
                      ELSE query'[e]["current"].session = cookie
    BY DEF TokenFollows
  <2>3. Aware(e)
    BY <2>1 DEF Aware
  <2>4. CASE query[e]["current"].stage = "none" /\ ~ (e = d /\ Waits(d, "current", u))
    BY <2>1, <2>2, <2>3, <2>4 DEF TokenFollows, Mounted, DocumentTypes
  <2>5. CASE query[e]["current"].stage # "none"
    BY <2>1, <2>2, <2>3, <2>5 DEF TokenFollows, Mounted, Waits, DocumentTypes
  <2> QED BY <2>4, <2>5 DEF Waits
<1>15. SidebarIsOwn'
  BY DEF SidebarIsOwn, Mounted, DocumentTypes
<1> QED BY <1>8, <1>9, <1>10, <1>11, <1>12, <1>13, <1>14, <1>15

\* A visit that was rejected is taken out of the map again.
LEMMA VisitRejectedKeeps ==
  ASSUME DocumentsInv, NEW d \in Docs, NEW u \in Accounts, VisitRejected(d, u)
  PROVE  DocumentsInv'
<1>1. visit[d][u] \in Visit /\ visit[d][u].stage = "rejected" /\ visit' = [visit EXCEPT ![d][u] = NoVisit]
  BY DEF VisitRejected, DocumentsInv, DocumentTypes
<1>2. UNCHANGED <<cookie, holder, live, open, home, csrf, recorded, shown, sidebar, stored, faults, restarts>>
  BY DEF VisitRejected
<1>3. /\ query' \in [Docs -> [Runs -> Fetch \cup {NoFetch}]]
      /\ \A e \in Docs, r \in Runs :
           IF e = d /\ Waits(d, r, u) THEN query'[e][r].stage = "none" ELSE query'[e][r] = query[e][r]
  BY WokenRows DEF VisitRejected, DocumentsInv
<1>4. error' = IF Waits(d, "current", u) THEN [error EXCEPT ![d] = "failed"] ELSE error
  BY DEF VisitRejected
<1> USE <1>1, <1>2, <1>4 DEF DocumentsInv
<1>5. DocumentTypes'
  BY <1>3 DEF DocumentTypes
<1>6. SessionsKnown'
  <2>1. /\ cookie' # Nobody => holder'[cookie'] # Nobody
        /\ \A e \in Docs : csrf'[e] # Nobody => holder'[csrf'[e]] # Nobody
    BY DEF SessionsKnown, DocumentTypes
  <2>2. \A e \in Docs, r \in Runs : query'[e][r].stage # "none" => query'[e][r] = query[e][r]
    BY <1>3
  <2>3. \A e \in Docs, w \in Accounts : visit'[e][w].stage # "none" =>
          visit[e][w].stage # "none" /\ visit'[e][w].token = visit[e][w].token
    BY DEF DocumentTypes
  <2> QED BY <2>1, <2>2, <2>3 DEF SessionsKnown
<1>7. ClosedIdle'
  <2>1. \A e \in Docs, r \in Runs : query'[e][r].stage # "none" => query[e][r].stage # "none"
    BY <1>3
  <2> QED BY <2>1 DEF ClosedIdle, DocumentTypes
<1>8. VisitsCounted'
  BY DEF VisitsCounted, Held, DocumentTypes
<1>9. ShownVisited'
  BY DEF ShownVisited, DocumentTypes
<1>10. WaitingVisited'
  <2> SUFFICES ASSUME NEW e \in Docs, NEW q \in Runs, query'[e][q].stage = "waiting"
               PROVE  visit'[e][holder[query'[e][q].session]].stage \notin {"none", "done"}
    BY DEF WaitingVisited
  <2>1. query'[e][q] = query[e][q] /\ ~ (e = d /\ Waits(d, q, u))
    BY <1>3
  <2>2. query[e][q] \in Fetch /\ query[e][q].session # Nobody
    BY <2>1 DEF SessionsKnown, DocumentTypes
  <2>3. holder[query[e][q].session] # Nobody
    BY <2>1, <2>2 DEF SessionsKnown
  <2>4. PICK w \in Accounts : w = holder[query[e][q].session]
    BY <2>2, <2>3 DEF DocumentTypes
  <2>5. ~ (e = d /\ w = u)
    BY <2>1, <2>4 DEF Waits
  <2>6. visit'[e][w] = visit[e][w]
    BY <2>5 DEF DocumentTypes
  <2> QED BY <2>1, <2>4, <2>6 DEF WaitingVisited
<1>11. TokenFollows'
  <2>1. \A e \in Docs : \A r \in Runs : query'[e][r].stage # "none" => query'[e][r] = query[e][r]
    BY <1>3
  <2>2. \A e \in Docs : query'[e]["current"].stage = "none" =>
          query[e]["current"].stage = "none" \/ (e = d /\ Waits(d, "current", u))
    BY <1>3
  <2> SUFFICES ASSUME NEW e \in Docs, cookie # Nobody, Aware(e)'
               PROVE  IF query'[e]["current"].stage = "none"
                      THEN shown'[e] # Nobody /\ error'[e] = "none" => shown'[e] = holder[cookie]
                      ELSE query'[e]["current"].session = cookie
    BY DEF TokenFollows
  <2>3. Aware(e)
    BY <2>1 DEF Aware
  <2>4. CASE query[e]["current"].stage = "none" /\ ~ (e = d /\ Waits(d, "current", u))
    BY <2>1, <2>2, <2>3, <2>4 DEF TokenFollows, Mounted, DocumentTypes
  <2>5. CASE query[e]["current"].stage # "none"
    BY <2>1, <2>2, <2>3, <2>5 DEF TokenFollows, Mounted, Waits, DocumentTypes
  <2> QED BY <2>4, <2>5 DEF Waits
<1>12. SidebarIsOwn'
  BY DEF SidebarIsOwn, Mounted, DocumentTypes
<1> QED BY <1>5, <1>6, <1>7, <1>8, <1>9, <1>10, <1>11, <1>12

\* A visit without a session is as a refused /me.
LEMMA VisitDeniedKeeps ==
  ASSUME DocumentsInv, NEW d \in Docs, NEW u \in Accounts, VisitDenied(d, u)
  PROVE  DocumentsInv'
<1>1. CASE d \notin home /\ Waits(d, "current", u)
  BY <1>1, FreshKeeps DEF VisitDenied, DocumentsInv, DocumentTypes
<1>2. CASE d \in home \/ ~ Waits(d, "current", u)
  <2>1. visit[d][u] \in Visit /\ visit[d][u].stage = "denied" /\ visit' = [visit EXCEPT ![d][u] = NoVisit]
    BY <1>2 DEF VisitDenied, DocumentsInv, DocumentTypes
  <2>2. /\ UNCHANGED <<cookie, holder, live, open, home, csrf, recorded, shown, sidebar, stored, faults, restarts>>
        /\ error' = IF Waits(d, "current", u) THEN [error EXCEPT ![d] = "denied"] ELSE error
    BY <1>2 DEF VisitDenied
  <2>3. /\ query' \in [Docs -> [Runs -> Fetch \cup {NoFetch}]]
        /\ \A e \in Docs, r \in Runs :
             IF e = d /\ Waits(d, r, u) THEN query'[e][r].stage = "none" ELSE query'[e][r] = query[e][r]
    BY <1>2, WokenRows DEF VisitDenied, DocumentsInv
  <2> USE <1>2, <2>1, <2>2 DEF DocumentsInv
  <2>5. DocumentTypes'
    BY <2>3 DEF DocumentTypes
  <2>6. SessionsKnown'
    <3>1. /\ cookie' # Nobody => holder'[cookie'] # Nobody
          /\ \A e \in Docs : csrf'[e] # Nobody => holder'[csrf'[e]] # Nobody
      BY DEF SessionsKnown, DocumentTypes
    <3>2. \A e \in Docs, r \in Runs : query'[e][r].stage # "none" => query'[e][r] = query[e][r]
      BY <2>3
    <3>3. \A e \in Docs, w \in Accounts : visit'[e][w].stage # "none" =>
            visit[e][w].stage # "none" /\ visit'[e][w].token = visit[e][w].token
      BY DEF DocumentTypes
    <3> QED BY <3>1, <3>2, <3>3 DEF SessionsKnown
  <2>7. ClosedIdle'
    <3>1. \A e \in Docs, r \in Runs : query'[e][r].stage # "none" => query[e][r].stage # "none"
      BY <2>3
    <3> QED BY <3>1 DEF ClosedIdle, DocumentTypes
  <2>8. VisitsCounted'
    BY DEF VisitsCounted, Held, DocumentTypes
  <2>9. ShownVisited'
    BY DEF ShownVisited, DocumentTypes
  <2>10. WaitingVisited'
    <3> SUFFICES ASSUME NEW e \in Docs, NEW q \in Runs, query'[e][q].stage = "waiting"
                 PROVE  visit'[e][holder[query'[e][q].session]].stage \notin {"none", "done"}
      BY DEF WaitingVisited
    <3>1. query'[e][q] = query[e][q] /\ ~ (e = d /\ Waits(d, q, u))
      BY <2>3
    <3>2. query[e][q] \in Fetch /\ query[e][q].session # Nobody
      BY <3>1 DEF SessionsKnown, DocumentTypes
    <3>3. holder[query[e][q].session] # Nobody
      BY <3>1, <3>2 DEF SessionsKnown
    <3>4. PICK w \in Accounts : w = holder[query[e][q].session]
      BY <3>2, <3>3 DEF DocumentTypes
    <3>5. ~ (e = d /\ w = u)
      BY <3>1, <3>4 DEF Waits
    <3>6. visit'[e][w] = visit[e][w]
      BY <3>5 DEF DocumentTypes
    <3> QED BY <3>1, <3>4, <3>6 DEF WaitingVisited
  <2>11. TokenFollows'
    <3>1. \A e \in Docs : \A r \in Runs : query'[e][r].stage # "none" => query'[e][r] = query[e][r]
      BY <2>3
    <3>2. \A e \in Docs : query'[e]["current"].stage = "none" =>
            query[e]["current"].stage = "none" \/ (e = d /\ Waits(d, "current", u))
      BY <2>3
    <3> SUFFICES ASSUME NEW e \in Docs, cookie # Nobody, Aware(e)'
                 PROVE  IF query'[e]["current"].stage = "none"
                        THEN shown'[e] # Nobody /\ error'[e] = "none" => shown'[e] = holder[cookie]
                        ELSE query'[e]["current"].session = cookie
      BY DEF TokenFollows
    <3>3. Aware(e)
      BY <3>1 DEF Aware
    <3>4. CASE query[e]["current"].stage = "none" /\ ~ (e = d /\ Waits(d, "current", u))
      BY <3>1, <3>2, <3>3, <3>4 DEF TokenFollows, Mounted, DocumentTypes
    <3>5. CASE query[e]["current"].stage # "none"
      BY <3>1, <3>2, <3>3, <3>5 DEF TokenFollows, Mounted, Waits, DocumentTypes
    <3> QED BY <3>4, <3>5 DEF Waits
  <2>12. SidebarIsOwn'
    BY DEF SidebarIsOwn, Mounted, DocumentTypes
  <2> QED BY <2>5, <2>6, <2>7, <2>8, <2>9, <2>10, <2>11, <2>12
<1> QED BY <1>1, <1>2

\* Signing out ends the session and leaves the page.
LEMMA SignOutKeeps ==
  ASSUME DocumentsInv, NEW d \in Docs, SignOut(d)
  PROVE  DocumentsInv'
<1>1. CASE cookie' = Nobody /\ Leaves(d) /\ UNCHANGED faults
  BY <1>1, FreshKeeps DEF SignOut
<1>2. CASE /\ faults < MaxFaults /\ faults' = faults + 1
           /\ UNCHANGED <<cookie, open, home, csrf, query, visit, recorded, shown, error, sidebar>>
  <2>0. live' = live \ {cookie} /\ UNCHANGED <<holder, stored, restarts>>
    BY DEF SignOut
  <2> USE <1>2, <2>0
  <2> USE DEF DocumentsInv
  <2>1. DocumentTypes'
    BY DEF DocumentTypes
  <2>2. SessionsKnown'
    BY DEF SessionsKnown, DocumentTypes
  <2>3. ClosedIdle'
    BY DEF ClosedIdle, DocumentTypes
  <2>4. VisitsCounted'
    BY DEF VisitsCounted, Held, DocumentTypes, SessionsKnown
  <2>5. ShownVisited'
    BY DEF ShownVisited, DocumentTypes, SessionsKnown
  <2>6. WaitingVisited'
    <3>1. \A e \in Docs, q \in Runs : query'[e][q].stage = "waiting" => query'[e][q] = query[e][q]
      BY DEF DocumentTypes
    <3>2. \A x \in Sessions : holder[x] # Nobody => holder'[x] = holder[x]
      BY DEF DocumentTypes
    <3>3. \A e \in Docs, v \in Accounts : visit'[e][v].stage \in {"none", "done"} =>
           visit[e][v].stage \in {"none", "done"}
      BY DEF DocumentTypes
    <3> QED BY <3>1, <3>2, <3>3, WaitingSame
  <2>7. TokenFollows'
    BY DEF TokenFollows, Aware, Mounted, DocumentTypes, SessionsKnown, ClosedIdle
  <2>8. SidebarIsOwn'
    BY DEF SidebarIsOwn, Mounted, DocumentTypes, ClosedIdle
  <2> QED BY <2>1, <2>2, <2>3, <2>4, <2>5, <2>6, <2>7, <2>8
<1> QED BY <1>1, <1>2 DEF SignOut

\* Revoking the other sessions leaves the documents as they are.
LEMMA RevokeOthersKeeps ==
  ASSUME DocumentsInv, NEW d \in Docs, RevokeOthers(d)
  PROVE  DocumentsInv'
<1> USE DEF DocumentsInv, RevokeOthers
<1>1. DocumentTypes'
  BY DEF DocumentTypes
<1>2. SessionsKnown'
  BY DEF SessionsKnown, DocumentTypes
<1>3. ClosedIdle'
  BY DEF ClosedIdle, DocumentTypes
<1>4. VisitsCounted'
  BY DEF VisitsCounted, Held, DocumentTypes, SessionsKnown
<1>5. ShownVisited'
  BY DEF ShownVisited, DocumentTypes, SessionsKnown
<1>6. WaitingVisited'
  <2>1. \A e \in Docs, q \in Runs : query'[e][q].stage = "waiting" => query'[e][q] = query[e][q]
    BY DEF DocumentTypes
  <2>2. \A x \in Sessions : holder[x] # Nobody => holder'[x] = holder[x]
    BY DEF DocumentTypes
  <2>3. \A e \in Docs, v \in Accounts : visit'[e][v].stage \in {"none", "done"} =>
         visit[e][v].stage \in {"none", "done"}
    BY DEF DocumentTypes
  <2> QED BY <2>1, <2>2, <2>3, WaitingSame
<1>7. TokenFollows'
  BY DEF TokenFollows, Aware, Mounted, DocumentTypes, SessionsKnown, ClosedIdle
<1>8. SidebarIsOwn'
  BY DEF SidebarIsOwn, Mounted, DocumentTypes, ClosedIdle
<1> QED BY <1>1, <1>2, <1>3, <1>4, <1>5, <1>6, <1>7, <1>8

\* A sidebar is stored for the account that is shown.
LEMMA SaveSidebarKeeps ==
  ASSUME DocumentsInv, NEW d \in Docs, SaveSidebar(d)
  PROVE  DocumentsInv'
<1> USE DEF DocumentsInv, SaveSidebar
<1>1. DocumentTypes'
  <2>1. shown[d] \in Accounts
    BY DEF DocumentTypes, Mounted
  <2>2. (IF sidebar[d] = Default THEN shown[d] ELSE sidebar[d]) \in Accounts
    BY <2>1 DEF DocumentTypes
  <2>3. sidebar' \in [Docs -> Accounts \cup {Default}] /\ stored' \in [Accounts -> Accounts \cup {Default}]
    BY <2>1, <2>2 DEF DocumentTypes
  <2> QED BY <2>1, <2>2, <2>3 DEF DocumentTypes
<1>2. SessionsKnown'
  BY DEF SessionsKnown, DocumentTypes
<1>3. ClosedIdle'
  BY DEF ClosedIdle, DocumentTypes
<1>4. VisitsCounted'
  BY DEF VisitsCounted, Held, DocumentTypes, SessionsKnown
<1>5. ShownVisited'
  BY DEF ShownVisited, DocumentTypes, SessionsKnown
<1>6. WaitingVisited'
  <2>1. \A e \in Docs, q \in Runs : query'[e][q].stage = "waiting" => query'[e][q] = query[e][q]
    BY DEF DocumentTypes
  <2>2. \A x \in Sessions : holder[x] # Nobody => holder'[x] = holder[x]
    BY DEF DocumentTypes
  <2>3. \A e \in Docs, v \in Accounts : visit'[e][v].stage \in {"none", "done"} =>
         visit[e][v].stage \in {"none", "done"}
    BY DEF DocumentTypes
  <2> QED BY <2>1, <2>2, <2>3, WaitingSame
<1>7. TokenFollows'
  BY DEF TokenFollows, Aware, Mounted, DocumentTypes, SessionsKnown, ClosedIdle
<1>8. SidebarIsOwn'
  BY DEF SidebarIsOwn, Mounted, DocumentTypes, ClosedIdle
<1> QED BY <1>1, <1>2, <1>3, <1>4, <1>5, <1>6, <1>7, <1>8

-----------------------------------------------------------------------------

\* In the beginning no document is open.
LEMMA DocumentsStart == DocumentsInit => DocumentsInv
<1> SUFFICES ASSUME DocumentsInit PROVE DocumentsInv
  OBVIOUS
<1> USE DEF DocumentsInit
<1>1. DocumentTypes
  BY DEF DocumentTypes
<1>2. SessionsKnown /\ ClosedIdle /\ VisitsCounted
  BY DEF SessionsKnown, ClosedIdle, VisitsCounted, Held
<1>3. ShownVisited /\ WaitingVisited /\ TokenFollows /\ SidebarIsOwn
  BY DEF ShownVisited, WaitingVisited, TokenFollows, Mounted, SidebarIsOwn
<1> QED BY <1>1, <1>2, <1>3 DEF DocumentsInv

\* Every step of a document, a session or the server keeps the invariant.
LEMMA DocumentsKeep == DocumentsInv /\ [DocumentsNext]_documentVars => DocumentsInv'
<1> SUFFICES ASSUME DocumentsInv, [DocumentsNext]_documentVars PROVE DocumentsInv'
  OBVIOUS
<1>1. ASSUME NEW u \in Accounts, SignIn(u) PROVE DocumentsInv'
  BY <1>1, SignInKeeps
<1>2. ASSUME NEW s \in Sessions, EndSession(s) PROVE DocumentsInv'
  BY <1>2, EndSessionKeeps
<1>3. ASSUME NEW d \in Docs, NEW r \in Runs, ServeMe(d, r) \/ ToldMe(d, r) PROVE DocumentsInv'
  BY <1>3, ServeMeKeeps, ToldMeKeeps
<1>4. ASSUME NEW d \in Docs,
             OpenDocument(d) \/ Navigate(d) \/ AskMe(d) \/ DeniedMe(d) \/ DropMe(d) \/ FailMe(d)
      PROVE  DocumentsInv'
  BY <1>4, OpenDocumentKeeps, NavigateKeeps, AskMeKeeps, DeniedMeKeeps, DropMeKeeps, FailMeKeeps
<1>5. ASSUME NEW d \in Docs, SignOut(d) \/ RevokeOthers(d) \/ SaveSidebar(d)
      PROVE  DocumentsInv'
  BY <1>5, SignOutKeeps, RevokeOthersKeeps, SaveSidebarKeeps
<1>6. ASSUME NEW d \in Docs, NEW u \in Accounts, VisitAnswered(d, u) \/ LoseVisit(d, u)
      PROVE  DocumentsInv'
  BY <1>6, ServeVisitKeeps, VisitStoredKeeps, VisitRejectedKeeps, VisitDeniedKeeps, LoseVisitKeeps
     DEF VisitAnswered
<1>7. CASE UNCHANGED documentVars
  <2> USE <1>7 DEF documentVars, DocumentsInv
  <2>1. DocumentTypes' /\ SessionsKnown' /\ ClosedIdle' /\ VisitsCounted'
    BY DEF DocumentTypes, SessionsKnown, ClosedIdle, VisitsCounted, Held
  <2>2. ShownVisited' /\ WaitingVisited' /\ TokenFollows' /\ SidebarIsOwn'
    BY DEF ShownVisited, WaitingVisited, TokenFollows, Aware, Mounted, SidebarIsOwn
  <2> QED BY <2>1, <2>2
<1> QED BY <1>1, <1>2, <1>3, <1>4, <1>5, <1>6, <1>7 DEF DocumentsNext, MeAnswered

(* The inductive invariant holds in every behaviour of the documents of a     *)
(* browser, however many there are.                                           *)
THEOREM DocumentsInvariance == DocumentsSpec => []DocumentsInv
BY DocumentsStart, DocumentsKeep, PTL DEF DocumentsSpec

(* The type invariant: a document that is not open has no token and shows     *)
(* nobody, and a query waits only for a visit that is under way.              *)
THEOREM DocumentsTyped == DocumentsSpec => []DocumentsTypeOK
<1>1. DocumentsInv => DocumentsTypeOK
  BY DEF DocumentsInv, DocumentTypes, ClosedIdle, WaitingVisited, DocumentsTypeOK
<1> QED BY <1>1, DocumentsInvariance, PTL

(* A visit is recorded before its page is shown, and once: polling, replaced  *)
(* queries and changes of account record it again only after a lost answer.   *)
THEOREM VisitsRecordedOnce == DocumentsSpec => []VisitsHonest
<1>1. DocumentsInv => VisitsHonest
  <2> SUFFICES ASSUME DocumentsInv, NEW d \in Docs, NEW u \in Accounts
               PROVE  /\ recorded[d][u] <= 1 + faults
                      /\ Mounted(d) /\ shown[d] = u => recorded[d][u] >= 1
    BY DEF VisitsHonest
  <2>1. recorded[d][u] \in Nat /\ faults \in Nat
    BY DEF DocumentsInv, DocumentTypes
  <2>2. recorded[d][u] >= Held(d, u) /\ recorded[d][u] <= Held(d, u) + faults
    BY DEF DocumentsInv, VisitsCounted
  <2>3. shown[d] = u => Held(d, u) = 1
    BY DEF DocumentsInv, ShownVisited, Held
  <2> QED BY <2>1, <2>2, <2>3 DEF Held
<1> QED BY <1>1, DocumentsInvariance, PTL

(* What a page has accepted is for the account it shows, and its sidebar is   *)
(* that account's, whoever signs in in another document of the browser; the   *)
(* exceptions are a session query that runs, and a home page on which it has  *)
(* failed.                                                                    *)
THEOREM PagesBelong == DocumentsSpec => []PageBelongs
<1>1. DocumentsInv => PageBelongs
  <2> SUFFICES ASSUME DocumentsInv PROVE PageOwnsToken
    BY DEF DocumentsInv, PageBelongs
  <2> SUFFICES ASSUME NEW d \in Docs, Mounted(d), Accepted(d), query[d]["current"] = NoFetch,
                      ~ (d \in home /\ error[d] # "none")
               PROVE  holder[cookie] = shown[d]
    BY DEF PageOwnsToken
  <2>1. cookie # Nobody
    BY DEF DocumentsInv, DocumentTypes, Accepted
  <2>2. Aware(d) /\ query[d]["current"].stage = "none"
    BY DEF Aware, Accepted
  <2>3. shown[d] # Nobody /\ error[d] = "none"
    BY DEF Mounted, DocumentsInv, DocumentTypes
  <2> QED BY <2>1, <2>2, <2>3 DEF DocumentsInv, TokenFollows
<1> QED BY <1>1, DocumentsInvariance, PTL
=============================================================================
