----------------------------- MODULE Documents ------------------------------
(* The documents (tabs) of one browser that show the console.  They share    *)
(* the session cookie and the local storage; each has its own scripts: the   *)
(* CSRF token, the session query and the visits it has reported.  A document *)
(* is told of another sign-in only by the next answer of /me.  The home page *)
(* and the status page are public: they stay when the session query fails.   *)
EXTENDS Integers

CONSTANTS
  Docs,         \* documents
  Accounts,     \* users
  Sessions,     \* browser sessions, each with a CSRF token of its own
  Nobody,       \* no session, no account
  Default,      \* the sidebar nobody has changed
  MaxFaults,    \* bound on answers that are lost
  MaxRestarts   \* bound on session queries started over one that is running

ASSUME DocumentsAssumption ==
  /\ Nobody \notin Sessions \cup Accounts
  /\ Default \notin Accounts
  /\ MaxFaults \in Nat
  /\ MaxRestarts \in Nat

VARIABLES
  cookie,    \* the session the browser presents
  holder,    \* whose session it is; Nobody while it has not been given out
  live,      \* the sessions the server still accepts
  open,      \* the documents that are open, whether signed in or not
  home,      \* isHome: those on '/' or '/status'
  csrf,      \* csrfToken: the session whose token a document sends
  query,     \* its session query: the running getSession and one it replaced
  visit,     \* the visit a document reports for an account: the map "visits"
  recorded,  \* how often the server has recorded it for this document
  shown,     \* the account of session.data
  error,     \* session.error: "denied" after a 401, "failed" after any other
  sidebar,   \* whose preferences the mounted provider holds
  stored,    \* the preferences in local storage, per account
  faults, restarts

browserVars  == <<cookie, holder, live>>
documentVars == <<cookie, holder, live, open, home, csrf, query, visit, recorded, shown,
                  error, sidebar, stored, faults, restarts>>

NoFetch == [stage |-> "none"]
NoVisit == [stage |-> "none"]
Fetch == [stage : {"asked", "told", "denied", "waiting"}, session : Sessions \cup {Nobody}]
Visit == [stage : {"sent", "stored", "denied", "rejected", "done"},
          cookie : Sessions \cup {Nobody}, token : Sessions]
Runs  == {"current", "replaced"}

\* The scripts of a document start from nothing.
Fresh(d) ==
  /\ home' = home \ {d}
  /\ csrf' = [csrf EXCEPT ![d] = Nobody]
  /\ query' = [query EXCEPT ![d] = [r \in Runs |-> NoFetch]]
  /\ visit' = [visit EXCEPT ![d] = [u \in Accounts |-> NoVisit]]
  /\ recorded' = [recorded EXCEPT ![d] = [u \in Accounts |-> 0]]
  /\ shown' = [shown EXCEPT ![d] = Nobody]
  /\ error' = [error EXCEPT ![d] = "none"]
  /\ sidebar' = [sidebar EXCEPT ![d] = Default]

DocumentsInit ==
  /\ cookie = Nobody
  /\ holder = [s \in Sessions |-> Nobody]
  /\ live = {}
  /\ open = {}
  /\ home = {}
  /\ csrf = [d \in Docs |-> Nobody]
  /\ query = [d \in Docs |-> [r \in Runs |-> NoFetch]]
  /\ visit = [d \in Docs |-> [u \in Accounts |-> NoVisit]]
  /\ recorded = [d \in Docs |-> [u \in Accounts |-> 0]]
  /\ shown = [d \in Docs |-> Nobody]
  /\ error = [d \in Docs |-> "none"]
  /\ sidebar = [d \in Docs |-> Default]
  /\ stored = [u \in Accounts |-> Default]
  /\ faults = 0
  /\ restarts = 0

\* The page of an account is mounted, with the providers, the avatar menu and
\* "Sign out".  A failed session query takes it away, but not the home page:
\* there the account of session.data stays.
Mounted(d) == d \in open /\ shown[d] # Nobody /\ (d \in home \/ error[d] = "none")

\* The document goes to the sign-in page, to start anew when it comes back.
Leaves(d) == open' = open \ {d} /\ Fresh(d)

---------------------------------------------------------------------------
(* The browser and the server's sessions. *)

\* Some tab comes back from the identity provider; the session it had is deleted.
SignIn(u) ==
  /\ \E s \in Sessions :
       /\ holder[s] = Nobody
       /\ holder' = [holder EXCEPT ![s] = u]
       /\ live' = (live \ {cookie}) \cup {s}
       /\ cookie' = s
  /\ UNCHANGED <<open, home, csrf, query, visit, recorded, shown, error, sidebar, stored, faults, restarts>>

\* It expires, is revoked from another device, or ends with the provider's.
EndSession(s) ==
  /\ s \in live
  /\ live' = live \ {s}
  /\ UNCHANGED <<cookie, holder, open, home, csrf, query, visit, recorded, shown, error,
                 sidebar, stored, faults, restarts>>

OpenDocument(d) ==
  /\ d \notin open
  /\ open' = open \cup {d}
  /\ home' \in {home, home \cup {d}}
  /\ UNCHANGED <<cookie, holder, live, csrf, query, visit, recorded, shown, error,
                 sidebar, stored, faults, restarts>>

\* A link or "back" between the home page and the console.  The scripts stay, and
\* the session query with what it last came to: the console sends a refused
\* document to the sign-in page, and home shows an account that an error hid.
Navigate(d) ==
  /\ d \in open
  /\ \/ /\ d \in home /\ error[d] = "denied"
        /\ Leaves(d)
     \/ /\ d \in home /\ error[d] # "denied"
        /\ home' = home \ {d}
        /\ UNCHANGED <<open, csrf, query, visit, recorded, shown, error, sidebar>>
     \/ /\ d \notin home
        /\ home' = home \cup {d}
        /\ sidebar' = IF shown[d] # Nobody /\ ~ Mounted(d)
                      THEN [sidebar EXCEPT ![d] = stored[shown[d]]] ELSE sidebar
        /\ UNCHANGED <<open, csrf, query, visit, recorded, shown, error>>
  /\ UNCHANGED <<cookie, holder, live, stored, faults, restarts>>

---------------------------------------------------------------------------
(* getSession: /me, then one visit per account and document. *)

\* The page opens, four minutes have passed, "retry" is pressed; or a save that
\* invalidates the session, or "retry" over data, replaces the query that runs.
AskMe(d) ==
  /\ d \in open
  /\ LET asked == [stage |-> "asked", session |-> cookie]
     IN \/ /\ query[d]["current"] = NoFetch
           /\ query' = [query EXCEPT ![d]["current"] = asked]
           /\ UNCHANGED restarts
        \/ /\ shown[d] # Nobody
           /\ query[d]["current"] # NoFetch
           /\ query[d]["replaced"] = NoFetch
           /\ restarts < MaxRestarts
           /\ restarts' = restarts + 1
           /\ query' = [query EXCEPT ![d] =
                [r \in Runs |-> IF r = "current" THEN asked ELSE query[d]["current"]]]
  /\ UNCHANGED <<cookie, holder, live, open, home, csrf, visit, recorded, shown, error,
                 sidebar, stored, faults>>

ServeMe(d, r) ==
  /\ query[d][r].stage = "asked"
  /\ query' = [query EXCEPT ![d][r].stage =
       IF query[d][r].session \in live THEN "told" ELSE "denied"]
  /\ UNCHANGED <<cookie, holder, live, open, home, csrf, visit, recorded, shown, error,
                 sidebar, stored, faults, restarts>>

Resolved_NoKey(d, u) ==
  /\ shown' = [shown EXCEPT ![d] = u]
  /\ error' = [error EXCEPT ![d] = "none"]
  /\ sidebar' = [sidebar EXCEPT ![d] = IF Mounted(d) THEN @ ELSE stored[u]]

\* The query has its result: React shows the account, and the provider, keyed by
\* the account, is mounted again if it is another one or was not mounted.
Resolved(d, u) ==
  /\ shown' = [shown EXCEPT ![d] = u]
  /\ error' = [error EXCEPT ![d] = "none"]
  /\ sidebar' = [sidebar EXCEPT ![d] =
       IF Mounted(d) /\ shown[d] = u THEN @ ELSE stored[u]]

\* /me was answered: the token is taken at once, the session only after the visit.
ToldMe(d, r) ==
  /\ query[d][r].stage = "told"
  /\ LET s == query[d][r].session
         u == holder[s]
     IN /\ csrf' = [csrf EXCEPT ![d] = s]
        /\ IF visit[d][u].stage = "done"
           THEN /\ query' = [query EXCEPT ![d][r] = NoFetch]
                /\ IF r = "current" THEN Resolved(d, u) ELSE UNCHANGED <<shown, error, sidebar>>
                /\ UNCHANGED visit
           ELSE /\ query' = [query EXCEPT ![d][r].stage = "waiting"]
                /\ visit' = IF visit[d][u] = NoVisit
                            THEN [visit EXCEPT ![d][u] = [stage |-> "sent", cookie |-> cookie, token |-> s]]
                            ELSE visit
                /\ UNCHANGED <<shown, error, sidebar>>
  /\ UNCHANGED <<cookie, holder, live, open, home, recorded, stored, faults, restarts>>

DeniedMe_Ignored(d) ==
  /\ query[d]["current"].stage = "denied"
  /\ query' = [query EXCEPT ![d]["current"] = NoFetch]
  /\ UNCHANGED <<cookie, holder, live, open, home, csrf, visit, recorded, shown, error,
                 sidebar, stored, faults, restarts>>

\* The session is gone: the document leaves, but the home page only notes it.
DeniedMe(d) ==
  /\ query[d]["current"].stage = "denied"
  /\ \/ d \notin home /\ Leaves(d)
     \/ /\ d \in home
        /\ query' = [query EXCEPT ![d]["current"] = NoFetch]
        /\ error' = [error EXCEPT ![d] = "denied"]
        /\ UNCHANGED <<open, home, csrf, visit, recorded, shown, sidebar>>
  /\ UNCHANGED <<cookie, holder, live, stored, faults, restarts>>

\* Whatever a replaced query comes to is not looked at.
DropMe(d) ==
  /\ query[d]["replaced"].stage = "denied"
  /\ query' = [query EXCEPT ![d]["replaced"] = NoFetch]
  /\ UNCHANGED <<cookie, holder, live, open, home, csrf, visit, recorded, shown, error,
                 sidebar, stored, faults, restarts>>

\* Any other error is shown instead of a page of the console; a 503 SSO_REFRESHING is asked again once
\* (the query stays asked).
FailMe(d) ==
  /\ query[d]["current"].stage \in {"asked", "told"}
  /\ faults < MaxFaults
  /\ faults' = faults + 1
  /\ query' = [query EXCEPT ![d]["current"] = NoFetch]
  /\ error' = [error EXCEPT ![d] = "failed"]
  /\ UNCHANGED <<cookie, holder, live, open, home, csrf, visit, recorded, shown, sidebar,
                 stored, restarts>>

\* sessionAuth, then visit: recorded for the account of the cookie's session.
ServeVisit(d, u) ==
  /\ visit[d][u].stage = "sent"
  /\ LET v == visit[d][u]
         outcome == IF v.cookie \notin live THEN "denied"
                    ELSE IF v.cookie # v.token THEN "rejected" ELSE "stored"
     IN /\ visit' = [visit EXCEPT ![d][u].stage = outcome]
        /\ recorded' = IF outcome = "stored"
                       THEN [recorded EXCEPT ![d][holder[v.cookie]] = @ + 1] ELSE recorded
  /\ UNCHANGED <<cookie, holder, live, open, home, csrf, query, shown, error, sidebar,
                 stored, faults, restarts>>

LoseVisit(d, u) ==
  /\ visit[d][u].stage \in {"sent", "stored"}
  /\ faults < MaxFaults
  /\ faults' = faults + 1
  /\ visit' = [visit EXCEPT ![d][u].stage = "rejected"]
  /\ UNCHANGED <<cookie, holder, live, open, home, csrf, query, recorded, shown, error,
                 sidebar, stored, restarts>>

Waits(d, r, u) == query[d][r].stage = "waiting" /\ holder[query[d][r].session] = u
Woken(d, u) == [query EXCEPT ![d] =
  [r \in Runs |-> IF Waits(d, r, u) THEN NoFetch ELSE query[d][r]]]

VisitStored_Forgets(d, u) ==
  /\ visit[d][u].stage = "stored"
  /\ visit' = [visit EXCEPT ![d][u] = NoVisit]
  /\ query' = Woken(d, u)
  /\ IF Waits(d, "current", u) THEN Resolved(d, u) ELSE UNCHANGED <<shown, error, sidebar>>
  /\ UNCHANGED <<cookie, holder, live, open, home, csrf, recorded, stored, faults, restarts>>

\* All queries that wait for the visit go on.
VisitStored(d, u) ==
  /\ visit[d][u].stage = "stored"
  /\ visit' = [visit EXCEPT ![d][u].stage = "done"]
  /\ query' = Woken(d, u)
  /\ IF Waits(d, "current", u) THEN Resolved(d, u) ELSE UNCHANGED <<shown, error, sidebar>>
  /\ UNCHANGED <<cookie, holder, live, open, home, csrf, recorded, stored, faults, restarts>>

VisitRejected_NoneTold(d, u) ==
  /\ visit[d][u].stage = "rejected"
  /\ visit' = [visit EXCEPT ![d][u] = NoVisit]
  /\ UNCHANGED <<cookie, holder, live, open, home, csrf, query, recorded, shown, error, sidebar,
                 stored, faults, restarts>>

\* The visit is taken out of the map, and the queries that wait for it fail.
VisitRejected(d, u) ==
  /\ visit[d][u].stage = "rejected"
  /\ visit' = [visit EXCEPT ![d][u] = NoVisit]
  /\ query' = Woken(d, u)
  /\ error' = IF Waits(d, "current", u) THEN [error EXCEPT ![d] = "failed"] ELSE error
  /\ UNCHANGED <<cookie, holder, live, open, home, csrf, recorded, shown, sidebar, stored,
                 faults, restarts>>

\* A 401 on the visit is to the document what one on /me is.
VisitDenied(d, u) ==
  /\ visit[d][u].stage = "denied"
  /\ \/ d \notin home /\ Waits(d, "current", u) /\ Leaves(d)
     \/ /\ d \in home \/ ~ Waits(d, "current", u)
        /\ visit' = [visit EXCEPT ![d][u] = NoVisit]
        /\ query' = Woken(d, u)
        /\ error' = IF Waits(d, "current", u) THEN [error EXCEPT ![d] = "denied"] ELSE error
        /\ UNCHANGED <<open, home, csrf, recorded, shown, sidebar>>
  /\ UNCHANGED <<cookie, holder, live, stored, faults, restarts>>

---------------------------------------------------------------------------
(* What the mounted page does with the session. *)

\* sessionAuth takes a write: the cookie's session is alive and the token is its own.
Accepted(d) == cookie \in live /\ csrf[d] = cookie

\* Signing out here, or "sign out" of the current device: the query cache is
\* cleared and the document leaves.  If the answer is lost it stays.
SignOut(d) ==
  /\ Mounted(d)
  /\ Accepted(d)
  /\ live' = live \ {cookie}
  /\ \/ /\ cookie' = Nobody
        /\ Leaves(d)
        /\ UNCHANGED faults
     \/ /\ faults < MaxFaults
        /\ faults' = faults + 1
        /\ UNCHANGED <<cookie, open, home, csrf, query, visit, recorded, shown, error, sidebar>>
  /\ UNCHANGED <<holder, stored, restarts>>

\* "Sign out of other devices", or of one of them.
RevokeOthers(d) ==
  /\ Mounted(d) /\ d \notin home
  /\ Accepted(d)
  /\ \E s \in live \ {cookie} :
       /\ holder[s] = holder[cookie]
       /\ live' \in {live \ {s}, {t \in live : t = cookie \/ holder[t] # holder[cookie]}}
  /\ UNCHANGED <<cookie, holder, open, home, csrf, query, visit, recorded, shown, error,
                 sidebar, stored, faults, restarts>>

\* The profile page saves its draft of the sidebar under the account it shows;
\* the draft is made from what the provider holds.
SaveSidebar(d) ==
  /\ Mounted(d) /\ d \notin home
  /\ LET v == IF sidebar[d] = Default THEN shown[d] ELSE sidebar[d]
     IN /\ stored' = [stored EXCEPT ![shown[d]] = v]
        /\ sidebar' = [sidebar EXCEPT ![d] = v]
  /\ UNCHANGED <<cookie, holder, live, open, home, csrf, query, visit, recorded, shown,
                 error, faults, restarts>>

---------------------------------------------------------------------------
MeAnswered(d) ==
  \/ \E r \in Runs : ServeMe(d, r) \/ ToldMe(d, r)
  \/ DeniedMe(d) \/ DropMe(d)
VisitAnswered(d, u) ==
  ServeVisit(d, u) \/ VisitStored(d, u) \/ VisitRejected(d, u) \/ VisitDenied(d, u)
Poll(d) == query[d]["current"] = NoFetch /\ AskMe(d)

DocumentsNext ==
  \/ \E u \in Accounts : SignIn(u)
  \/ \E s \in Sessions : EndSession(s)
  \/ \E d \in Docs :
       \/ OpenDocument(d) \/ Navigate(d) \/ AskMe(d) \/ MeAnswered(d) \/ FailMe(d)
       \/ SignOut(d) \/ RevokeOthers(d) \/ SaveSidebar(d)
       \/ \E u \in Accounts : VisitAnswered(d, u) \/ LoseVisit(d, u)

DocumentsSpec == DocumentsInit /\ [][DocumentsNext]_documentVars

\* A visible document polls every four minutes, and requests end.
DocumentsFairness ==
  \A d \in Docs :
    /\ WF_documentVars(Poll(d))
    /\ WF_documentVars(MeAnswered(d))
    /\ \A u \in Accounts : WF_documentVars(VisitAnswered(d, u))
DocumentsFairSpec == DocumentsSpec /\ DocumentsFairness

---------------------------------------------------------------------------
(* The type; what is not open holds nothing, and a query waits only while     *)
(* the visit it waits for is under way.                                       *)
DocumentsTypeOK ==
  /\ cookie \in Sessions \cup {Nobody}
  /\ holder \in [Sessions -> Accounts \cup {Nobody}]
  /\ live \subseteq {s \in Sessions : holder[s] # Nobody}
  /\ open \subseteq Docs
  /\ home \subseteq open
  /\ csrf \in [Docs -> Sessions \cup {Nobody}]
  /\ query \in [Docs -> [Runs -> Fetch \cup {NoFetch}]]
  /\ visit \in [Docs -> [Accounts -> Visit \cup {NoVisit}]]
  /\ recorded \in [Docs -> [Accounts -> Nat]]
  /\ shown \in [Docs -> Accounts \cup {Nobody}]
  /\ error \in [Docs -> {"none", "failed", "denied"}]
  /\ sidebar \in [Docs -> Accounts \cup {Default}]
  /\ stored \in [Accounts -> Accounts \cup {Default}]
  /\ faults \in 0 .. MaxFaults /\ restarts \in 0 .. MaxRestarts
  /\ \A d \in Docs : d \notin open => csrf[d] = Nobody /\ shown[d] = Nobody
  /\ \A d \in Docs, r \in Runs :
       query[d][r].stage = "waiting" =>
         visit[d][holder[query[d][r].session]].stage \notin {"none", "done"}

(* "Record an authenticated document opening once": while a page is shown its *)
(* opening has been recorded for its account, and not again by polling, by a  *)
(* query that replaced another, or after a change of account and back; only   *)
(* an answer that was lost may be reported again.                             *)
VisitsHonest ==
  \A d \in Docs, u \in Accounts :
    /\ recorded[d][u] <= 1 + faults
    /\ Mounted(d) /\ shown[d] = u => recorded[d][u] >= 1

\* A write that the server would accept from a mounted page is applied to the
\* account the page shows.  Two exceptions: the session query runs that has taken
\* the new token already and will show the new account; or that query has failed
\* after the token had come, and the home page shows the old account on.
PageOwnsToken ==
  \A d \in Docs :
    Mounted(d) /\ Accepted(d) =>
      \/ holder[cookie] = shown[d]
      \/ query[d]["current"] # NoFetch
      \/ d \in home /\ error[d] # "none"

\* Preferences stay with their account.
SidebarIsOwn ==
  /\ \A u \in Accounts : stored[u] \in {Default, u}
  /\ \A d \in Docs : Mounted(d) => sidebar[d] \in {Default, shown[d]}

(* What a page does, it does for the account it shows, although the cookie    *)
(* and the local storage are those of the whole browser, in which another     *)
(* account may sign in at any time: its writes are refused or are for that    *)
(* account (but for the moment in which a new token has come and the account  *)
(* is about to, which the home page may miss), and the sidebar is its own.    *)
PageBelongs == PageOwnsToken /\ SidebarIsOwn

(* A page whose session has ended does not stay: the next poll takes it away. *)
(* The home page stays as it is, but knows: on the way to the console it goes.*)
EndedPagesLeave ==
  \A d \in Docs :
    Mounted(d) /\ cookie \notin live ~>
      cookie \in live \/ (IF d \in home THEN error[d] # "none" ELSE ~ Mounted(d))
=============================================================================
