----------------------------- MODULE Admission -----------------------------
(* What the platform promises about API calls, without row locks, snapshots, *)
(* counters or transactions: a call is checked at one moment and admitted at *)
(* another, in one step, while its credential and every limit that were      *)
(* checked are good.  All uses are counted in the log; nothing enters it     *)
(* otherwise, and nobody is answered what is not so.                         *)
EXTENDS Naturals, FiniteSets

CONSTANTS
  Users, Tokens, Endpoints,
  Calls,
  None        \* no answer yet

VARIABLES
  account,     \* the accounts: known, enabled, inherit, daily
  application, \* the applications, with what is granted to them
  endpoint,    \* the endpoints: on, scope, daily
  today,
  log,         \* the calls that were admitted
  asked,       \* what a call asks for, and the limit and day of its check
  answer       \* what its caller is told

admissionVars == <<account, application, endpoint, today, log, asked, answer>>

NotAsking == [stage |-> "none"]

\* The log counts what was used.
OfAccount(u, d)     == Cardinality({x \in log : x.user = u /\ x.day = d})
OfApplication(t, d) == Cardinality({x \in log : x.token = t /\ x.day = d})
OfEndpoint(u, e, d) == Cardinality({x \in log : x.user = u /\ x.endpoint = e /\ x.day = d})
InAll(t)            == Cardinality({x \in log : x.token = t})

\* The credential that call c presented is good.
Credential(c) ==
  LET t == application[asked[c].token]
  IN  /\ account[asked[c].user].enabled
      /\ t.state = "live" /\ t.owner = asked[c].user
      /\ t.enabled /\ ~t.suspended /\ ~t.revoked
      /\ t.key = asked[c].key /\ t.grant = asked[c].grant
Current(c) == Credential(c) /\ application[asked[c].token].expiry # "past"
Offered(c) ==
  LET row == endpoint[asked[c].endpoint]
  IN  row.on /\ row.scope \in application[asked[c].token].grant.scopes

\* There is room for c in the total quota, and in the limits of a day.
QuotaLeft(c) ==
  LET t == application[asked[c].token]
  IN  t.quota > 0 => InAll(asked[c].token) < t.quota
Room(c, limit, d) ==
  /\ OfAccount(asked[c].user, d) < account[asked[c].user].daily
  /\ OfApplication(asked[c].token, d) < application[asked[c].token].daily
  /\ OfEndpoint(asked[c].user, asked[c].endpoint, d) < limit

AdmissionInit ==
  /\ log = {}
  /\ asked = [c \in Calls |-> NotAsking]
  /\ answer = [c \in Calls |-> None]

-----------------------------------------------------------------------------
\* A call that is neither asking, answered nor admitted presents a key that works.
Ask(c) ==
  /\ asked[c] = NotAsking /\ answer[c] = None /\ \A x \in log : x.call # c
  /\ \E t \in Tokens, e \in Endpoints :
       /\ application[t].state = "live" /\ application[t].enabled
       /\ ~application[t].suspended /\ ~application[t].revoked
       /\ application[t].expiry # "past"
       /\ account[application[t].owner].known /\ account[application[t].owner].enabled
       /\ \E ip \in application[t].grant.ips :
            asked' = [asked EXCEPT ![c] =
              [stage |-> "asked", user |-> application[t].owner, token |-> t, endpoint |-> e,
               ip |-> ip, key |-> application[t].key, grant |-> application[t].grant,
               limit |-> 0, day |-> 0]]
  /\ UNCHANGED <<account, application, endpoint, today, log, answer>>

\* It is checked.
Pass(c) ==
  LET limit == endpoint[asked[c].endpoint].daily
  IN  /\ asked[c].stage = "asked"
      /\ asked' = [asked EXCEPT ![c].stage = "passed", ![c].limit = limit, ![c].day = today]
      /\ Current(c) /\ QuotaLeft(c) /\ Offered(c) /\ Room(c, limit, today)
      /\ UNCHANGED <<account, application, endpoint, today, log, answer>>

\* It is admitted, and the caller is told so or learns nothing of it.
Admit(c) ==
  LET q == asked[c]
  IN  /\ q.stage = "passed"
      /\ log' = log \cup {[call |-> c, user |-> q.user, token |-> q.token,
                           endpoint |-> q.endpoint, day |-> q.day]}
      /\ Credential(c) /\ QuotaLeft(c) /\ Room(c, q.limit, q.day)
      /\ asked' = [asked EXCEPT ![c] = NotAsking]
      /\ \E a \in {"admitted", "unavailable"} : answer' = [answer EXCEPT ![c] = a]
      /\ UNCHANGED <<account, application, endpoint, today>>

\* It is not admitted.
TurnAway(c, a) ==
  /\ answer[c] = None
  /\ asked' = [asked EXCEPT ![c] = NotAsking]
  /\ answer' = [answer EXCEPT ![c] = a]
  /\ UNCHANGED <<account, application, endpoint, today, log>>

\* Who is told a reason is told the first one there is.
Deny(c) ==
  /\ asked[c].stage = "asked"
  /\ \/ TurnAway(c, "disabled") /\ ~Current(c)
     \/ TurnAway(c, "quota") /\ Current(c) /\ ~QuotaLeft(c)
     \/ TurnAway(c, "endpoint") /\ Current(c) /\ QuotaLeft(c) /\ ~Offered(c)
     \/ /\ TurnAway(c, "quota")
        /\ Current(c) /\ QuotaLeft(c) /\ Offered(c)
        /\ ~Room(c, endpoint[asked[c].endpoint].daily, today)
Refuse(c) ==
  /\ asked[c].stage # "passed" /\ \A x \in log : x.call # c
  /\ TurnAway(c, "refused")
Fail(c) == asked[c] # NotAsking /\ TurnAway(c, "unavailable")

\* Nobody goes on with it.
Abandon(c) ==
  /\ asked' = [asked EXCEPT ![c] = NotAsking]
  /\ UNCHANGED <<account, application, endpoint, today, log, answer>>

-----------------------------------------------------------------------------
\* Owners and administrators do what they like with accounts and applications,
\* but for a quota that is less than was used, and what was revoked.
Manage ==
  /\ UNCHANGED <<endpoint, today, log, asked, answer>>
  /\ \A t \in Tokens :
       application'[t].quota > 0 => InAll(t) <= application'[t].quota
  /\ \A t \in Tokens : application[t].state = "live" /\ application[t].revoked =>
       \/ application'[t].state = "deleted"
       \/ [application'[t] EXCEPT !.expiry = application[t].expiry] = application[t]

ChangeEndpoint ==
  UNCHANGED <<account, application, today, log, asked, answer>>
Midnight ==
  /\ today' = today + 1
  /\ UNCHANGED <<account, application, endpoint, log, asked, answer>>

AdmissionNext ==
  \/ \E c \in Calls :
       Ask(c) \/ Pass(c) \/ Admit(c) \/ Deny(c) \/ Refuse(c) \/ Fail(c) \/ Abandon(c)
  \/ Manage \/ ChangeEndpoint \/ Midnight

AdmissionSpec == AdmissionInit /\ [][AdmissionNext]_admissionVars
=============================================================================
