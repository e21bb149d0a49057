------------------------------ MODULE MCQuota ------------------------------
(* Small databases for module Quota.  Open is a grant that lets the        *)
(* address in, Fenced one that does not.                                   *)
EXTENDS QuotaInvariant, TLC

CONSTANTS u1, u2, t1, t2, t3, c1, c2, c3, r1, r2, r3, e1, s1, s2, i1

Open  == [scopes |-> {s1}, ips |-> {i1}]
Fenced == [scopes |-> {s1}, ips |-> {}]
OneGrant  == {Open}
TwoGrants == {Open, Fenced}

App(o, d, q) ==
  [state |-> "live", owner |-> o, key |-> 1, grant |-> Open, enabled |-> TRUE,
   suspended |-> FALSE, revoked |-> FALSE, expiry |-> "never", daily |-> d,
   quota |-> q, used |-> 0]
NoApp == [App(u1, 2, 0) EXCEPT !.state = "free"]

Account(d) == [known |-> TRUE, enabled |-> TRUE, inherit |-> FALSE, daily |-> d]
Newcomer   == [known |-> FALSE, enabled |-> TRUE, inherit |-> TRUE, daily |-> 1]

\* Two applications of one account whose daily limit is two.
PairUsers  == [u \in Users |-> Account(2)]
PairTokens == [t \in Tokens |-> App(u1, 2, IF t = t1 THEN 2 ELSE 0)]

OnlyPolicy == {[daily |-> 2, maxApps |-> 2]}
PairPolicy == [daily |-> 2, maxApps |-> 2]

\* One application with a total quota of two.
SoloTokens == [t \in Tokens |-> App(u1, 2, 2)]
EmptyTokens == [t \in Tokens |-> NoApp]
OneFree     == [t \in Tokens |-> IF t = t1 THEN App(u1, 2, 0) ELSE NoApp]

\* An administrator changes the default limit and the number of applications.
CornerPolicies == {[daily |-> 2, maxApps |-> 2], [daily |-> 1, maxApps |-> 1]}
TwoDefaults == [daily : {1, 2}, maxApps : {2}]

Followers == [u \in Users |-> [Account(2) EXCEPT !.inherit = TRUE]]
WithNewcomer == [u \in Users |-> IF u = u1 THEN [Account(2) EXCEPT !.inherit = TRUE] ELSE Newcomer]

OneEndpointRow == {[on |-> TRUE, scope |-> s1, daily |-> 2]}
EndpointSteps == {[on |-> TRUE, scope |-> s1, daily |-> 1],
                  [on |-> TRUE, scope |-> s1, daily |-> 2],
                  [on |-> TRUE, scope |-> s2, daily |-> 2],
                  [on |-> FALSE, scope |-> s1, daily |-> 2]}
EndpointAt2 == [e \in Endpoints |-> [on |-> TRUE, scope |-> s1, daily |-> 2]]

CallSymmetry    == Permutations(Calls)
RequestSymmetry == Permutations(Requests)
BothSymmetry    == CallSymmetry \cup RequestSymmetry
=============================================================================
