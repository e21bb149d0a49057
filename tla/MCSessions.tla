----------------------------- MODULE MCSessions -----------------------------
(* Small instances of Sessions. *)
EXTENDS Sessions, TLC

CONSTANTS u1, p1, p2, s1, s2, h1, h2, h3, d1, d2

OneOwner == [p \in Sids |-> u1]

Symmetry == Permutations(Sessions) \cup Permutations(Handlers) \cup Permutations(Deliveries)

\* One sign-in and one revocation at a time, and the retry not during a delivery.
InOrder ==
  /\ Cardinality({x \in Handlers : at'[x].pc \in {"store", "index", "device", "replace", "undo"}}) <= 1
  /\ Cardinality({x \in Actors : at'[x].pc \in {"revoke", "fetch", "provider", "del"}}) <= 1
  /\ at'[Worker].pc = "idle" \/ \A x \in Deliveries : at'[x].pc \in {"idle", "done"}
MCSpec == SessionsInit /\ [][SessionsNext /\ InOrder]_sessionVars
=============================================================================
