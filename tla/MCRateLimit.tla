---------------------------- MODULE MCRateLimit ----------------------------
(* Small instances of RateLimit: two calls of one account share two windows, *)
(* a third, of another account, only the platform's slots.                   *)
EXTENDS RateLimit, TLC

CONSTANTS c1, c2, c3, u1, u2, minute, cooldown

Account == [c \in Calls |-> IF c = c3 THEN u2 ELSE u1]
Keys == [c \in Calls |-> IF c = c3 THEN {} ELSE {minute, cooldown}]
Lasts == [k \in Windows |-> 2]
Allowed == [k \in Windows |-> IF k = minute THEN {2} ELSE {1}]
Concurrency == {[user |-> 1, global |-> 1], [user |-> 1, global |-> 2]}

Twins == Permutations({c1, c2})
=============================================================================
