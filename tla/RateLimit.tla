----------------------------- MODULE RateLimit -----------------------------
(***************************************************************************)
(* What Redis limits: the windows of rateScript and the concurrency slots  *)
(* of concurrentScript (campus/quota.go), around a call that waits for the *)
(* database and is then forwarded (campus/gateway.go).                     *)
(*                                                                         *)
(* A script is one step.  A slot is leased, because its release may fail   *)
(* and its replica may end; the clocks of replicas differ.  Time is        *)
(* discrete, its unit left open.                                           *)
(***************************************************************************)
EXTENDS Integers, FiniteSets

CONSTANTS
  Calls,      \* each runs once
  Users, Of,  \* the account of each call
  Global,     \* the place that all calls share
  Windows, KeysOf,   \* the keys of the windows, and those each call counts in
  Period,     \* how long each window lasts
  Limits,     \* the limits a call may find for each
  Policies,   \* the concurrency limits the administrator sets
  Lease,      \* of a slot (95 s in the code)
  Upstream,   \* an upstream call ends by then (85 s)
  MaxWait,    \* a reservation ends by then (two lock timeouts of the database)
  MaxSkew,    \* clocks of replicas differ by as much
  None,
  MaxTime,    \* bound: the end of time
  MaxFaults   \* bound: failures of Redis and ends of replicas

VARIABLES
  now,
  window,   \* Redis: a counter with its time to live
  slots,    \* Redis: sorted sets of calls by the end of their lease
  policy,   \* MySQL: the concurrency limits
  call,
  faults

rateVars == <<now, window, slots, policy, call, faults>>

Places == Users \cup {Global}
Policy == [user : Nat \ {0}, global : Nat \ {0}]
Slot == [call : Calls, until : Nat]
CallRow ==
  [pc : {"idle", "rate", "slot", "reserve", "upstream", "freeUser", "freeGlobal", "done"},
   limit : Policy \cup {None},  \* the policy it has read
   counted : Nat \cup {None},   \* when the windows counted it
   taken : Nat,                 \* when it got its slots
   until : Nat]                 \* when its wait ends

ASSUME RateAssumption ==
  /\ IsFiniteSet(Calls)
  /\ Of \in [Calls -> Users] /\ Global \notin Users
  /\ KeysOf \in [Calls -> SUBSET Windows]
  /\ Period \in [Windows -> Nat \ {0}]
  /\ Limits \in [Windows -> SUBSET (Nat \ {0})]
  /\ Policies \subseteq Policy
  /\ Lease \in Nat /\ Upstream \in Nat /\ MaxWait \in Nat /\ MaxSkew \in Nat
  /\ MaxTime \in Nat /\ MaxFaults \in Nat
  /\ None \notin Int \cup Policy

RateInit ==
  /\ now = 0
  /\ window = [k \in Windows |-> [count |-> 0, end |-> 0]]
  /\ slots = [p \in Places |-> {}]
  /\ policy \in Policies
  /\ call = [c \in Calls |->
               [pc |-> "idle", limit |-> None, counted |-> None, taken |-> 0, until |-> 0]]
  /\ faults = 0

Fault == faults < MaxFaults /\ faults' = faults + 1

HoldCall(c, row) == call' = [call EXCEPT ![c] = row]
GoCall(c, pc) == HoldCall(c, [call[c] EXCEPT !.pc = pc])

\* The call needs no more of what it has read, but the time it was counted.
EndCall(c, pc) == HoldCall(c, [call[c] EXCEPT !.pc = pc, !.limit = None, !.taken = 0, !.until = 0])

\* Its slots are leased from now on, and the wait for the database begins.
GiveSlots(c) ==
  HoldCall(c, [call[c] EXCEPT !.pc = "reserve", !.limit = None, !.taken = now, !.until = now + MaxWait])

-----------------------------------------------------------------------------
\* The windows.

\* Variant: an error of the database is not looked at.
ReadPolicy_Ignores(c) ==
  /\ call[c].pc = "idle"
  /\ HoldCall(c, [call[c] EXCEPT !.pc = "rate"])
  /\ UNCHANGED <<now, window, slots, policy, faults>>

\* apiRate reads the policy before it asks Redis for anything.
ReadPolicy(c) ==
  /\ call[c].pc = "idle"
  /\ HoldCall(c, [call[c] EXCEPT !.pc = "rate", !.limit = policy])
  /\ UNCHANGED <<now, window, slots, policy, faults>>

\* A window that has ended counts for nothing.
Counted(k) == IF window[k].end > now THEN window[k].count ELSE 0

\* INCR, and EXPIRE for the first.
Hit(k) ==
  IF Counted(k) = 0 THEN [count |-> 1, end |-> now + Period[k]]
  ELSE [count |-> Counted(k) + 1, end |-> window[k].end]

\* Variant: one too many.
HasRoom_Late(c, limit) == \A k \in KeysOf[c] : Counted(k) <= limit[k]

HasRoom(c, limit) == \A k \in KeysOf[c] : Counted(k) < limit[k]

CountIn(c) == window' = [k \in Windows |-> IF k \in KeysOf[c] THEN Hit(k) ELSE window[k]]

\* Variant: each window is counted as it is found to have room.
CheckWindows_OneByOne(c) ==
  \E limit \in [KeysOf[c] -> UNION {Limits[k] : k \in KeysOf[c]}] :
    /\ call[c].pc = "rate"
    /\ \A k \in KeysOf[c] : limit[k] \in Limits[k]
    /\ window' = [k \in Windows |->
                    IF k \in KeysOf[c] /\ Counted(k) < limit[k] THEN Hit(k) ELSE window[k]]
    /\ IF HasRoom(c, limit)
         THEN HoldCall(c, [call[c] EXCEPT !.pc = "slot", !.counted = now])
         ELSE EndCall(c, "done")
    /\ UNCHANGED <<now, slots, policy, faults>>

\* rateScript: all the windows of the call have room for it and count it, or
\* none does.  Each limit is what the call read of it before.  (managementRate,
\* and the windows of logs and mails, run the same script and no more.)
CheckWindows(c) ==
  \E limit \in [KeysOf[c] -> UNION {Limits[k] : k \in KeysOf[c]}] :
    /\ call[c].pc = "rate"
    /\ \A k \in KeysOf[c] : limit[k] \in Limits[k]
    /\ IF HasRoom(c, limit)
         THEN /\ CountIn(c)
              /\ HoldCall(c, [call[c] EXCEPT !.pc = "slot", !.counted = now])
         ELSE UNCHANGED window /\ EndCall(c, "done")
    /\ UNCHANGED <<now, slots, policy, faults>>

-----------------------------------------------------------------------------
\* The slots.

\* ZREMRANGEBYSCORE: the slots whose lease has not ended by that clock.
Live(p, clock) == {s \in slots[p] : s.until > clock}

\* Variant: the lease is too short for the call it stands for.
Leased_Short(c, clock) == [call |-> c, until |-> clock + Upstream]

Leased(c, clock) == [call |-> c, until |-> clock + Lease]

\* Variant: the account's slot is taken before the platform's is asked for.
TakeSlots_OneByOne(c) ==
  LET u == Of[c]
  IN  \E skew \in 0 .. MaxSkew :
        LET clock == now + skew
            userFree == Cardinality(Live(u, clock)) < call[c].limit.user
            bothFree == userFree /\ Cardinality(Live(Global, clock)) < call[c].limit.global
        IN  /\ call[c].pc = "slot"
            /\ slots' = [p \in Places |->
                 IF p = u THEN Live(u, clock) \cup {s \in {Leased(c, clock)} : userFree}
                 ELSE IF p = Global /\ userFree
                   THEN Live(Global, clock) \cup {s \in {Leased(c, clock)} : bothFree}
                   ELSE slots[p]]
            /\ IF bothFree THEN GiveSlots(c)
               ELSE EndCall(c, "done")
            /\ UNCHANGED <<now, window, policy, faults>>

\* concurrentScript, by the clock of the replica: what has ended is removed
\* from one place after the other until one is full; both places take the call,
\* or none does.
AskSlots(c, clock, free) ==
  LET u == Of[c]
      userFree == Cardinality(Live(u, clock)) < call[c].limit.user
  IN  /\ free = (userFree /\ Cardinality(Live(Global, clock)) < call[c].limit.global)
      /\ slots' = [p \in Places |->
           IF p = u \/ (p = Global /\ userFree)
             THEN Live(p, clock) \cup {s \in {Leased(c, clock)} : free}
             ELSE slots[p]]

\* A call without a slot is refused, and stays counted in its windows.
TakeSlots(c) ==
  \E skew \in 0 .. MaxSkew, free \in BOOLEAN :
    /\ call[c].pc = "slot"
    /\ AskSlots(c, now + skew, free)
    /\ IF free THEN GiveSlots(c)
       ELSE EndCall(c, "done")
    /\ UNCHANGED <<now, window, policy, faults>>

\* The answer of a script is lost, or it does not run: the call is refused, and
\* what it was given is not given back.
RedisFails(c) ==
  /\ Fault
  /\ \/ call[c].pc \in {"rate", "slot"} /\ UNCHANGED <<window, slots>> /\ EndCall(c, "done")
     \/ /\ call[c].pc = "rate" /\ UNCHANGED slots
        /\ \E limit \in [KeysOf[c] -> UNION {Limits[k] : k \in KeysOf[c]}] :
             (\A k \in KeysOf[c] : limit[k] \in Limits[k]) /\ HasRoom(c, limit)
        /\ CountIn(c)
        /\ HoldCall(c, [call[c] EXCEPT !.pc = "done", !.limit = None, !.counted = now])
     \/ /\ call[c].pc = "slot" /\ UNCHANGED window
        /\ \E skew \in 0 .. MaxSkew, free \in BOOLEAN : AskSlots(c, now + skew, free)
        /\ EndCall(c, "done")
  /\ UNCHANGED <<now, policy>>

-----------------------------------------------------------------------------
\* The call.

\* Variant: a call that is refused keeps its slots.
Reserved_Keeps(c) ==
  /\ call[c].pc = "reserve"
  /\ \/ HoldCall(c, [call[c] EXCEPT !.pc = "upstream", !.until = now + Upstream])
     \/ EndCall(c, "done")
  /\ UNCHANGED <<now, window, slots, policy, faults>>

\* reserve admits the call, which is forwarded, or refuses it.
Reserved(c) ==
  /\ call[c].pc = "reserve"
  /\ \/ HoldCall(c, [call[c] EXCEPT !.pc = "upstream", !.until = now + Upstream])
     \/ EndCall(c, "freeUser")
  /\ UNCHANGED <<now, window, slots, policy, faults>>

\* The campus service answers, or the context of the call ends.
Answered(c) ==
  /\ call[c].pc = "upstream"
  /\ EndCall(c, "freeUser")
  /\ UNCHANGED <<now, window, slots, policy, faults>>

\* release: ZREM at one place after the other; an error is not seen.
ReleaseSlot(c) ==
  LET p == IF call[c].pc = "freeUser" THEN Of[c] ELSE Global
  IN  /\ call[c].pc \in {"freeUser", "freeGlobal"}
      /\ \/ slots' = [slots EXCEPT ![p] = {s \in @ : s.call # c}] /\ UNCHANGED faults
         \/ Fault /\ UNCHANGED slots
      /\ GoCall(c, IF call[c].pc = "freeUser" THEN "freeGlobal" ELSE "done")
      /\ UNCHANGED <<now, window, policy>>

\* The replica ends.
CallDies(c) ==
  /\ call[c].pc \notin {"idle", "done"}
  /\ Fault
  /\ EndCall(c, "done")
  /\ UNCHANGED <<now, window, slots, policy>>

SetPolicy ==
  /\ policy' \in Policies
  /\ UNCHANGED <<now, window, slots, call, faults>>

\* Time passes, but for a call whose context or lock wait is over.
Tick ==
  /\ now < MaxTime
  /\ \A c \in Calls : call[c].pc \in {"reserve", "upstream"} => now < call[c].until
  /\ now' = now + 1
  /\ UNCHANGED <<window, slots, policy, call, faults>>

RateNext ==
  \/ \E c \in Calls :
       \/ ReadPolicy(c) \/ CheckWindows(c) \/ TakeSlots(c) \/ RedisFails(c)
       \/ Reserved(c) \/ Answered(c) \/ ReleaseSlot(c) \/ CallDies(c)
  \/ SetPolicy
  \/ Tick

RateSpec == RateInit /\ [][RateNext]_rateVars

-----------------------------------------------------------------------------
\* Properties.

RateTypeOK ==
  /\ now \in Nat /\ faults \in Nat
  /\ window \in [Windows -> [count : Nat, end : Nat]]
  /\ slots \in [Places -> SUBSET Slot]
  /\ policy \in Policies
  /\ call \in [Calls -> CallRow]
  /\ \A c \in Calls : call[c].pc \in {"rate", "slot"} => call[c].limit \in Policies

\* The calls a window counted in the times from one to another.
CountedIn(k, from, to) ==
  {c \in Calls : k \in KeysOf[c] /\ call[c].counted \in from .. to}

\* In any stretch of time as long as a window, wherever it begins, a limit of
\* n lets at most 2n - 1 calls pass; with a limit of one (a cooldown) two calls
\* are always a whole window apart.
WindowBound ==
  \A k \in Windows, t \in 0 .. now : \A n \in Limits[k] :
    (\A l \in Limits[k] : l <= n) => Cardinality(CountedIn(k, t, t + Period[k] - 1)) <= 2 * n - 1

\* A window has counted the calls that passed since it opened and no others: a
\* call that another window refuses uses nothing up.
WindowsExact ==
  \A k \in Windows :
    window[k].end > now =>
      window[k].count = Cardinality(CountedIn(k, window[k].end - Period[k], now))

\* The calls that are admitted or about to be.
InFlight == {c \in Calls : call[c].pc \in {"reserve", "upstream"}}

\* Of these, the calls whose lease has ended by no clock.
Leasing == {c \in InFlight : now + MaxSkew < call[c].taken + Lease}

\* When a call gets its slots, the calls in flight whose lease has not ended are
\* within the limits it has read: those of its account, and those of the
\* platform.  No release, expiry, refusal, failure or other clock takes a slot
\* from a call before its time or gives more than there are; whoever is above
\* the limits has outlasted its lease.
LeasesWithinLimit ==
  [][\A c \in Calls :
       call[c].pc = "slot" /\ call'[c].pc = "reserve" =>
         /\ Cardinality({d \in Leasing' : Of[d] = Of[c]}) <= call[c].limit.user
         /\ Cardinality(Leasing') <= call[c].limit.global]_rateVars

\* README.md:159, "requests in flight: 3 per user, 20 of the whole platform":
\* when a call gets its slots, no more calls are in flight than the limits it
\* has read.
SlotsWithinLimit ==
  [][\A c \in Calls :
       call[c].pc = "slot" /\ call'[c].pc = "reserve" =>
         /\ Cardinality({d \in InFlight' : Of[d] = Of[c]}) <= call[c].limit.user
         /\ Cardinality(InFlight') <= call[c].limit.global]_rateVars

\* A slot belongs to a call that runs, or was lost to a failure: at no place
\* are there more of the latter than failures.
SlotsAccounted ==
  \A p \in Places :
    Cardinality({s \in slots[p] : call[s.call].pc \in {"idle", "rate", "slot", "done"}}) <= faults
=============================================================================
