-------------------------- MODULE RateLimitProofs --------------------------
(***************************************************************************)
(* Windows, slots and leases for every number of calls, accounts and       *)
(* failures, every limit and every length of time.                         *)
(***************************************************************************)
EXTENDS RateLimit, FiniteSetTheorems, TLAPS

USE RateAssumption

-----------------------------------------------------------------------------
\* Types.

\* Row by row.
RowOK(row) == row \in CallRow /\ (row.pc \in {"rate", "slot"} => row.limit \in Policies)

\* A call that takes a well typed row leaves the others alone.
LEMMA CallTyped ==
  ASSUME RateTypeOK, NEW c \in Calls, NEW row, RowOK(row), HoldCall(c, row)
  PROVE  /\ call' \in [Calls -> CallRow]
         /\ \A d \in Calls : RowOK(call'[d])
         /\ call'[c] = row /\ \A d \in Calls : d # c => call'[d] = call[d]
<1>1. call \in [Calls -> CallRow] /\ \A d \in Calls : RowOK(call[d])
  BY DEF RateTypeOK, RowOK
<1>2. row \in CallRow
  BY DEF RowOK
<1> QED
  BY <1>1, <1>2 DEF HoldCall

\* The rows that the steps take.
LEMMA Rows ==
  ASSUME RateTypeOK, NEW c \in Calls
  PROVE  /\ RowOK(call[c]) /\ call[c].taken \in Nat /\ call[c].counted \in Nat \cup {None}
         /\ \A pc \in {"freeUser", "freeGlobal", "done"} :
              /\ RowOK([call[c] EXCEPT !.pc = pc, !.limit = None, !.taken = 0, !.until = 0])
              /\ RowOK([call[c] EXCEPT !.pc = pc])
         /\ RowOK([call[c] EXCEPT !.pc = "rate", !.limit = policy])
         /\ call[c].pc = "rate" => RowOK([call[c] EXCEPT !.pc = "slot", !.counted = now])
         /\ RowOK([call[c] EXCEPT !.pc = "done", !.limit = None, !.counted = now])
         /\ RowOK([call[c] EXCEPT !.pc = "reserve", !.limit = None, !.taken = now, !.until = now + MaxWait])
         /\ RowOK([call[c] EXCEPT !.pc = "upstream", !.until = now + Upstream])
<1>1. call[c] \in CallRow /\ now \in Nat /\ policy \in Policies
      /\ (call[c].pc \in {"rate", "slot"} => call[c].limit \in Policies)
  BY DEF RateTypeOK
<1>2. now + MaxWait \in Nat /\ now + Upstream \in Nat /\ policy \in Policy
  BY <1>1
<1> QED
  BY <1>1, <1>2 DEF RowOK, CallRow

\* A call that takes a row leaves the others alone.
LEMMA RowTaken ==
  ASSUME RateTypeOK, NEW c \in Calls, NEW row, HoldCall(c, row)
  PROVE  call'[c] = row /\ \A d \in Calls : d # c => call'[d] = call[d]
BY DEF HoldCall, RateTypeOK

\* Where a step leaves its call, when it took its slots, and when it was counted.
LEMMA StepTaken ==
  ASSUME RateTypeOK, NEW c \in Calls, NEW pc, NEW u
  PROVE  /\ EndCall(c, pc) \/ GoCall(c, pc) =>
              call'[c].pc = pc /\ call'[c].counted = call[c].counted
         /\ HoldCall(c, [call[c] EXCEPT !.pc = pc, !.limit = u]) =>
              call'[c].pc = pc /\ call'[c].counted = call[c].counted
         /\ HoldCall(c, [call[c] EXCEPT !.pc = pc, !.counted = u]) =>
              call'[c].pc = pc /\ call'[c].counted = u
         /\ HoldCall(c, [call[c] EXCEPT !.pc = pc, !.limit = None, !.counted = u]) =>
              call'[c].pc = pc /\ call'[c].counted = u
         /\ HoldCall(c, [call[c] EXCEPT !.pc = pc, !.until = u]) =>
              call'[c].pc = pc /\ call'[c].taken = call[c].taken /\ call'[c].counted = call[c].counted
         /\ GiveSlots(c) =>
              call'[c].pc = "reserve" /\ call'[c].taken = now /\ call'[c].counted = call[c].counted
<1> DEFINE end == [call[c] EXCEPT !.pc = pc, !.limit = None, !.taken = 0, !.until = 0]
           go == [call[c] EXCEPT !.pc = pc]
           read == [call[c] EXCEPT !.pc = pc, !.limit = u]
           count == [call[c] EXCEPT !.pc = pc, !.counted = u]
           lost == [call[c] EXCEPT !.pc = pc, !.limit = None, !.counted = u]
           give == [call[c] EXCEPT !.pc = "reserve", !.limit = None, !.taken = now, !.until = now + MaxWait]
           wait == [call[c] EXCEPT !.pc = pc, !.until = u]
           old == call[c].counted
<1>1. call[c] \in CallRow
  BY DEF RateTypeOK
<1>2. /\ end.pc = pc /\ go.pc = pc /\ read.pc = pc /\ count.pc = pc /\ lost.pc = pc
      /\ give.pc = "reserve" /\ give.taken = now /\ wait.pc = pc /\ wait.taken = call[c].taken
  BY <1>1 DEF CallRow
<1>3. /\ end.counted = old /\ go.counted = old /\ read.counted = old
      /\ give.counted = old /\ wait.counted = old /\ count.counted = u /\ lost.counted = u
  BY <1>1 DEF CallRow
<1>4. /\ EndCall(c, pc) => HoldCall(c, end)
      /\ GoCall(c, pc) => HoldCall(c, go)
      /\ GiveSlots(c) => HoldCall(c, give)
  BY DEF EndCall, GoCall, GiveSlots
<1> HIDE DEF end, go, read, count, lost, give, wait, old
<1>5. /\ HoldCall(c, end) \/ HoldCall(c, go) => call'[c].pc = pc /\ call'[c].counted = old
      /\ HoldCall(c, read) => call'[c].pc = pc /\ call'[c].counted = old
      /\ HoldCall(c, count) \/ HoldCall(c, lost) => call'[c].pc = pc /\ call'[c].counted = u
      /\ HoldCall(c, give) =>
           call'[c].pc = "reserve" /\ call'[c].taken = now /\ call'[c].counted = old
      /\ HoldCall(c, wait) =>
           call'[c].pc = pc /\ call'[c].taken = call[c].taken /\ call'[c].counted = old
  BY <1>2, <1>3, RowTaken
<1> QED
  BY <1>4, <1>5 DEF read, count, lost, wait, old

\* The slots that a call is given, and those that are left of a place.
LEMMA AskTyped ==
  ASSUME RateTypeOK, NEW c \in Calls, NEW skew \in 0 .. MaxSkew, NEW free \in BOOLEAN,
         AskSlots(c, now + skew, free)
  PROVE  slots' \in [Places -> SUBSET Slot] /\ Leased(c, now + skew) \in Slot
<1>1. slots \in [Places -> SUBSET Slot] /\ now + skew + Lease \in Nat
  BY DEF RateTypeOK
<1>2. Leased(c, now + skew) \in Slot
  BY <1>1 DEF Leased, Slot
<1>3. \A p \in Places : Live(p, now + skew) \subseteq Slot
  BY <1>1 DEF Live
<1> QED
  BY <1>1, <1>2, <1>3 DEF AskSlots

\* The windows after a call is counted.
LEMMA HitTyped ==
  ASSUME RateTypeOK, NEW k \in Windows
  PROVE  Counted(k) \in Nat /\ Hit(k) \in [count : Nat, end : Nat]
  BY DEF RateTypeOK, Counted, Hit

-----------------------------------------------------------------------------
\* The type invariant.
LEMMA RateTypeInit == RateInit => RateTypeOK
<1> SUFFICES ASSUME RateInit PROVE RateTypeOK
  OBVIOUS
<1>1. [count |-> 0, end |-> 0] \in [count : Nat, end : Nat]
  OBVIOUS
<1>2. [pc |-> "idle", limit |-> None, counted |-> None, taken |-> 0, until |-> 0] \in CallRow
  BY DEF CallRow
<1> QED
  BY <1>1, <1>2 DEF RateInit, RateTypeOK

\* Every step keeps it.
LEMMA RateTypeNext == RateTypeOK /\ [RateNext]_rateVars => RateTypeOK'
<1> SUFFICES ASSUME RateTypeOK, [RateNext]_rateVars PROVE RateTypeOK'
  OBVIOUS
<1>1. ASSUME NEW c \in Calls, NEW row, RowOK(row), HoldCall(c, row),
             window' \in [Windows -> [count : Nat, end : Nat]],
             slots' \in [Places -> SUBSET Slot], UNCHANGED <<now, policy>>, faults' \in Nat
      PROVE  RateTypeOK'
  BY <1>1, CallTyped DEF RateTypeOK, RowOK
<1>2. /\ window \in [Windows -> [count : Nat, end : Nat]]
      /\ slots \in [Places -> SUBSET Slot] /\ faults \in Nat
  BY DEF RateTypeOK
<1>3. \A c : CountIn(c) => window' \in [Windows -> [count : Nat, end : Nat]]
  BY <1>2, HitTyped DEF CountIn
<1>4. ASSUME NEW c \in Calls, ReadPolicy(c) PROVE RateTypeOK'
  BY <1>1, <1>2, <1>4, Rows DEF ReadPolicy
<1>5. ASSUME NEW c \in Calls, CheckWindows(c) PROVE RateTypeOK'
  <2>1. call[c].pc = "rate" /\ UNCHANGED <<now, slots, policy, faults>>
    BY <1>5 DEF CheckWindows
  <2>2. CASE CountIn(c) /\ HoldCall(c, [call[c] EXCEPT !.pc = "slot", !.counted = now])
    BY <1>1, <1>2, <1>3, <2>1, <2>2, Rows
  <2>3. CASE UNCHANGED window /\ EndCall(c, "done")
    BY <1>1, <1>2, <2>1, <2>3, Rows DEF EndCall
  <2> QED
    BY <1>5, <2>2, <2>3 DEF CheckWindows
<1>6. ASSUME NEW c \in Calls, TakeSlots(c) PROVE RateTypeOK'
  <2>1. slots' \in [Places -> SUBSET Slot] /\ UNCHANGED <<now, window, policy, faults>>
    BY <1>6, AskTyped DEF TakeSlots
  <2>2. CASE GiveSlots(c)
    BY <1>1, <1>2, <2>1, <2>2, Rows DEF GiveSlots
  <2>3. CASE EndCall(c, "done")
    BY <1>1, <1>2, <2>1, <2>3, Rows DEF EndCall
  <2> QED
    BY <1>6, <2>2, <2>3 DEF TakeSlots
<1>7. ASSUME NEW c \in Calls, RedisFails(c) PROVE RateTypeOK'
  <2>1. UNCHANGED <<now, policy>> /\ faults' \in Nat
    BY <1>2, <1>7 DEF RedisFails, Fault
  <2>2. CASE UNCHANGED <<window, slots>> /\ EndCall(c, "done")
    BY <1>1, <1>2, <2>1, <2>2, Rows DEF EndCall
  <2>3. CASE /\ UNCHANGED slots /\ CountIn(c)
             /\ HoldCall(c, [call[c] EXCEPT !.pc = "done", !.limit = None, !.counted = now])
    BY <1>1, <1>2, <1>3, <2>1, <2>3, Rows
  <2>4. CASE /\ UNCHANGED window /\ EndCall(c, "done")
             /\ \E skew \in 0 .. MaxSkew, free \in BOOLEAN : AskSlots(c, now + skew, free)
    <3>1. slots' \in [Places -> SUBSET Slot]
      BY <2>4, AskTyped
    <3> QED
      BY <1>1, <1>2, <2>1, <2>4, <3>1, Rows DEF EndCall
  <2> QED
    BY <1>7, <2>2, <2>3, <2>4 DEF RedisFails
<1>8. ASSUME NEW c \in Calls, Reserved(c) \/ Answered(c) \/ CallDies(c) PROVE RateTypeOK'
  <2>1. UNCHANGED <<now, window, slots, policy>> /\ faults' \in Nat
    BY <1>2, <1>8 DEF Reserved, Answered, CallDies, Fault
  <2>2. CASE EndCall(c, "freeUser") \/ EndCall(c, "done")
    BY <1>1, <1>2, <2>1, <2>2, Rows DEF EndCall
  <2>3. CASE HoldCall(c, [call[c] EXCEPT !.pc = "upstream", !.until = now + Upstream])
    BY <1>1, <1>2, <2>1, <2>3, Rows
  <2> QED
    BY <1>8, <2>2, <2>3 DEF Reserved, Answered, CallDies
<1>9. ASSUME NEW c \in Calls, ReleaseSlot(c) PROVE RateTypeOK'
  <2>1. /\ slots' \in [Places -> SUBSET Slot] /\ faults' \in Nat
        /\ UNCHANGED <<now, window, policy>>
    BY <1>2, <1>9 DEF ReleaseSlot, Fault
  <2>2. GoCall(c, "freeGlobal") \/ GoCall(c, "done")
    BY <1>9 DEF ReleaseSlot
  <2> QED
    BY <1>1, <1>2, <2>1, <2>2, Rows DEF GoCall
<1>10. CASE SetPolicy
  BY <1>10 DEF SetPolicy, RateTypeOK
<1>11. CASE Tick
  BY <1>11 DEF Tick, RateTypeOK
<1>12. CASE UNCHANGED rateVars
  BY <1>12 DEF rateVars, RateTypeOK
<1> QED
  BY <1>4, <1>5, <1>6, <1>7, <1>8, <1>9, <1>10, <1>11, <1>12 DEF RateNext

\* Every variable keeps its type.
THEOREM RateTyped == RateSpec => []RateTypeOK
BY RateTypeInit, RateTypeNext, PTL DEF RateSpec

-----------------------------------------------------------------------------
\* Slots: who has one, for how long, and which are lost.

Before == {"idle", "rate", "slot"}

\* Every call in flight has its two slots until its lease has ended by some clock.
Held == \A c \in Leasing : \A p \in {Of[c], Global} :
  \E s \in slots[p] : s.call = c /\ s.until >= call[c].taken + Lease

\* A slot that nobody will give back.
IsLost(p, pc) == pc = "done" \/ (pc = "freeGlobal" /\ p # Global)
Lost(p) == {s \in slots[p] : IsLost(p, call[s.call].pc)}

\* A call has one slot at each of its places, and none before it asks.
SlotsShaped ==
  /\ \A p \in Places : IsFiniteSet(slots[p])
  /\ \A p \in Places : \A s \in slots[p] : p \in {Of[s.call], Global}
  /\ \A p \in Places : \A s \in slots[p] : call[s.call].pc \notin Before
  /\ \A p \in Places : \A s, t \in slots[p] : s.call = t.call => s = t
  /\ \A p \in Places : Cardinality(Lost(p)) <= faults

SlotInv == RateTypeOK /\ SlotsShaped /\ Held

\* At most one more is lost with a failure.
LEMMA LostGrows ==
  ASSUME RateTypeOK, SlotsShaped, NEW p \in Places, NEW c \in Calls,
         IsFiniteSet(Lost(p)'),
         \/ faults' = faults /\ Lost(p)' \subseteq Lost(p)
         \/ /\ faults' = faults + 1
            /\ \A s, t \in Lost(p)' : s.call = c /\ t.call = c => s = t
            /\ \A s \in Lost(p)' : s.call = c \/ s \in Lost(p)
  PROVE  Cardinality(Lost(p)') <= faults'
<1>1. /\ IsFiniteSet(Lost(p)) /\ Cardinality(Lost(p)) <= faults /\ faults \in Nat
      /\ Cardinality(Lost(p)) \in Nat
  <2>1. IsFiniteSet(slots[p]) /\ Lost(p) \in SUBSET slots[p]
    BY DEF SlotsShaped, Lost
  <2>2. IsFiniteSet(Lost(p))
    BY <2>1, FS_Subset
  <2> QED
    BY <2>2, FS_CardinalityType DEF SlotsShaped, RateTypeOK
<1>2. CASE faults' = faults /\ Lost(p)' \subseteq Lost(p)
  <2>1. Cardinality(Lost(p)') <= Cardinality(Lost(p))
    BY <1>1, <1>2, FS_Subset
  <2> QED
    BY <1>1, <1>2, <2>1, FS_CardinalityType
<1>3. CASE /\ faults' = faults + 1
           /\ \A s, t \in Lost(p)' : s.call = c /\ t.call = c => s = t
           /\ \A s \in Lost(p)' : s.call = c \/ s \in Lost(p)
  <2>1. CASE \A s \in Lost(p)' : s.call # c
    <3>1. Cardinality(Lost(p)') <= Cardinality(Lost(p))
      BY <1>1, <1>3, <2>1, FS_Subset
    <3> QED
      BY <1>1, <1>3, <3>1, FS_CardinalityType
  <2>2. CASE \E s \in Lost(p)' : s.call = c
    <3>1. PICK s \in Lost(p)' : s.call = c
      BY <2>2
    <3>2. Lost(p)' \in SUBSET (Lost(p) \cup {s})
      BY <1>3, <3>1
    <3>3. IsFiniteSet(Lost(p) \cup {s}) /\ Cardinality(Lost(p) \cup {s}) <= Cardinality(Lost(p)) + 1
      <4> DEFINE L == Lost(p)
      <4>1. IsFiniteSet(L) /\ Cardinality(L) \in Nat
        BY <1>1
      <4> HIDE DEF L
      <4>2. /\ IsFiniteSet(L \cup {s})
            /\ Cardinality(L \cup {s}) = IF s \in L THEN Cardinality(L) ELSE Cardinality(L) + 1
        BY <4>1, FS_AddElement
      <4>3. IsFiniteSet(L \cup {s}) /\ Cardinality(L \cup {s}) <= Cardinality(L) + 1
        BY <4>1, <4>2
      <4> QED
        BY <4>3 DEF L
    <3>4. Cardinality(Lost(p)') <= Cardinality(Lost(p) \cup {s})
      BY <3>2, <3>3, FS_Subset
    <3>5. Cardinality(Lost(p)') \in Nat /\ Cardinality(Lost(p) \cup {s}) \in Nat
      BY <3>3, FS_CardinalityType
    <3> QED
      BY <1>1, <1>3, <3>3, <3>4, <3>5
  <2> QED
    BY <2>1, <2>2
<1> QED
  BY <1>2, <1>3

\* Slots are removed when they end by some clock, or by their own call.
LEMMA SlotsShrink ==
  ASSUME SlotInv, RateTypeOK', NEW c \in Calls,
         now' = now, \A d \in Calls : d # c => call'[d] = call[d],
         \A p \in Places : /\ slots'[p] \subseteq slots[p]
                           /\ \A s \in slots[p] \ slots'[p] :
                                s.until <= now + MaxSkew \/ (s.call = c /\ c \notin InFlight'),
         call'[c].pc \in Before => call[c].pc \in Before,
         c \in InFlight' => c \in InFlight /\ call'[c].taken = call[c].taken,
         \/ faults' = faults + 1
         \/ /\ faults' = faults
            /\ \A p \in Places : \A s \in slots'[p] :
                 s.call = c /\ IsLost(p, call'[c].pc) => IsLost(p, call[c].pc)
  PROVE  SlotInv'
<1>1. RateTypeOK /\ slots \in [Places -> SUBSET Slot] /\ slots' \in [Places -> SUBSET Slot]
      /\ now \in Nat /\ \A d \in Calls : call[d].taken \in Nat /\ call'[d].taken \in Nat
  BY DEF SlotInv, RateTypeOK, CallRow
<1>2. \A p \in Places : IsFiniteSet(slots'[p])
  BY FS_Subset DEF SlotInv, SlotsShaped
<1>3. \A p \in Places : \A s \in slots'[p] : call'[s.call].pc \notin Before
  BY <1>1 DEF SlotInv, SlotsShaped, Slot
<1>4. \A p \in Places : /\ \A s, t \in slots'[p] : s.call = t.call => s = t
                        /\ \A s \in slots'[p] : p \in {Of[s.call], Global}
  BY DEF SlotInv, SlotsShaped
<1>5. ASSUME NEW p \in Places PROVE Cardinality(Lost(p)') <= faults'
  <2>1. IsFiniteSet(Lost(p)')
    <3>1. Lost(p)' \in SUBSET slots'[p]
      BY DEF Lost
    <3> QED
      BY <1>2, <3>1, FS_Subset
  <2>2. \A s \in Lost(p)' : s.call = c \/ s \in Lost(p)
    BY <1>1 DEF Lost, Slot
  <2>3. \A s, t \in Lost(p)' : s.call = t.call => s = t
    BY <1>4 DEF Lost
  <2>4. faults' = faults => Lost(p)' \subseteq Lost(p)
    <3>1. faults # faults + 1
      BY DEF SlotInv, RateTypeOK
    <3> QED
      BY <1>1, <2>2, <3>1 DEF Lost
  <2> QED
    BY <1>1, <2>1, <2>2, <2>3, <2>4, LostGrows DEF SlotInv
<1>6. Held'
  <2> SUFFICES ASSUME NEW d \in Leasing', NEW p \in {Of[d], Global}
               PROVE  \E s \in slots'[p] : s.call = d /\ s.until >= call'[d].taken + Lease
    BY DEF Held
  <2>1. d \in InFlight' /\ d \in Calls /\ p \in Places /\ now' + MaxSkew < call'[d].taken + Lease
    BY DEF Leasing, InFlight, Places
  <2>2. d \in InFlight /\ call'[d].taken = call[d].taken
    BY <2>1 DEF InFlight
  <2>3. d \in Leasing
    BY <2>1, <2>2 DEF Leasing
  <2>4. PICK s \in slots[p] : s.call = d /\ s.until >= call[d].taken + Lease
    BY <2>3 DEF SlotInv, Held
  <2>5. s.until \in Nat /\ ~ (s.until <= now + MaxSkew)
    BY <1>1, <2>1, <2>2, <2>4 DEF Slot
  <2>6. s \in slots'[p]
    BY <2>1, <2>4, <2>5
  <2> QED
    BY <2>2, <2>4, <2>6
<1> QED
  BY <1>2, <1>3, <1>4, <1>5, <1>6 DEF SlotInv, SlotsShaped

\* Slots are given to a call, which goes on to the reservation or fails.
LEMMA SlotsGiven ==
  ASSUME SlotInv, RateTypeOK', NEW c \in Calls, NEW skew \in 0 .. MaxSkew,
         AskSlots(c, now + skew, TRUE), call[c].pc = "slot", now' = now,
         \A d \in Calls : d # c => call'[d] = call[d],
         \/ call'[c].pc = "reserve" /\ call'[c].taken = now /\ faults' = faults
         \/ call'[c].pc = "done" /\ faults' = faults + 1
  PROVE  SlotInv'
<1> DEFINE clock == now + skew
           new == Leased(c, clock)
<1>1. RateTypeOK /\ slots \in [Places -> SUBSET Slot] /\ slots' \in [Places -> SUBSET Slot]
      /\ now \in Nat /\ clock \in Nat /\ faults \in Nat
      /\ \A d \in Calls : call[d].taken \in Nat /\ call'[d].taken \in Nat
  BY DEF SlotInv, RateTypeOK, CallRow
<1>2. new.call = c /\ new.until = clock + Lease
  BY DEF Leased
<1>3. /\ \A p \in {Of[c], Global} : slots'[p] = Live(p, clock) \cup {new}
      /\ \A p \in Places \ {Of[c], Global} : slots'[p] = slots[p]
  BY DEF AskSlots, Places
<1> HIDE DEF new
<1>4. \A p \in Places : /\ Live(p, clock) \subseteq slots[p] /\ slots'[p] \subseteq slots[p] \cup {new}
                        /\ \A s \in slots[p] \ slots'[p] : s.until <= clock
  BY <1>1, <1>3 DEF Live, Slot
<1>5. \A p \in Places : \A s \in slots[p] : s.call # c /\ s.call \in Calls
  BY <1>1 DEF SlotInv, SlotsShaped, Slot, Before
<1>6. \A p \in Places : IsFiniteSet(slots'[p])
  <2> SUFFICES ASSUME NEW p \in Places PROVE IsFiniteSet(slots'[p])
    OBVIOUS
  <2>1. IsFiniteSet(slots[p] \cup {new})
    BY FS_AddElement DEF SlotInv, SlotsShaped
  <2> QED
    BY <1>4, <2>1, FS_Subset
<1>7. \A p \in Places : \A s \in slots'[p] : call'[s.call].pc \notin Before
  BY <1>2, <1>4, <1>5 DEF SlotInv, SlotsShaped, Before
<1>8. \A p \in Places : /\ \A s, t \in slots'[p] : s.call = t.call => s = t
                        /\ \A s \in slots'[p] : p \in {Of[s.call], Global}
  <2>1. \A p \in Places : \A s, t \in slots'[p] : s.call = t.call => s = t
    BY <1>2, <1>4, <1>5 DEF SlotInv, SlotsShaped
  <2>2. ASSUME NEW p \in Places, NEW s \in slots'[p]
        PROVE  s \in slots[p] \/ (p \in {Of[c], Global} /\ s = new)
    <3>1. CASE p \in {Of[c], Global}
      BY <1>4, <3>1
    <3>2. CASE p \notin {Of[c], Global}
      BY <1>3, <3>2
    <3> QED
      BY <3>1, <3>2
  <2>3. \A p \in Places : \A s \in slots'[p] : p \in {Of[s.call], Global}
    BY <1>2, <2>2 DEF SlotInv, SlotsShaped
  <2> QED
    BY <2>1, <2>3
<1>9. ASSUME NEW p \in Places PROVE Cardinality(Lost(p)') <= faults'
  <2>1. IsFiniteSet(Lost(p)')
    <3>1. Lost(p)' \in SUBSET slots'[p]
      BY DEF Lost
    <3> QED
      BY <1>6, <3>1, FS_Subset
  <2>2. \A s \in Lost(p)' : s.call = c \/ s \in Lost(p)
    BY <1>2, <1>4, <1>5 DEF Lost
  <2>3. \A s, t \in Lost(p)' : s.call = t.call => s = t
    BY <1>8 DEF Lost
  <2>4. faults' = faults => Lost(p)' \subseteq Lost(p)
    <3>1. faults' = faults => call'[c].pc = "reserve"
      BY <1>1
    <3>2. faults' = faults => \A s \in Lost(p)' : s.call # c
      BY <3>1 DEF Lost, IsLost
    <3> QED
      BY <2>2, <3>2
  <2>5. faults' = faults \/ faults' = faults + 1
    OBVIOUS
  <2> QED
    BY <1>1, <2>1, <2>2, <2>3, <2>4, <2>5, LostGrows DEF SlotInv
<1>10. Held'
  <2> SUFFICES ASSUME NEW d \in Leasing', NEW p \in {Of[d], Global}
               PROVE  \E s \in slots'[p] : s.call = d /\ s.until >= call'[d].taken + Lease
    BY DEF Held
  <2>1. d \in InFlight' /\ d \in Calls /\ p \in Places /\ now' + MaxSkew < call'[d].taken + Lease
    BY DEF Leasing, InFlight, Places
  <2>2. CASE d = c
    <3>1. call'[c].taken = now
      BY <2>1, <2>2 DEF InFlight
    <3>2. new.until >= call'[c].taken + Lease
      BY <1>1, <1>2, <3>1
    <3> QED
      BY <1>2, <1>3, <2>2, <3>2
  <2>3. CASE d # c
    <3>1. d \in Leasing /\ call'[d].taken = call[d].taken
      BY <2>1, <2>3 DEF Leasing, InFlight
    <3>2. PICK s \in slots[p] : s.call = d /\ s.until >= call[d].taken + Lease
      BY <3>1 DEF SlotInv, Held
    <3>3. s.until \in Nat /\ ~ (s.until <= clock)
      BY <1>1, <2>1, <3>1, <3>2 DEF Slot
    <3>4. s \in slots'[p]
      BY <1>4, <2>1, <3>3
    <3> QED
      BY <3>1, <3>2, <3>4
  <2> QED
    BY <2>2, <2>3
<1> QED
  BY <1>6, <1>7, <1>8, <1>9, <1>10 DEF SlotInv, SlotsShaped

\* What the asking of slots does to them when a place is full.
LEMMA AskedInVain ==
  ASSUME RateTypeOK, NEW c \in Calls, NEW skew \in 0 .. MaxSkew, AskSlots(c, now + skew, FALSE)
  PROVE  \A p \in Places : /\ slots'[p] \subseteq slots[p]
                           /\ \A s \in slots[p] \ slots'[p] : s.until <= now + MaxSkew
<1>1. slots \in [Places -> SUBSET Slot] /\ now \in Nat
  BY DEF RateTypeOK
<1>2. \A p \in Places : slots'[p] = slots[p] \/ slots'[p] = Live(p, now + skew)
  BY DEF AskSlots
<1> QED
  BY <1>1, <1>2 DEF Live, Slot

\* The slots keep their invariant.
LEMMA SlotInvNext == SlotInv /\ [RateNext]_rateVars => SlotInv'
<1> SUFFICES ASSUME SlotInv, [RateNext]_rateVars PROVE SlotInv'
  OBVIOUS
<1>1. RateTypeOK /\ RateTypeOK' /\ now \in Nat /\ slots \in [Places -> SUBSET Slot]
      /\ \A c \in Calls : call[c].taken \in Nat /\ call'[c].taken \in Nat
  BY RateTypeNext DEF SlotInv, RateTypeOK, CallRow
<1>2. \A c \in Calls : \A row : HoldCall(c, row) =>
        call'[c] = row /\ \A d \in Calls : d # c => call'[d] = call[d]
  BY <1>1 DEF RateTypeOK, HoldCall
<1>3. ASSUME NEW c \in Calls, NEW pc, EndCall(c, pc) \/ GoCall(c, pc)
      PROVE  call'[c].pc = pc /\ \A d \in Calls : d # c => call'[d] = call[d]
  <2>1. call'[c].pc = pc
    BY <1>1, <1>3, StepTaken
  <2> QED
    BY <1>2, <1>3, <2>1 DEF EndCall, GoCall
<1>4. ASSUME NEW c \in Calls, ReadPolicy(c) \/ CheckWindows(c)
      PROVE  SlotInv'
  <2>1. /\ UNCHANGED <<now, slots, faults>> /\ call[c].pc \in Before
        /\ \A d \in Calls : d # c => call'[d] = call[d]
    BY <1>2, <1>4 DEF ReadPolicy, CheckWindows, EndCall, Before
  <2>2. call'[c].pc \in {"rate", "slot", "done"}
    BY <1>1, <1>4, StepTaken DEF ReadPolicy, CheckWindows
  <2>3. \A p \in Places : \A s \in slots[p] : s.call # c
    BY <2>1 DEF SlotInv, SlotsShaped
  <2>4. c \notin InFlight'
    BY <2>2 DEF InFlight
  <2> QED
    BY <1>1, <2>1, <2>3, <2>4, SlotsShrink
<1>5. ASSUME NEW c \in Calls, TakeSlots(c) PROVE SlotInv'
  <2>1. PICK skew \in 0 .. MaxSkew, free \in BOOLEAN :
          /\ call[c].pc = "slot" /\ AskSlots(c, now + skew, free)
          /\ IF free THEN GiveSlots(c)
             ELSE EndCall(c, "done")
          /\ UNCHANGED <<now, faults>>
    BY <1>5 DEF TakeSlots
  <2>2. CASE free = TRUE
    <3>1. GiveSlots(c)
      BY <2>1, <2>2
    <3>2. call'[c].pc = "reserve" /\ call'[c].taken = now
      BY <1>1, <3>1, StepTaken
    <3>3. \A d \in Calls : d # c => call'[d] = call[d]
      BY <1>2, <3>1 DEF GiveSlots
    <3>4. AskSlots(c, now + skew, TRUE)
      BY <2>1, <2>2
    <3> QED
      BY <1>1, <2>1, <3>2, <3>3, <3>4, SlotsGiven
  <2>3. CASE free = FALSE
    <3>1. call'[c].pc = "done" /\ \A d \in Calls : d # c => call'[d] = call[d]
      BY <1>3, <2>1, <2>3
    <3>2. \A p \in Places : /\ slots'[p] \subseteq slots[p]
                            /\ \A s \in slots[p] \ slots'[p] : s.until <= now + MaxSkew
      BY <1>1, <2>1, <2>3, AskedInVain
    <3>3. \A p \in Places : \A s \in slots[p] : s.call # c
      BY <2>1 DEF SlotInv, SlotsShaped, Before
    <3>4. c \notin InFlight' /\ call'[c].pc \notin Before
      BY <3>1 DEF InFlight, Before
    <3> QED
      BY <1>1, <2>1, <3>1, <3>2, <3>3, <3>4, SlotsShrink
  <2> QED
    BY <2>2, <2>3
<1>6. ASSUME NEW c \in Calls, RedisFails(c) PROVE SlotInv'
  <2>1. now' = now /\ faults' = faults + 1 /\ call[c].pc \in Before
    BY <1>6 DEF RedisFails, Fault, Before
  <2>2. call'[c].pc = "done" /\ \A d \in Calls : d # c => call'[d] = call[d]
    <3>1. EndCall(c, "done") \/ HoldCall(c, [call[c] EXCEPT !.pc = "done", !.limit = None, !.counted = now])
      BY <1>6 DEF RedisFails
    <3>2. call'[c].pc = "done"
      BY <1>1, <3>1, StepTaken
    <3> QED
      BY <1>2, <1>3, <3>1, <3>2
  <2>3. c \notin InFlight' /\ call'[c].pc \notin Before
    BY <2>2 DEF InFlight, Before
  <2>4. CASE UNCHANGED slots
    BY <1>1, <2>1, <2>2, <2>3, <2>4, SlotsShrink
  <2>5. CASE call[c].pc = "slot" /\ \E skew \in 0 .. MaxSkew, free \in BOOLEAN : AskSlots(c, now + skew, free)
    <3>1. PICK skew \in 0 .. MaxSkew, free \in BOOLEAN : AskSlots(c, now + skew, free)
      BY <2>5
    <3>2. CASE free = TRUE
      BY <1>1, <2>1, <2>2, <2>5, <3>1, <3>2, SlotsGiven
    <3>3. CASE free = FALSE
      <4>1. \A p \in Places : /\ slots'[p] \subseteq slots[p]
                              /\ \A s \in slots[p] \ slots'[p] : s.until <= now + MaxSkew
        BY <1>1, <3>1, <3>3, AskedInVain
      <4> QED
        BY <1>1, <2>1, <2>2, <2>3, <4>1, SlotsShrink
    <3> QED
      BY <3>2, <3>3
  <2> QED
    BY <1>6, <2>4, <2>5 DEF RedisFails
<1>7. ASSUME NEW c \in Calls, Reserved(c) PROVE SlotInv'
  <2>1. UNCHANGED <<now, slots, faults>> /\ call[c].pc = "reserve" /\ c \in InFlight
    BY <1>7 DEF Reserved, InFlight
  <2>3. CASE HoldCall(c, [call[c] EXCEPT !.pc = "upstream", !.until = now + Upstream])
    <3>1. call'[c].pc = "upstream" /\ call'[c].taken = call[c].taken
      BY <1>1, <2>3, StepTaken
    <3>2. \A d \in Calls : d # c => call'[d] = call[d]
      BY <1>2, <2>3
    <3>3. \A p \in Places : ~IsLost(p, call'[c].pc)
      BY <3>1 DEF IsLost
    <3> QED
      BY <1>1, <2>1, <3>1, <3>2, <3>3, SlotsShrink DEF Before
  <2>4. CASE EndCall(c, "freeUser")
    <3>1. call'[c].pc = "freeUser" /\ \A d \in Calls : d # c => call'[d] = call[d]
      BY <1>3, <2>4
    <3>2. c \notin InFlight' /\ call'[c].pc \notin Before /\ \A p \in Places : ~IsLost(p, call'[c].pc)
      BY <3>1 DEF InFlight, Before, IsLost
    <3> QED
      BY <1>1, <2>1, <3>1, <3>2, SlotsShrink
  <2> QED
    BY <1>7, <2>3, <2>4 DEF Reserved
<1>8. ASSUME NEW c \in Calls, Answered(c) PROVE SlotInv'
  <2>1. UNCHANGED <<now, slots, faults>> /\ EndCall(c, "freeUser")
    BY <1>8 DEF Answered
  <2>2. call'[c].pc = "freeUser" /\ \A d \in Calls : d # c => call'[d] = call[d]
    BY <1>3, <2>1
  <2>3. c \notin InFlight' /\ call'[c].pc \notin Before /\ \A p \in Places : ~IsLost(p, call'[c].pc)
    BY <2>2 DEF InFlight, Before, IsLost
  <2> QED
    BY <1>1, <2>1, <2>2, <2>3, SlotsShrink
<1>9. ASSUME NEW c \in Calls, ReleaseSlot(c) PROVE SlotInv'
  <2> DEFINE q == IF call[c].pc = "freeUser" THEN Of[c] ELSE Global
             to == IF call[c].pc = "freeUser" THEN "freeGlobal" ELSE "done"
  <2>1. /\ call[c].pc \in {"freeUser", "freeGlobal"} /\ now' = now /\ GoCall(c, to)
        /\ \/ slots' = [slots EXCEPT ![q] = {s \in @ : s.call # c}] /\ faults' = faults
           \/ faults' = faults + 1 /\ slots' = slots
    BY <1>9 DEF ReleaseSlot, Fault
  <2>2. call'[c].pc = to /\ \A d \in Calls : d # c => call'[d] = call[d]
    BY <1>3, <2>1
  <2>3. c \notin InFlight' /\ call'[c].pc \notin Before
    BY <2>2 DEF InFlight, Before
  <2>4. CASE faults' = faults + 1 /\ slots' = slots
    BY <1>1, <2>1, <2>2, <2>3, <2>4, SlotsShrink
  <2>5. CASE slots' = [slots EXCEPT ![q] = {s \in @ : s.call # c}] /\ faults' = faults
    <3>1. q \in Places /\ q \in {Of[c], Global}
      BY DEF Places
    <3> HIDE DEF q
    <3>2. slots'[q] = {s \in slots[q] : s.call # c} /\ \A p \in Places \ {q} : slots'[p] = slots[p]
      BY <1>1, <2>5, <3>1
    <3>3. \A p \in {Of[c], Global} : p # q => (IsLost(p, to) => IsLost(p, call[c].pc))
      BY <2>1 DEF IsLost, q
    <3>4. \A p \in Places : \A s \in slots'[p] :
            s.call = c /\ IsLost(p, call'[c].pc) => IsLost(p, call[c].pc)
      BY <2>2, <3>2, <3>3 DEF SlotInv, SlotsShaped
    <3>5. \A p \in Places : /\ slots'[p] \subseteq slots[p]
                            /\ \A s \in slots[p] \ slots'[p] : s.call = c
      BY <3>2
    <3> QED
      BY <1>1, <2>1, <2>2, <2>3, <2>5, <3>4, <3>5, SlotsShrink
  <2> QED
    BY <2>1, <2>4, <2>5
<1>10. ASSUME NEW c \in Calls, CallDies(c) PROVE SlotInv'
  <2>1. UNCHANGED <<now, slots>> /\ faults' = faults + 1 /\ EndCall(c, "done")
    BY <1>10 DEF CallDies, Fault
  <2>2. call'[c].pc = "done" /\ \A d \in Calls : d # c => call'[d] = call[d]
    BY <1>3, <2>1
  <2>3. c \notin InFlight' /\ call'[c].pc \notin Before
    BY <2>2 DEF InFlight, Before
  <2> QED
    BY <1>1, <2>1, <2>2, <2>3, SlotsShrink
<1>11. CASE SetPolicy \/ UNCHANGED rateVars
  <2>1. UNCHANGED <<now, slots, call, faults>>
    BY <1>11 DEF SetPolicy, rateVars
  <2> QED
    BY <1>1, <2>1 DEF SlotInv, SlotsShaped, Lost, Leasing, InFlight, Held
<1>12. CASE Tick
  <2>1. UNCHANGED <<slots, call, faults>> /\ now' = now + 1
    BY <1>12 DEF Tick
  <2>2. Leasing' \subseteq Leasing
    BY <1>1, <2>1 DEF Leasing, InFlight
  <2>3. Held'
    BY <2>1, <2>2 DEF SlotInv, Held
  <2>4. SlotsShaped'
    BY <2>1 DEF SlotInv, SlotsShaped, Lost
  <2> QED
    BY <1>1, <2>3, <2>4 DEF SlotInv
<1> QED
  BY <1>4, <1>5, <1>6, <1>7, <1>8, <1>9, <1>10, <1>11, <1>12 DEF RateNext

\* They have it initially.
LEMMA SlotInvInit == RateInit => SlotInv
<1> SUFFICES ASSUME RateInit PROVE SlotInv
  OBVIOUS
<1>1. RateTypeOK
  BY RateTypeInit
<1>2. InFlight = {} /\ faults = 0 /\ \A p \in Places : slots[p] = {} /\ Lost(p) = {}
  BY DEF RateInit, InFlight, Lost
<1>3. IsFiniteSet({}) /\ Cardinality({}) = 0
  BY FS_EmptySet
<1>4. \A p \in Places : IsFiniteSet(slots[p])
  <2> SUFFICES ASSUME NEW p \in Places PROVE IsFiniteSet(slots[p])
    OBVIOUS
  <2>1. slots[p] = {}
    BY <1>2
  <2> QED
    BY <1>3, <2>1
<1>5. \A p \in Places : Cardinality(Lost(p)) <= faults
  <2> SUFFICES ASSUME NEW p \in Places PROVE Cardinality(Lost(p)) <= faults
    OBVIOUS
  <2>1. Lost(p) = {}
    BY <1>2
  <2> QED
    BY <1>2, <1>3, <2>1
<1>7. SlotsShaped
  BY <1>2, <1>4, <1>5 DEF SlotsShaped
<1>6. Held
  BY <1>2 DEF Held, Leasing
<1> QED
  BY <1>1, <1>6, <1>7 DEF SlotInv

\* The inductive invariant of the slots.
THEOREM SlotInvariance == RateSpec => []SlotInv
BY SlotInvInit, SlotInvNext, PTL DEF RateSpec

\* SlotsAccounted: a slot that no running call stands for is lost.
THEOREM SlotsAreAccounted == RateSpec => []SlotsAccounted
<1>1. ASSUME SlotInv PROVE SlotsAccounted
  <2> SUFFICES ASSUME NEW p \in Places
               PROVE  Cardinality({s \in slots[p] :
                        call[s.call].pc \in {"idle", "rate", "slot", "done"}}) <= faults
    BY DEF SlotsAccounted
  <2>1. {s \in slots[p] : call[s.call].pc \in {"idle", "rate", "slot", "done"}} \in SUBSET Lost(p)
    BY <1>1 DEF SlotInv, SlotsShaped, Lost, IsLost, Before
  <2>2. IsFiniteSet(Lost(p)) /\ Cardinality(Lost(p)) <= faults /\ faults \in Nat
    <3>1. IsFiniteSet(slots[p]) /\ Lost(p) \in SUBSET slots[p]
      BY <1>1 DEF SlotInv, SlotsShaped, Lost
    <3> QED
      BY <1>1, <3>1, FS_Subset DEF SlotInv, SlotsShaped, RateTypeOK
  <2> QED
    BY <2>1, <2>2, FS_Subset, FS_CardinalityType
<1> QED
  BY <1>1, SlotInvariance, PTL

-----------------------------------------------------------------------------
\* The limits of the slots.

\* Calls that each have a slot are no more than the slots.
LEMMA CallsHaveSlots ==
  ASSUME NEW S, IsFiniteSet(S), NEW D, \A d \in D : \E s \in S : s.call = d
  PROVE  Cardinality(D) <= Cardinality(S)
<1> DEFINE f == [d \in D |-> CHOOSE s \in S : s.call = d]
<1>1. \A d \in D : f[d] \in S /\ f[d].call = d
  OBVIOUS
<1>2. f \in [D -> S]
  BY <1>1
<1> HIDE DEF f
<1>3. f \in Injection(D, S)
  BY <1>1, <1>2 DEF Injection, IsInjective
<1> QED
  BY <1>3, FS_Injection

\* Where only slots in time are left and one is added, there is room for one more.
LEMMA RoomForOne ==
  ASSUME NEW L, IsFiniteSet(L), NEW s, NEW n \in Nat, Cardinality(L) < n
  PROVE  IsFiniteSet(L \cup {s}) /\ Cardinality(L \cup {s}) <= n
<1>1. Cardinality(L) \in Nat
  BY FS_CardinalityType
<1>2. /\ IsFiniteSet(L \cup {s})
      /\ Cardinality(L \cup {s}) = IF s \in L THEN Cardinality(L) ELSE Cardinality(L) + 1
  BY FS_AddElement
<1> QED
  BY <1>1, <1>2

\* Only the slots it is given take a call on to the reservation.
LEMMA OnlyWithSlots ==
  ASSUME RateTypeOK, [RateNext]_rateVars, NEW c \in Calls,
         call[c].pc = "slot", call'[c].pc = "reserve"
  PROVE  \E skew \in 0 .. MaxSkew : AskSlots(c, now + skew, TRUE)
<1>1. ASSUME NEW d \in Calls, NEW row, HoldCall(d, row) PROVE d = c /\ call'[d] = row
  BY <1>1, RowTaken
<1>2. ASSUME NEW d \in Calls, NEW pc, EndCall(d, pc) \/ GoCall(d, pc) PROVE d = c /\ pc = "reserve"
  <2>1. d = c
    BY <1>1, <1>2 DEF EndCall, GoCall
  <2>2. call'[d].pc = pc
    BY <1>2, StepTaken
  <2> QED
    BY <2>1, <2>2
<1>3. ASSUME NEW d \in Calls, ReadPolicy(d) \/ CheckWindows(d) PROVE FALSE
  BY <1>1, <1>2, <1>3 DEF ReadPolicy, CheckWindows
<1>4. ASSUME NEW d \in Calls, TakeSlots(d)
      PROVE  \E skew \in 0 .. MaxSkew : AskSlots(c, now + skew, TRUE)
  <2>1. PICK skew \in 0 .. MaxSkew, free \in BOOLEAN :
          /\ AskSlots(d, now + skew, free)
          /\ free \/ EndCall(d, "done")
          /\ \E row : HoldCall(d, row)
    BY <1>4 DEF TakeSlots, EndCall, GiveSlots
  <2>2. d = c
    BY <1>1, <2>1
  <2>3. free = TRUE
    BY <1>2, <2>1
  <2> QED
    BY <2>1, <2>2, <2>3
<1>5. ASSUME NEW d \in Calls, RedisFails(d) PROVE FALSE
  <2>1. EndCall(d, "done") \/ HoldCall(d, [call[d] EXCEPT !.pc = "done", !.limit = None, !.counted = now])
    BY <1>5 DEF RedisFails
  <2>2. call'[d].pc = "done" /\ d = c
    BY <1>1, <1>2, <2>1, StepTaken
  <2> QED
    BY <2>2
<1>6. ASSUME NEW d \in Calls, Reserved(d) \/ Answered(d) \/ ReleaseSlot(d) PROVE FALSE
  BY <1>1, <1>2, <1>6 DEF Reserved, Answered, ReleaseSlot
<1>7. ASSUME NEW d \in Calls, CallDies(d) PROVE FALSE
  BY <1>2, <1>7 DEF CallDies
<1>8. CASE SetPolicy \/ Tick \/ UNCHANGED rateVars
  BY <1>8 DEF SetPolicy, Tick, rateVars
<1> QED
  BY <1>3, <1>4, <1>5, <1>6, <1>7, <1>8 DEF RateNext

\* The calls in flight under a lease are within the limits when another gets its slots.
LEMMA RoomWhenGiven ==
  ASSUME SlotInv, SlotInv', [RateNext]_rateVars, NEW c \in Calls,
         call[c].pc = "slot", call'[c].pc = "reserve"
  PROVE  /\ Cardinality({d \in Leasing' : Of[d] = Of[c]}) <= call[c].limit.user
         /\ Cardinality(Leasing') <= call[c].limit.global
<1>1. PICK skew \in 0 .. MaxSkew : AskSlots(c, now + skew, TRUE)
  BY OnlyWithSlots DEF SlotInv
<1> DEFINE clock == now + skew
<1>2. call[c].limit.user \in Nat /\ call[c].limit.global \in Nat
  BY DEF SlotInv, RateTypeOK, Policy
<1>3. /\ Cardinality(Live(Of[c], clock)) < call[c].limit.user
      /\ Cardinality(Live(Global, clock)) < call[c].limit.global
      /\ slots'[Of[c]] = Live(Of[c], clock) \cup {Leased(c, clock)}
      /\ slots'[Global] = Live(Global, clock) \cup {Leased(c, clock)}
  BY <1>1 DEF AskSlots, Places
<1>4. \A p \in Places : IsFiniteSet(Live(p, clock))
  <2> SUFFICES ASSUME NEW p \in Places PROVE IsFiniteSet(Live(p, clock))
    OBVIOUS
  <2>1. IsFiniteSet(slots[p]) /\ Live(p, clock) \in SUBSET slots[p]
    BY DEF SlotInv, SlotsShaped, Live
  <2> QED
    BY <2>1, FS_Subset
<1>5. Of[c] \in Places /\ Global \in Places
  BY DEF Places
<1> HIDE DEF clock
<1>6. /\ IsFiniteSet(slots'[Of[c]]) /\ Cardinality(slots'[Of[c]]) <= call[c].limit.user
      /\ IsFiniteSet(slots'[Global]) /\ Cardinality(slots'[Global]) <= call[c].limit.global
  <2> DEFINE own == Live(Of[c], clock)
             all == Live(Global, clock)
             new == Leased(c, clock)
  <2>1. /\ IsFiniteSet(own) /\ Cardinality(own) < call[c].limit.user
        /\ IsFiniteSet(all) /\ Cardinality(all) < call[c].limit.global
        /\ slots'[Of[c]] = own \cup {new} /\ slots'[Global] = all \cup {new}
    BY <1>3, <1>4, <1>5
  <2> HIDE DEF own, all, new
  <2>2. IsFiniteSet(own \cup {new}) /\ Cardinality(own \cup {new}) <= call[c].limit.user
    BY <1>2, <2>1, RoomForOne
  <2>3. IsFiniteSet(all \cup {new}) /\ Cardinality(all \cup {new}) <= call[c].limit.global
    BY <1>2, <2>1, RoomForOne
  <2> QED
    BY <2>1, <2>2, <2>3
<1>7. \A d \in Leasing' : \A p \in {Of[d], Global} : \E s \in slots'[p] : s.call = d
  BY DEF SlotInv, Held
<1>8. /\ Cardinality({d \in Leasing' : Of[d] = Of[c]}) <= Cardinality(slots'[Of[c]])
      /\ Cardinality(Leasing') <= Cardinality(slots'[Global])
  <2>1. \A d \in {e \in Leasing' : Of[e] = Of[c]} : \E s \in slots'[Of[c]] : s.call = d
    BY <1>7
  <2>2. \A d \in Leasing' : \E s \in slots'[Global] : s.call = d
    BY <1>7
  <2> QED
    BY <1>6, <2>1, <2>2, CallsHaveSlots
<1>9. IsFiniteSet(Leasing') /\ IsFiniteSet({d \in Leasing' : Of[d] = Of[c]})
  <2>1. Leasing' \in SUBSET Calls /\ {d \in Leasing' : Of[d] = Of[c]} \in SUBSET Calls
    BY DEF Leasing, InFlight
  <2> QED
    BY <2>1, FS_Subset
<1> QED
  BY <1>2, <1>6, <1>8, <1>9, FS_CardinalityType

\* LeasesWithinLimit: a slot is not taken from a call before its lease has ended,
\* whatever the limits, the lengths of time and the failures.
THEOREM LeasesBounded == RateSpec => LeasesWithinLimit
<1>1. ASSUME SlotInv, SlotInv', [RateNext]_rateVars
      PROVE  [\A c \in Calls :
                call[c].pc = "slot" /\ call'[c].pc = "reserve" =>
                  /\ Cardinality({d \in Leasing' : Of[d] = Of[c]}) <= call[c].limit.user
                  /\ Cardinality(Leasing') <= call[c].limit.global]_rateVars
  BY <1>1, RoomWhenGiven
<1> QED
  BY <1>1, SlotInvariance, PTL DEF RateSpec, LeasesWithinLimit

-----------------------------------------------------------------------------
\* Windows: what each has counted since it opened, and before.

OpenedAt(k) == window[k].end - Period[k]

\* A call is counted once it has been through the windows, and not later.
Stamps == \A c \in Calls :
  /\ call[c].pc \in {"idle", "rate"} => call[c].counted = None
  /\ call[c].counted # None => call[c].counted <= now

\* The window has never opened, or it opened with a call that it counted, has
\* counted those that passed since, and none after its end.
WindowTrue(k) ==
  \/ window[k].count = 0 /\ window[k].end = 0 /\ \A t, u \in Int : CountedIn(k, t, u) = {}
  \/ /\ OpenedAt(k) \in 0 .. now
     /\ window[k].count = Cardinality(CountedIn(k, OpenedAt(k), now))
     /\ CountedIn(k, OpenedAt(k), OpenedAt(k)) # {}
     /\ \A u \in Int : CountedIn(k, window[k].end, u) = {}

\* Of the calls before it opened, fewer than n are less than a window away.
WindowLimited(k, n) ==
  /\ window[k].count <= n
  /\ \A t \in Int : t + Period[k] > OpenedAt(k) =>
       Cardinality(CountedIn(k, t, OpenedAt(k) - 1)) <= n - 1
  /\ \A t \in Int : Cardinality(CountedIn(k, t, t + Period[k] - 1)) <= 2 * n - 1

Capped(k, n) == n \in Limits[k] /\ \A l \in Limits[k] : l <= n

\* CountedIn, of any state of the calls.
CountedOf(k, rows, t, u) == {c \in Calls : k \in KeysOf[c] /\ rows[c].counted \in t .. u}

WindowInv ==
  /\ RateTypeOK /\ Stamps
  /\ \A k \in Windows : WindowTrue(k) /\ \A n \in Nat : Capped(k, n) => WindowLimited(k, n)

\* The calls of a stretch of time are finitely many, and have an account of it.
LEMMA StretchFinite ==
  ASSUME NEW k, NEW from, NEW to
  PROVE  /\ IsFiniteSet(CountedIn(k, from, to)) /\ Cardinality(CountedIn(k, from, to)) \in Nat
         /\ IsFiniteSet(CountedIn(k, from, to)') /\ Cardinality(CountedIn(k, from, to)') \in Nat
<1>1. CountedIn(k, from, to) \in SUBSET Calls /\ CountedIn(k, from, to)' \in SUBSET Calls
  BY DEF CountedIn
<1> QED
  BY <1>1, FS_Subset, FS_CardinalityType

\* A window that counts no call is as it was.
LEMMA WindowKept ==
  ASSUME RateTypeOK, Stamps, NEW k \in Windows, window'[k] = window[k],
         now' = now \/ now' = now + 1,
         \A c \in Calls : k \in KeysOf[c] => call'[c].counted = call[c].counted
  PROVE  /\ WindowTrue(k) => WindowTrue(k)'
         /\ \A n \in Nat : WindowLimited(k, n) => WindowLimited(k, n)'
<1>1. /\ now \in Nat /\ window[k].end \in Nat /\ Period[k] \in Nat \ {0}
      /\ \A c \in Calls : call[c].counted \in Nat \cup {None}
  BY DEF RateTypeOK, CallRow
<1>2. OpenedAt(k)' = OpenedAt(k) /\ OpenedAt(k) \in Int
  BY <1>1 DEF OpenedAt
<1>3. ASSUME NEW t, NEW u
      PROVE  CountedIn(k, t, u)' = CountedIn(k, t, u)
  BY DEF CountedIn
<1>4. ASSUME NEW t \in Int PROVE CountedIn(k, t, now') = CountedIn(k, t, now)
  <2>1. \A c \in Calls : call[c].counted \in t .. now' <=> call[c].counted \in t .. now
    BY <1>1 DEF Stamps
  <2> QED
    BY <2>1 DEF CountedIn
<1> DEFINE S(t, u) == CountedOf(k, call, t, u)
           T(t, u) == CountedOf(k, call', t, u)
<1>5. \A t, u : T(t, u) = S(t, u) /\ CountedIn(k, t, u) = S(t, u)
  BY DEF CountedIn, CountedOf
<1>6. CountedIn(k, OpenedAt(k), now)' = T(OpenedAt(k)', now')
      /\ CountedIn(k, OpenedAt(k), OpenedAt(k))' = T(OpenedAt(k)', OpenedAt(k)')
      /\ \A u : CountedIn(k, window[k].end, u)' = T(window'[k].end, u)
      /\ \A t : CountedIn(k, t, OpenedAt(k) - 1)' = T(t, OpenedAt(k)' - 1)
  BY DEF CountedIn, CountedOf
<1> HIDE DEF S, T
<1>7. T(OpenedAt(k), now') = S(OpenedAt(k), now)
  BY <1>2, <1>4, <1>5
<1>8. WindowTrue(k) => WindowTrue(k)'
  <2>1. ASSUME window[k].count = 0, window[k].end = 0, \A t, u \in Int : CountedIn(k, t, u) = {}
        PROVE  WindowTrue(k)'
    BY <1>3, <2>1 DEF WindowTrue
  <2>2. ASSUME OpenedAt(k) \in 0 .. now,
               window[k].count = Cardinality(CountedIn(k, OpenedAt(k), now)),
               CountedIn(k, OpenedAt(k), OpenedAt(k)) # {},
               \A u \in Int : CountedIn(k, window[k].end, u) = {}
        PROVE  WindowTrue(k)'
    <3>1. (OpenedAt(k) \in 0 .. now)'
      BY <1>1, <1>2, <2>2
    <3>2. (window[k].count = Cardinality(CountedIn(k, OpenedAt(k), now)))'
      BY <1>2, <1>5, <1>7, <1>6, <2>2
    <3>3. (CountedIn(k, OpenedAt(k), OpenedAt(k)) # {})'
      BY <1>2, <1>5, <1>6, <2>2
    <3>4. (\A u \in Int : CountedIn(k, window[k].end, u) = {})'
      BY <1>5, <1>6, <2>2
    <3> QED
      BY <3>1, <3>2, <3>3, <3>4 DEF WindowTrue
  <2> QED
    BY <2>1, <2>2 DEF WindowTrue
<1>9. ASSUME NEW n \in Nat, WindowLimited(k, n) PROVE WindowLimited(k, n)'
  <2>1. \A t \in Int : t + Period[k] > OpenedAt(k)' =>
          Cardinality(CountedIn(k, t, OpenedAt(k) - 1)') <= n - 1
    BY <1>2, <1>5, <1>6, <1>9 DEF WindowLimited
  <2>2. \A t \in Int : Cardinality(CountedIn(k, t, t + Period[k] - 1)') <= 2 * n - 1
    BY <1>3, <1>9 DEF WindowLimited
  <2> QED
    BY <1>9, <2>1, <2>2 DEF WindowLimited
<1> QED
  BY <1>8, <1>9

\* The calls of a stretch when one more is counted.
LEMMA OneMoreCounted ==
  ASSUME RateTypeOK, Stamps, NEW k \in Windows, NEW c \in Calls, k \in KeysOf[c],
         call[c].counted = None, call'[c].counted = now,
         \A d \in Calls : d # c => call'[d] = call[d],
         NEW t \in Int, NEW u \in Int
  PROVE  /\ c \notin CountedOf(k, call, t, u)
         /\ now \in t .. u => CountedOf(k, call', t, u) = CountedOf(k, call, t, u) \cup {c}
         /\ now \notin t .. u => CountedOf(k, call', t, u) = CountedOf(k, call, t, u)
<1>1. now \in Nat /\ None \notin t .. u
  BY DEF RateTypeOK
<1>2. \A d \in Calls : call'[d].counted \in t .. u <=>
        (call[d].counted \in t .. u \/ (d = c /\ now \in t .. u))
  BY <1>1
<1> QED
  BY <1>1, <1>2 DEF CountedOf

\* A window that has ended opens with the call.
LEMMA WindowOpens ==
  ASSUME RateTypeOK, Stamps, NEW k \in Windows, NEW c \in Calls, k \in KeysOf[c],
         call[c].counted = None, call'[c].counted = now, now' = now,
         \A d \in Calls : d # c => call'[d] = call[d],
         window'[k] = Hit(k), Counted(k) = 0, WindowTrue(k)
  PROVE  /\ WindowTrue(k)'
         /\ \A n \in Nat \ {0} : WindowLimited(k, n) => WindowLimited(k, n)'
<1> DEFINE S(t, u) == CountedOf(k, call, t, u)
           T(t, u) == CountedOf(k, call', t, u)
           o == OpenedAt(k)
           P == Period[k]
<1>1. /\ now \in Nat /\ window[k].end \in Nat /\ P \in Nat \ {0} /\ o \in Int
      /\ o + P = window[k].end /\ window[k].count \in Nat
  BY DEF RateTypeOK, OpenedAt
<1>2. /\ window'[k].count = 1 /\ window'[k].end = now + P /\ OpenedAt(k)' = now
  BY <1>1 DEF Hit, OpenedAt
<1>3. \A t, u : CountedIn(k, t, u) = S(t, u)
  BY DEF CountedIn, CountedOf
<1>4. /\ CountedIn(k, OpenedAt(k), now)' = T(now, now)
      /\ CountedIn(k, OpenedAt(k), OpenedAt(k))' = T(now, now)
      /\ \A u : CountedIn(k, window[k].end, u)' = T(now + P, u)
      /\ \A t : CountedIn(k, t, OpenedAt(k) - 1)' = T(t, now - 1)
      /\ \A t, u : CountedIn(k, t, u)' = T(t, u)
  BY <1>2 DEF CountedIn, CountedOf
<1>5. \A t, u \in Int : /\ now \in t .. u => T(t, u) = S(t, u) \cup {c}
                        /\ now \notin t .. u => T(t, u) = S(t, u)
  BY OneMoreCounted
<1>6. \A t, u : IsFiniteSet(S(t, u)) /\ Cardinality(S(t, u)) \in Nat
  BY <1>3, StretchFinite
\* What is counted has its time.
<1>7. \A t, u, v, w \in Int : /\ v <= t /\ u <= w => S(t, u) \subseteq S(v, w)
                              /\ t <= v /\ v <= u + 1 => S(t, u) \subseteq S(t, v - 1) \cup S(v, u)
                              /\ t > v => S(t, u) \cap S(v, v) = {}
  BY DEF CountedOf
<1> HIDE DEF S, T, o, P
<1>8. (\A t, u \in Int : S(t, u) = {})
      \/ /\ o \in 0 .. now /\ o + P <= now /\ S(o, o) # {}
         /\ window[k].count = Cardinality(S(o, now)) /\ \A u \in Int : S(o + P, u) = {}
  <2>1. CASE window[k].end = 0 /\ \A t, u \in Int : CountedIn(k, t, u) = {}
    BY <1>3, <2>1
  <2>2. CASE /\ o \in 0 .. now /\ S(o, o) # {} /\ window[k].count = Cardinality(S(o, now))
             /\ \A u \in Int : S(o + P, u) = {}
    <3>1. S(o, o) \subseteq S(o, now)
      BY <1>1, <1>7, <2>2
    <3>2. window[k].count # 0
      BY <1>6, <2>2, <3>1, FS_EmptySet
    <3>3. o + P <= now
      BY <1>1, <3>2 DEF Counted
    <3> QED
      BY <2>2, <3>3
  <2> QED
    BY <1>1, <1>3, <2>1, <2>2 DEF WindowTrue, o
<1>9. ASSUME NEW u \in Int PROVE S(now, u) = {} /\ S(now + P, u) = {}
  <2>1. now + P \in Int /\ now \in Int /\ now <= now + P
    BY <1>1
  <2>2. S(now + P, u) \subseteq S(now, u)
    BY <1>1 DEF S, CountedOf
  <2>3. CASE \A t, v \in Int : S(t, v) = {}
    BY <2>1, <2>3
  <2>4. CASE o + P <= now /\ \A v \in Int : S(o + P, v) = {}
    <3>1. S(now, u) \subseteq S(o + P, u)
      BY <1>1, <1>7, <2>1, <2>4
    <3> QED
      BY <2>2, <2>4, <3>1
  <2> QED
    BY <1>8, <2>3, <2>4
<1>10. T(now, now) = {c} /\ \A u \in Int : T(now + P, u) = {}
  BY <1>1, <1>5, <1>9
<1>11. WindowTrue(k)'
  <2>1. Cardinality({c}) = 1
    BY FS_Singleton
  <2>2. (OpenedAt(k) \in 0 .. now)'
    BY <1>1, <1>2
  <2> QED
    BY <1>2, <1>4, <1>10, <2>1, <2>2 DEF WindowTrue
<1>12. ASSUME NEW n \in Nat \ {0}, WindowLimited(k, n) PROVE WindowLimited(k, n)'
  <2>1. ASSUME NEW t \in Int, t + P > now PROVE Cardinality(S(t, now - 1)) <= n - 1
    <3>1. CASE \A v, w \in Int : S(v, w) = {}
      <4>1. S(t, now - 1) = {}
        BY <1>1, <3>1
      <4>2. Cardinality(S(t, now - 1)) = 0
        BY <4>1, FS_EmptySet
      <4> QED
        BY <4>2
    <3>2. CASE /\ o \in 0 .. now /\ o + P <= now /\ S(o, o) # {}
               /\ window[k].count = Cardinality(S(o, now))
      <4>1. PICK x : x \in S(o, o)
        BY <3>2
      <4>2. S(t, now - 1) \in SUBSET (S(o, now) \ {x}) /\ x \in S(o, now)
        <5>1. t > o /\ o \in Int /\ t \in Int
          BY <1>1, <2>1, <3>2
        <5>2. S(t, now - 1) \subseteq S(o, now) /\ S(o, o) \subseteq S(o, now)
              /\ S(t, now - 1) \cap S(o, o) = {}
          BY <1>1, <1>7, <3>2, <5>1
        <5> QED
          BY <4>1, <5>2
      <4>3. /\ IsFiniteSet(S(o, now) \ {x})
            /\ Cardinality(S(o, now) \ {x}) = Cardinality(S(o, now)) - 1
        BY <1>6, <4>2, FS_RemoveElement
      <4>4. Cardinality(S(t, now - 1)) <= Cardinality(S(o, now)) - 1
        BY <4>2, <4>3, FS_Subset
      <4> QED
        BY <1>1, <1>6, <1>12, <3>2, <4>4 DEF WindowLimited
    <3> QED
      BY <1>8, <3>1, <3>2
  <2>2. ASSUME NEW t \in Int, t + P > now PROVE Cardinality(T(t, now - 1)) <= n - 1
    BY <1>1, <1>5, <2>1, <2>2
  <2>3. ASSUME NEW t \in Int PROVE Cardinality(T(t, t + P - 1)) <= 2 * n - 1
    <3>1. CASE now \notin t .. (t + P - 1)
      <4>1. T(t, t + P - 1) = S(t, t + P - 1)
        BY <1>1, <1>5, <3>1
      <4> QED
        BY <1>3, <1>12, <4>1 DEF WindowLimited, P
    <3>2. CASE now \in t .. (t + P - 1)
      <4>1. T(t, t + P - 1) = S(t, t + P - 1) \cup {c}
        BY <1>1, <1>5, <3>2
      <4>2. /\ t + P - 1 \in Int /\ t <= now /\ now <= (t + P - 1) + 1 /\ t + P > now
            /\ now \in Int
        BY <1>1, <3>2
      <4>3. S(t, t + P - 1) \in SUBSET S(t, now - 1)
        <5>1. S(t, t + P - 1) \subseteq S(t, now - 1) \cup S(now, t + P - 1)
          BY <1>7, <4>2
        <5> QED
          BY <1>9, <4>2, <5>1
      <4>4. IsFiniteSet(S(t, now - 1)) /\ Cardinality(S(t, now - 1)) <= n - 1
        BY <1>6, <2>1, <4>2
      <4>5. Cardinality(S(t, t + P - 1)) <= Cardinality(S(t, now - 1))
        BY <4>3, <4>4, FS_Subset
      <4>6. Cardinality(S(t, t + P - 1)) <= n - 1
        BY <1>6, <4>4, <4>5
      <4>7. Cardinality(T(t, t + P - 1)) <= n
        <5> DEFINE A == S(t, t + P - 1)
        <5>1. IsFiniteSet(A) /\ Cardinality(A) < n /\ n \in Nat
          BY <1>6, <4>6
        <5> HIDE DEF A
        <5>2. Cardinality(A \cup {c}) <= n
          BY <5>1, RoomForOne
        <5> QED
          BY <4>1, <5>2 DEF A
      <4>8. Cardinality(T(t, t + P - 1)) \in Nat
        BY <1>4, StretchFinite
      <4> QED
        BY <4>7, <4>8
    <3> QED
      BY <3>1, <3>2
  <2> QED
    BY <1>1, <1>2, <1>4, <1>12, <2>2, <2>3 DEF WindowLimited, P
<1> QED
  BY <1>11, <1>12

\* A window that goes on counts the call.
LEMMA WindowGoesOn ==
  ASSUME RateTypeOK, Stamps, NEW k \in Windows, NEW c \in Calls, k \in KeysOf[c],
         call[c].counted = None, call'[c].counted = now, now' = now,
         \A d \in Calls : d # c => call'[d] = call[d],
         window'[k] = Hit(k), Counted(k) # 0, WindowTrue(k)
  PROVE  /\ WindowTrue(k)'
         /\ \A n \in Nat \ {0} :
              Counted(k) < n /\ WindowLimited(k, n) => WindowLimited(k, n)'
<1> DEFINE S(t, u) == CountedOf(k, call, t, u)
           T(t, u) == CountedOf(k, call', t, u)
           o == OpenedAt(k)
           P == Period[k]
<1>1. /\ now \in Nat /\ window[k].end \in Nat /\ P \in Nat \ {0} /\ o \in Int
      /\ o + P = window[k].end /\ window[k].count \in Nat
      /\ Counted(k) = window[k].count /\ now < o + P
  BY DEF RateTypeOK, OpenedAt, Counted
<1>2. /\ window'[k].count = window[k].count + 1 /\ window'[k].end = o + P
      /\ OpenedAt(k)' = o
  BY <1>1 DEF Hit, OpenedAt
<1>3. \A t, u : CountedIn(k, t, u) = S(t, u)
  BY DEF CountedIn, CountedOf
<1>4. /\ CountedIn(k, OpenedAt(k), now)' = T(o, now)
      /\ CountedIn(k, OpenedAt(k), OpenedAt(k))' = T(o, o)
      /\ \A u : CountedIn(k, window[k].end, u)' = T(o + P, u)
      /\ \A t : CountedIn(k, t, OpenedAt(k) - 1)' = T(t, o - 1)
      /\ \A t, u : CountedIn(k, t, u)' = T(t, u)
  BY <1>2 DEF CountedIn, CountedOf
<1>5. ASSUME NEW t \in Int, NEW u \in Int
      PROVE  /\ c \notin S(t, u)
             /\ now \in t .. u => T(t, u) = S(t, u) \cup {c}
             /\ now \notin t .. u => T(t, u) = S(t, u)
  BY OneMoreCounted
<1>6. \A t, u : /\ IsFiniteSet(S(t, u)) /\ Cardinality(S(t, u)) \in Nat
                /\ IsFiniteSet(T(t, u)) /\ Cardinality(T(t, u)) \in Nat
  BY <1>3, <1>4, StretchFinite
<1>7. /\ o \in 0 .. now /\ S(o, o) # {} /\ window[k].count = Cardinality(S(o, now))
      /\ \A u \in Int : S(o + P, u) = {}
  BY <1>1, <1>3 DEF WindowTrue, Counted
<1>8. Cardinality(T(o, now)) = window[k].count + 1
  <2> HIDE DEF S, T, o, P
  <2> DEFINE A == S(o, now)
             B == T(o, now)
  <2>1. o \in Int /\ now \in Int /\ now \in o .. now
    BY <1>1, <1>7
  <2>2. c \notin A /\ B = A \cup {c}
    BY <1>5, <2>1
  <2>3. IsFiniteSet(A) /\ Cardinality(A) = window[k].count
    BY <1>6, <1>7
  <2> HIDE DEF A, B
  <2>4. Cardinality(B) = Cardinality(A) + 1
    BY <2>2, <2>3, FS_AddElement
  <2> QED
    BY <2>3, <2>4 DEF B
<1>9. WindowTrue(k)'
  <2> HIDE DEF S, T, o, P
  <2>1. T(o, o) # {} /\ \A u \in Int : T(o + P, u) = {}
    <3>1. S(o, o) \subseteq T(o, o)
      BY <1>1, <1>5
    <3>2. \A u \in Int : T(o + P, u) = S(o + P, u)
      BY <1>1, <1>5
    <3> QED
      BY <1>7, <3>1, <3>2
  <2>2. (OpenedAt(k) \in 0 .. now)'
    BY <1>2, <1>7
  <2> QED
    BY <1>2, <1>4, <1>8, <2>1, <2>2 DEF WindowTrue
<1>10. ASSUME NEW n \in Nat \ {0}, Counted(k) < n, WindowLimited(k, n)
       PROVE  WindowLimited(k, n)'
  <2>1. window'[k].count <= n /\ Cardinality(T(o, now)) <= n
    BY <1>1, <1>2, <1>8, <1>10
  <2>2. ASSUME NEW t \in Int, t + P > o PROVE Cardinality(T(t, o - 1)) <= n - 1
    <3>1. T(t, o - 1) = S(t, o - 1)
      BY <1>1, <1>5, <1>7
    <3> QED
      BY <1>3, <1>10, <2>2, <3>1 DEF WindowLimited
  <2>3. ASSUME NEW t \in Int PROVE Cardinality(T(t, t + P - 1)) <= 2 * n - 1
    <3>1. CASE now \notin t .. (t + P - 1)
      <4>1. T(t, t + P - 1) = S(t, t + P - 1)
        BY <1>1, <1>5, <3>1
      <4> QED
        BY <1>3, <1>10, <4>1 DEF WindowLimited
    <3>2. CASE now \in t .. (t + P - 1)
      <4>1. T(t, t + P - 1) \in SUBSET (T(t, o - 1) \cup T(o, now))
        <5>1. \A d \in Calls : call'[d].counted \in t .. (t + P - 1) =>
                call'[d].counted \in t .. (o - 1) \/ call'[d].counted \in o .. now
          <6>1. \A d \in Calls : call'[d].counted \in Nat => call'[d].counted <= now
            BY <1>1 DEF Stamps
          <6> QED
            BY <1>1, <1>7, <6>1
        <5> QED
          BY <5>1 DEF CountedOf
      <4>2. Cardinality(T(t, o - 1)) <= n - 1
        BY <1>1, <1>7, <2>2, <3>2
      <4>3. Cardinality(T(t, t + P - 1)) <= Cardinality(T(t, o - 1)) + Cardinality(T(o, now))
        <5> DEFINE A == T(t, o - 1)
                   B == T(o, now)
        <5>1. IsFiniteSet(A) /\ IsFiniteSet(B) /\ T(t, t + P - 1) \in SUBSET (A \cup B)
              /\ Cardinality(A) \in Nat /\ Cardinality(B) \in Nat
          BY <1>6, <4>1
        <5>2. Cardinality(T(t, t + P - 1)) \in Nat
          BY <1>6
        <5> HIDE DEF A, B, T
        <5>3. /\ IsFiniteSet(A \cup B) /\ IsFiniteSet(A \cap B)
              /\ Cardinality(A \cup B) = Cardinality(A) + Cardinality(B) - Cardinality(A \cap B)
          BY <5>1, FS_Union, FS_Intersection
        <5>4. Cardinality(A \cap B) \in Nat /\ Cardinality(T(t, t + P - 1)) <= Cardinality(A \cup B)
          BY <5>1, <5>3, FS_CardinalityType, FS_Subset
        <5> QED
          BY <5>1, <5>2, <5>3, <5>4 DEF A, B
      <4> QED
        BY <1>6, <2>1, <4>2, <4>3
    <3> QED
      BY <3>1, <3>2
  <2> QED
    BY <1>2, <1>4, <2>1, <2>2, <2>3 DEF WindowLimited
<1> QED
  BY <1>9, <1>10

\* A call is counted in all its windows, each of which had room for it.
LEMMA WindowsCount ==
  ASSUME WindowInv, NEW c \in Calls, call[c].pc = "rate", CountIn(c),
         NEW limit, \A k \in KeysOf[c] : limit[k] \in Limits[k], HasRoom(c, limit),
         call'[c].counted = now, now' = now, \A d \in Calls : d # c => call'[d] = call[d]
  PROVE  \A k \in Windows :
           WindowTrue(k)' /\ \A n \in Nat : Capped(k, n) => WindowLimited(k, n)'
<1> SUFFICES ASSUME NEW k \in Windows
             PROVE  WindowTrue(k)' /\ \A n \in Nat : Capped(k, n) => WindowLimited(k, n)'
  OBVIOUS
<1>1. RateTypeOK /\ Stamps /\ WindowTrue(k) /\ call[c].counted = None
      /\ \A n \in Nat : Capped(k, n) => WindowLimited(k, n)
  BY DEF WindowInv, Stamps
<1>2. CASE k \in KeysOf[c]
  <2>1. window'[k] = Hit(k) /\ Counted(k) < limit[k] /\ limit[k] \in Limits[k]
    BY <1>2 DEF CountIn, HasRoom
  <2>2. ASSUME NEW n \in Nat, Capped(k, n)
        PROVE  n \in Nat \ {0} /\ Counted(k) < n /\ WindowLimited(k, n)
    <3>1. limit[k] \in Nat /\ limit[k] <= n /\ n # 0 /\ Counted(k) \in Nat
      BY <1>1, <2>1, <2>2, HitTyped DEF Capped
    <3> QED
      BY <1>1, <2>1, <2>2, <3>1
  <2>3. CASE Counted(k) = 0
    BY <1>1, <1>2, <2>1, <2>2, <2>3, WindowOpens
  <2>4. CASE Counted(k) # 0
    BY <1>1, <1>2, <2>1, <2>2, <2>4, WindowGoesOn
  <2> QED
    BY <2>3, <2>4
<1>3. CASE k \notin KeysOf[c]
  <2>1. window'[k] = window[k]
    BY <1>3 DEF CountIn
  <2>2. \A d \in Calls : k \in KeysOf[d] => call'[d].counted = call[d].counted
    BY <1>3
  <2> QED
    BY <1>1, <2>1, <2>2, WindowKept
<1> QED
  BY <1>2, <1>3

\* A step that counts no call changes no window.
LEMMA WindowsRest ==
  ASSUME WindowInv, window' = window, now' = now \/ now' = now + 1,
         \A c \in Calls : call'[c].counted = call[c].counted
  PROVE  \A k \in Windows :
           WindowTrue(k)' /\ \A n \in Nat : Capped(k, n) => WindowLimited(k, n)'
BY WindowKept DEF WindowInv


\* The windows keep their invariant.
LEMMA WindowInvNext == WindowInv /\ [RateNext]_rateVars => WindowInv'
<1> SUFFICES ASSUME WindowInv, [RateNext]_rateVars PROVE WindowInv'
  OBVIOUS
<1>1. RateTypeOK /\ RateTypeOK' /\ Stamps /\ now \in Nat
      /\ \A c \in Calls : call[c].counted \in Nat \cup {None}
  BY RateTypeNext DEF WindowInv, RateTypeOK, CallRow
<1>2. None \notin Nat
  OBVIOUS
\* A step that counts no call.
<1>3. ASSUME window' = window, now' = now \/ now' = now + 1,
             \A c \in Calls : /\ call'[c].counted = call[c].counted
                              /\ call'[c].pc \in {"idle", "rate"} => call[c].pc \in {"idle", "rate"}
      PROVE  WindowInv'
  <2>1. Stamps'
    BY <1>1, <1>2, <1>3 DEF Stamps
  <2> QED
    BY <1>1, <1>3, <2>1, WindowsRest DEF WindowInv
<1>4. ASSUME NEW c \in Calls, window' = window, now' = now, \E row : HoldCall(c, row),
             call'[c].counted = call[c].counted,
             call'[c].pc \in {"idle", "rate"} => call[c].pc \in {"idle", "rate"}
      PROVE  WindowInv'
  <2>1. \A d \in Calls : d # c => call'[d] = call[d]
    BY <1>1, <1>4, RowTaken
  <2> QED
    BY <1>3, <1>4, <2>1
\* A step that counts one.
<1>5. ASSUME NEW c \in Calls, call[c].pc = "rate", CountIn(c), now' = now,
             \E limit : (\A k \in KeysOf[c] : limit[k] \in Limits[k]) /\ HasRoom(c, limit),
             \E row : HoldCall(c, row), call'[c].counted = now, call'[c].pc \in {"slot", "done"}
      PROVE  WindowInv'
  <2>1. \A d \in Calls : d # c => call'[d] = call[d]
    BY <1>1, <1>5, RowTaken
  <2>2. Stamps'
    BY <1>1, <1>5, <2>1 DEF Stamps
  <2> QED
    BY <1>1, <1>5, <2>1, <2>2, WindowsCount DEF WindowInv
<1>6. ASSUME NEW c \in Calls, ReadPolicy(c) PROVE WindowInv'
  <2>1. call'[c].counted = call[c].counted
    BY <1>1, <1>6, StepTaken DEF ReadPolicy
  <2> QED
    BY <1>4, <1>6, <2>1 DEF ReadPolicy
<1>7. ASSUME NEW c \in Calls, CheckWindows(c) PROVE WindowInv'
  <2>1. PICK limit \in [KeysOf[c] -> UNION {Limits[k] : k \in KeysOf[c]}] :
          /\ call[c].pc = "rate" /\ \A k \in KeysOf[c] : limit[k] \in Limits[k]
          /\ IF HasRoom(c, limit)
               THEN /\ CountIn(c)
                    /\ HoldCall(c, [call[c] EXCEPT !.pc = "slot", !.counted = now])
               ELSE UNCHANGED window /\ EndCall(c, "done")
          /\ now' = now
    BY <1>7 DEF CheckWindows
  <2>2. CASE HasRoom(c, limit)
    <3>1. call'[c].counted = now /\ call'[c].pc = "slot"
      BY <1>1, <2>1, <2>2, StepTaken
    <3> QED
      BY <1>5, <2>1, <2>2, <3>1
  <2>3. CASE ~HasRoom(c, limit)
    <3>1. call'[c].counted = call[c].counted /\ call'[c].pc = "done"
      BY <1>1, <2>1, <2>3, StepTaken
    <3> QED
      BY <1>4, <2>1, <2>3, <3>1 DEF EndCall
  <2> QED
    BY <2>2, <2>3
<1>8. ASSUME NEW c \in Calls, TakeSlots(c) PROVE WindowInv'
  <2>1. /\ UNCHANGED <<now, window>>
        /\ \/ GiveSlots(c)
           \/ EndCall(c, "done")
    BY <1>8 DEF TakeSlots
  <2>2. call'[c].counted = call[c].counted /\ call'[c].pc \in {"reserve", "done"}
    BY <1>1, <2>1, StepTaken
  <2> QED
    BY <1>4, <2>1, <2>2 DEF EndCall, GiveSlots
<1>9. ASSUME NEW c \in Calls, RedisFails(c) PROVE WindowInv'
  <2>1. now' = now
    BY <1>9 DEF RedisFails
  <2>2. CASE UNCHANGED window /\ EndCall(c, "done")
    <3>1. call'[c].counted = call[c].counted /\ call'[c].pc = "done"
      BY <1>1, <2>2, StepTaken
    <3> QED
      BY <1>4, <2>1, <2>2, <3>1 DEF EndCall
  <2>3. CASE /\ call[c].pc = "rate" /\ CountIn(c)
             /\ \E limit \in [KeysOf[c] -> UNION {Limits[k] : k \in KeysOf[c]}] :
                  (\A k \in KeysOf[c] : limit[k] \in Limits[k]) /\ HasRoom(c, limit)
             /\ HoldCall(c, [call[c] EXCEPT !.pc = "done", !.limit = None, !.counted = now])
    <3>1. call'[c].counted = now /\ call'[c].pc = "done"
      BY <1>1, <2>3, StepTaken
    <3> QED
      BY <1>5, <2>1, <2>3, <3>1
  <2> QED
    BY <1>9, <2>2, <2>3 DEF RedisFails
<1>10. ASSUME NEW c \in Calls, Reserved(c) \/ Answered(c) \/ ReleaseSlot(c) \/ CallDies(c)
       PROVE  WindowInv'
  <2>1. UNCHANGED <<now, window>>
    BY <1>10 DEF Reserved, Answered, ReleaseSlot, CallDies
  <2>2. \/ HoldCall(c, [call[c] EXCEPT !.pc = "upstream", !.until = now + Upstream])
        \/ \E pc \in {"freeUser", "freeGlobal", "done"} : EndCall(c, pc) \/ GoCall(c, pc)
    BY <1>10 DEF Reserved, Answered, ReleaseSlot, CallDies
  <2>3. /\ call'[c].counted = call[c].counted
        /\ call'[c].pc \in {"upstream", "freeUser", "freeGlobal", "done"}
    BY <1>1, <2>2, StepTaken
  <2>4. \E row : HoldCall(c, row)
    BY <2>2 DEF EndCall, GoCall
  <2> QED
    BY <1>4, <2>1, <2>3, <2>4
<1>11. CASE SetPolicy \/ UNCHANGED rateVars \/ Tick
  BY <1>3, <1>11 DEF SetPolicy, Tick, rateVars
<1> QED
  BY <1>6, <1>7, <1>8, <1>9, <1>10, <1>11 DEF RateNext

\* No window has opened initially.
LEMMA WindowInvInit == RateInit => WindowInv
<1> SUFFICES ASSUME RateInit PROVE WindowInv
  OBVIOUS
<1>1. RateTypeOK /\ Stamps
  BY RateTypeInit DEF RateInit, Stamps
<1>2. None \notin Int /\ \A c \in Calls : call[c].counted = None
  BY DEF RateInit
<1>3. \A k, t : \A u \in Int : t \in Int => CountedIn(k, t, u) = {}
  BY <1>2 DEF CountedIn
<1>4. ASSUME NEW k \in Windows PROVE WindowTrue(k)
  BY <1>3 DEF WindowTrue, RateInit
<1>5. ASSUME NEW k \in Windows, NEW n \in Nat, Capped(k, n) PROVE WindowLimited(k, n)
  <2>1. n # 0 /\ Period[k] \in Nat \ {0} /\ window[k].count = 0 /\ OpenedAt(k) \in Int
    BY <1>5 DEF Capped, RateInit, OpenedAt
  <2>2. Cardinality({}) = 0
    BY FS_EmptySet
  <2>3. ASSUME NEW t \in Int, NEW u \in Int PROVE Cardinality(CountedIn(k, t, u)) = 0
    <3>1. CountedIn(k, t, u) = {}
      BY <1>3
    <3> QED
      BY <2>2, <3>1
  <2> QED
    BY <2>1, <2>3 DEF WindowLimited
<1> QED
  BY <1>1, <1>4, <1>5 DEF WindowInv

\* The inductive invariant of the windows.
THEOREM WindowInvariance == RateSpec => []WindowInv
BY WindowInvInit, WindowInvNext, PTL DEF RateSpec

\* WindowsExact: a window counts the calls that passed since it opened.
THEOREM WindowsAreExact == RateSpec => []WindowsExact
<1>1. ASSUME WindowInv PROVE WindowsExact
  <2>1. \A k \in Windows : window[k].end > now => window[k].end # 0
    BY <1>1 DEF WindowInv, RateTypeOK
  <2> QED
    BY <1>1, <2>1 DEF WindowsExact, WindowInv, WindowTrue, OpenedAt
<1> QED
  BY <1>1, WindowInvariance, PTL

\* WindowBound: fewer than twice the limit in any stretch as long as a window.
THEOREM WindowsAreBounded == RateSpec => []WindowBound
<1>1. ASSUME WindowInv PROVE WindowBound
  <2> SUFFICES ASSUME NEW k \in Windows, NEW t \in 0 .. now, NEW n \in Limits[k],
                      \A l \in Limits[k] : l <= n
               PROVE  Cardinality(CountedIn(k, t, t + Period[k] - 1)) <= 2 * n - 1
    BY DEF WindowBound
  <2>1. n \in Nat /\ Capped(k, n) /\ t \in Int
    BY DEF Capped
  <2> QED
    BY <1>1, <2>1 DEF WindowInv, WindowLimited
<1> QED
  BY <1>1, WindowInvariance, PTL
=============================================================================
