----------------------------- MODULE Preferences -----------------------------
(***************************************************************************)
(* Where an account wants its mail, and how it shows that the mailbox is   *)
(* its own: updateNotificationPreferences, sendEmailVerification and       *)
(* verifyEmail (campus/operations_notifications.go).                       *)
(*                                                                         *)
(* The preference is a row of MySQL, the open challenge a key of Redis,    *)
(* the code a mail somebody can read.  A request to send or to check a     *)
(* code takes one of these calls per step; the preference may change in    *)
(* between.                                                                *)
(***************************************************************************)
EXTENDS Integers, FiniteSets

CONSTANTS
  Users, Addresses,
  Own,          \* the addresses whose mail each account can read
  VerifyTabs,   \* requests that send or check a code, each runs once
  None,
  MaxCode,      \* bound: codes that are made up, all different
  MaxFaults     \* bound: failures and lost answers

VARIABLES
  pref,       \* MySQL: platform_notification_preferences
  challenge,  \* Redis: the code each account has to show
  inbox,      \* the codes that arrived, with their address
  codes,      \* codes made up so far
  tab,        \* the requests to send or to check a code
  faults

prefVars == <<pref, challenge, inbox, codes, tab>>

Address == Addresses \cup {None}
PrefRow == [email : Address, verified : Address, enabled : BOOLEAN]
Challenge == [email : Addresses, code : Nat]
TabRow ==
  [pc : {"idle", "store", "mail", "write", "forget", "done"},
   user : Users \cup {None}, seen : Challenge \cup {None}]

ASSUME PreferencesAssumption ==
  /\ Own \in [Users -> SUBSET Addresses]
  /\ None \notin Addresses \cup Users \cup Challenge
  /\ MaxCode \in Nat /\ MaxFaults \in Nat

IdleTab == [pc |-> "idle", user |-> None, seen |-> None]

\* defaultNotificationPreference.
PreferencesInit ==
  /\ pref = [u \in Users |-> [email |-> None, verified |-> None, enabled |-> FALSE]]
  /\ challenge = [u \in Users |-> None]
  /\ inbox = {}
  /\ codes = 0
  /\ tab = [h \in VerifyTabs |-> IdleTab]

Fault == faults < MaxFaults /\ faults' = faults + 1

HoldTab(h, row) == tab' = [tab EXCEPT ![h] = row]
EndTab(h) == HoldTab(h, [IdleTab EXCEPT !.pc = "done"])

-----------------------------------------------------------------------------
\* updateNotificationPreferences.

\* Variant: mail stays on, and the address verified, when the address changes.
UpdatePreference_Keeps(u) ==
  \E email \in Address, enabled \in BOOLEAN :
    /\ enabled => email # None
    /\ pref' = [pref EXCEPT ![u] = [@ EXCEPT !.email = email, !.enabled = enabled]]
    /\ UNCHANGED <<challenge, inbox, codes, tab, faults>>

\* One transaction with the row locked.  Mail is switched on only for the
\* verified address; a new address is not verified and switches it off.
UpdatePreference(u) ==
  \E email \in Address, enabled \in BOOLEAN :
    LET same == pref[u].email = email
    IN  /\ enabled => email # None /\ email = pref[u].verified
        /\ pref' = [pref EXCEPT ![u] = [email |-> email,
                                        verified |-> IF same THEN @.verified ELSE None,
                                        enabled |-> same /\ enabled]]
        /\ UNCHANGED <<challenge, inbox, codes, tab, faults>>

-----------------------------------------------------------------------------
\* sendEmailVerification.

\* The address is read without a lock; a fresh code goes with it.
DrawCode(h) ==
  \E u \in Users :
    /\ tab[h].pc = "idle"
    /\ pref[u].email # None
    /\ codes < MaxCode
    /\ codes' = codes + 1
    /\ HoldTab(h, [pc |-> "store", user |-> u,
                   seen |-> [email |-> pref[u].email, code |-> codes + 1]])
    /\ UNCHANGED <<pref, challenge, inbox, faults>>

\* The challenge replaces an earlier one.
StoreChallenge(h) ==
  /\ tab[h].pc = "store"
  /\ challenge' = [challenge EXCEPT ![tab[h].user] = tab[h].seen]
  /\ HoldTab(h, [tab[h] EXCEPT !.pc = "mail"])
  /\ UNCHANGED <<pref, inbox, codes, faults>>

\* The mail arrives, or it does not.
MailCode(h) ==
  /\ tab[h].pc = "mail"
  /\ \/ inbox' = inbox \cup {tab[h].seen} /\ UNCHANGED faults
     \/ Fault /\ UNCHANGED inbox
  /\ EndTab(h)
  /\ UNCHANGED <<pref, challenge, codes>>

-----------------------------------------------------------------------------
\* verifyEmail.

\* The account shows a code from a mailbox of its own; it must be the one of
\* the open challenge.
CompareCode(h) ==
  \E u \in Users, mail \in inbox :
    /\ tab[h].pc = "idle"
    /\ mail.email \in Own[u]
    /\ challenge[u] # None /\ challenge[u].code = mail.code
    /\ HoldTab(h, [pc |-> "write", user |-> u, seen |-> challenge[u]])
    /\ UNCHANGED <<pref, challenge, inbox, codes, faults>>

\* Variant: the address is not compared with that of the challenge.
WriteVerified_Blind(h) ==
  LET u == tab[h].user
  IN  /\ tab[h].pc = "write"
      /\ pref' = [pref EXCEPT ![u].verified = pref[u].email]
      /\ HoldTab(h, [tab[h] EXCEPT !.pc = "forget"])
      /\ UNCHANGED <<challenge, inbox, codes, faults>>

\* One transaction with the row locked: the address must still be the one the
\* code was sent to.
WriteVerified(h) ==
  LET u == tab[h].user
  IN  /\ tab[h].pc = "write"
      /\ IF pref[u].email = tab[h].seen.email
           THEN /\ pref' = [pref EXCEPT ![u].verified = tab[h].seen.email]
                /\ HoldTab(h, [tab[h] EXCEPT !.pc = "forget"])
           ELSE UNCHANGED pref /\ EndTab(h)
      /\ UNCHANGED <<challenge, inbox, codes, faults>>

\* The key is deleted, whatever challenge it holds now; an error is not seen.
ForgetChallenge(h) ==
  LET u == tab[h].user
  IN  /\ tab[h].pc = "forget"
      /\ \/ challenge' = [challenge EXCEPT ![u] = None] /\ UNCHANGED faults
         \/ Fault /\ UNCHANGED challenge
      /\ EndTab(h)
      /\ UNCHANGED <<pref, inbox, codes>>

\* Redis or MySQL fails, or the replica ends; what failed may have been done.
TabFails(h) ==
  LET t == tab[h]
  IN  /\ t.pc \in {"store", "write"}
      /\ Fault
      /\ \/ UNCHANGED <<pref, challenge>>
         \/ /\ t.pc = "store" /\ UNCHANGED pref
            /\ challenge' = [challenge EXCEPT ![t.user] = t.seen]
         \/ /\ t.pc = "write" /\ pref[t.user].email = t.seen.email /\ UNCHANGED challenge
            /\ pref' = [pref EXCEPT ![t.user].verified = t.seen.email]
      /\ EndTab(h)
      /\ UNCHANGED <<inbox, codes>>

\* A challenge ends after ten minutes.
ChallengeExpires(u) ==
  /\ challenge[u] # None
  /\ challenge' = [challenge EXCEPT ![u] = None]
  /\ UNCHANGED <<pref, inbox, codes, tab, faults>>

PreferencesNext ==
  \/ \E u \in Users : UpdatePreference(u) \/ ChallengeExpires(u)
  \/ \E h \in VerifyTabs :
       \/ DrawCode(h) \/ StoreChallenge(h) \/ MailCode(h)
       \/ CompareCode(h) \/ WriteVerified(h) \/ ForgetChallenge(h) \/ TabFails(h)

-----------------------------------------------------------------------------
\* Properties.

PreferencesTypeOK ==
  /\ pref \in [Users -> PrefRow]
  /\ challenge \in [Users -> Challenge \cup {None}]
  /\ inbox \subseteq Challenge
  /\ codes \in Nat /\ faults \in Nat
  /\ tab \in [VerifyTabs -> TabRow]
  /\ \A h \in VerifyTabs : tab[h].pc \in {"store", "mail", "write", "forget"} =>
       tab[h].user \in Users /\ tab[h].seen \in Challenge

\* An account never verifies a mailbox it cannot read, whatever it changes
\* between the drawing of the code, its mail and its check, and mail is only
\* ever switched on for the verified address.
VerifiedIsOwn ==
  \A u \in Users :
    /\ pref[u].verified # None => pref[u].verified \in Own[u] /\ pref[u].verified = pref[u].email
    /\ pref[u].enabled => pref[u].verified # None
=============================================================================
