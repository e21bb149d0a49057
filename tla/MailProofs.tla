----------------------------- MODULE MailProofs -----------------------------
(***************************************************************************)
(* Verified addresses are the account's own, a mail is taken at most once, *)
(* goes to such an address only, what is settled stays, and a mail is      *)
(* tried MaxTries times at most but for one more with each failure: proofs *)
(* for every number of accounts, addresses, requests, notices, replicas    *)
(* and failures.                                                           *)
(***************************************************************************)
EXTENDS Mail, FiniteSetTheorems, TLAPS

USE PreferencesAssumption, MailAssumption

-----------------------------------------------------------------------------
\* Preferences and codes.

\* The codes that exist anywhere, with the address they were made for.
Known ==
  {k \in Challenge : \/ k \in inbox
                     \/ \E u \in Users : challenge[u] = k
                     \/ \E h \in VerifyTabs : tab[h].seen = k}

\* A code stands for one address.
CodesAgree ==
  /\ \A k \in Known : k.code <= codes
  /\ \A k, l \in Known : k.code = l.code => k.email = l.email

\* Who has shown a code can read the address it was made for.
Proven == \A h \in VerifyTabs :
  tab[h].pc \in {"write", "forget"} => tab[h].seen.email \in Own[tab[h].user]

PrefInv == PreferencesTypeOK /\ VerifiedIsOwn /\ CodesAgree /\ Proven

\* A step that makes no code keeps the codes unambiguous.
LEMMA KnownShrinks == ASSUME CodesAgree, codes' = codes, Known' \subseteq Known PROVE CodesAgree'
  BY DEF CodesAgree

\* A step of one request that keeps its row well typed.
TabOK(row) ==
  /\ row \in TabRow
  /\ row.pc \in {"store", "mail", "write", "forget"} => row.user \in Users /\ row.seen \in Challenge

\* Well typed rows stay so.
LEMMA TabTyped ==
  ASSUME PreferencesTypeOK, NEW h \in VerifyTabs, NEW row, TabOK(row), HoldTab(h, row)
  PROVE  /\ tab' \in [VerifyTabs -> TabRow]
         /\ \A i \in VerifyTabs : tab'[i].pc \in {"store", "mail", "write", "forget"} =>
              tab'[i].user \in Users /\ tab'[i].seen \in Challenge
         /\ tab'[h] = row /\ \A i \in VerifyTabs : i # h => tab'[i] = tab[i]
  BY DEF PreferencesTypeOK, TabOK, HoldTab

\* A request that has ended holds nothing.
LEMMA EndRow ==
  /\ TabOK([IdleTab EXCEPT !.pc = "done"])
  /\ [IdleTab EXCEPT !.pc = "done"].pc = "done" /\ [IdleTab EXCEPT !.pc = "done"].seen = None
  BY DEF IdleTab, TabOK, TabRow

\* The initial state.
LEMMA PrefInitInv == PreferencesInit /\ faults = 0 => PrefInv
<1> SUFFICES ASSUME PreferencesInit, faults = 0 PROVE PrefInv
  OBVIOUS
<1>1. PreferencesTypeOK
  BY DEF PreferencesInit, PreferencesTypeOK, PrefRow, Address, IdleTab, TabRow
<1>2. Known = {}
  BY DEF PreferencesInit, Known, IdleTab
<1> QED
  BY <1>1, <1>2 DEF PrefInv, PreferencesInit, VerifiedIsOwn, CodesAgree, Proven, IdleTab

\* The preference is saved by its owner.
LEMMA UpdateKeeps ==
  ASSUME PrefInv, NEW u \in Users, UpdatePreference(u) PROVE PrefInv'
<1>1. PICK email \in Address, enabled \in BOOLEAN :
        LET same == pref[u].email = email
        IN  /\ enabled => email # None /\ email = pref[u].verified
            /\ pref' = [pref EXCEPT ![u] = [email |-> email,
                                            verified |-> IF same THEN pref[u].verified ELSE None,
                                            enabled |-> same /\ enabled]]
            /\ UNCHANGED <<challenge, inbox, codes, tab, faults>>
  BY DEF UpdatePreference
<1> DEFINE same == pref[u].email = email
           new == [email |-> email, verified |-> IF same THEN pref[u].verified ELSE None,
                   enabled |-> same /\ enabled]
<1>2. pref[u] \in PrefRow /\ pref \in [Users -> PrefRow]
  BY DEF PrefInv, PreferencesTypeOK
<1>3. new \in PrefRow
  BY <1>2 DEF PrefRow, Address
<1>4. /\ new.verified # None => new.verified \in Own[u] /\ new.verified = new.email
      /\ new.enabled => new.verified # None
  BY <1>1, <1>2 DEF PrefInv, VerifiedIsOwn
<1>5. pref' = [pref EXCEPT ![u] = new] /\ UNCHANGED <<challenge, inbox, codes, tab, faults>>
  BY <1>1
<1> HIDE DEF new
<1>6. PreferencesTypeOK'
  BY <1>2, <1>3, <1>5 DEF PrefInv, PreferencesTypeOK
<1>7. VerifiedIsOwn'
  BY <1>2, <1>4, <1>5 DEF PrefInv, VerifiedIsOwn
<1>8. CodesAgree'
  BY <1>5 DEF PrefInv, CodesAgree, Known
<1>9. Proven'
  BY <1>5 DEF PrefInv, Proven
<1> QED
  BY <1>6, <1>7, <1>8, <1>9 DEF PrefInv

\* A fresh code is drawn for the address that is read.
LEMMA DrawKeeps == ASSUME PrefInv, NEW h \in VerifyTabs, DrawCode(h) PROVE PrefInv'
<1>1. PICK u \in Users :
        /\ pref[u].email # None
        /\ codes' = codes + 1
        /\ HoldTab(h, [pc |-> "store", user |-> u,
                       seen |-> [email |-> pref[u].email, code |-> codes + 1]])
        /\ UNCHANGED <<pref, challenge, inbox, faults>>
  BY DEF DrawCode
<1> DEFINE k == [email |-> pref[u].email, code |-> codes + 1]
           row == [pc |-> "store", user |-> u, seen |-> k]
<1>2. PreferencesTypeOK /\ codes \in Nat
  BY DEF PrefInv, PreferencesTypeOK
<1>3. pref[u].email \in Addresses
  BY <1>1, <1>2 DEF PreferencesTypeOK, PrefRow, Address
<1>4. k \in Challenge /\ k.code = codes + 1
  BY <1>2, <1>3 DEF Challenge
<1>5. HoldTab(h, row)
  BY <1>1
<1> HIDE DEF k
<1>6. TabOK(row) /\ row.pc = "store" /\ row.seen = k
  BY <1>4 DEF TabOK, TabRow
<1> HIDE DEF row
<1>7. /\ tab' \in [VerifyTabs -> TabRow]
      /\ \A i \in VerifyTabs : tab'[i].pc \in {"store", "mail", "write", "forget"} =>
           tab'[i].user \in Users /\ tab'[i].seen \in Challenge
      /\ tab'[h] = row /\ \A i \in VerifyTabs : i # h => tab'[i] = tab[i]
  BY <1>2, <1>5, <1>6, TabTyped
<1>8. PreferencesTypeOK'
  BY <1>1, <1>2, <1>7 DEF PreferencesTypeOK
<1>9. VerifiedIsOwn'
  BY <1>1 DEF PrefInv, VerifiedIsOwn
<1>10. Known' \subseteq Known \cup {k}
  BY <1>1, <1>6, <1>7 DEF Known
<1>11. CodesAgree'
  <2>1. \A l \in Known : l.code \in Nat /\ l.code <= codes
    BY DEF PrefInv, CodesAgree, Known, Challenge
  <2>2. \A l \in Known' : l.code <= codes'
    BY <1>1, <1>2, <1>4, <1>10, <2>1
  <2>3. \A l, m \in Known' : l.code = m.code => l.email = m.email
    BY <1>2, <1>4, <1>10, <2>1 DEF PrefInv, CodesAgree
  <2> QED
    BY <2>2, <2>3 DEF CodesAgree
<1>12. Proven'
  BY <1>6, <1>7 DEF PrefInv, Proven
<1> QED
  BY <1>8, <1>9, <1>11, <1>12 DEF PrefInv

\* A code is shown: it is the one of the challenge, so it was made for the
\* same address, which the account reads.
LEMMA CompareKeeps == ASSUME PrefInv, NEW h \in VerifyTabs, CompareCode(h) PROVE PrefInv'
<1>1. PICK u \in Users, mail \in inbox :
        /\ mail.email \in Own[u]
        /\ challenge[u] # None /\ challenge[u].code = mail.code
        /\ HoldTab(h, [pc |-> "write", user |-> u, seen |-> challenge[u]])
        /\ UNCHANGED <<pref, challenge, inbox, codes, faults>>
  BY DEF CompareCode
<1> DEFINE row == [pc |-> "write", user |-> u, seen |-> challenge[u]]
<1>2. PreferencesTypeOK
  BY DEF PrefInv
<1>3. challenge[u] \in Challenge /\ mail \in Challenge
  BY <1>1, <1>2 DEF PreferencesTypeOK
<1>4. challenge[u] \in Known /\ mail \in Known
  BY <1>1, <1>3 DEF Known
<1>5. challenge[u].email \in Own[u]
  BY <1>1, <1>4 DEF PrefInv, CodesAgree
<1>6. TabOK(row) /\ row.pc = "write" /\ row.seen = challenge[u] /\ row.user = u
  BY <1>3 DEF TabOK, TabRow
<1>7. HoldTab(h, row)
  BY <1>1
<1> HIDE DEF row
<1>8. /\ tab' \in [VerifyTabs -> TabRow]
      /\ \A i \in VerifyTabs : tab'[i].pc \in {"store", "mail", "write", "forget"} =>
           tab'[i].user \in Users /\ tab'[i].seen \in Challenge
      /\ tab'[h] = row /\ \A i \in VerifyTabs : i # h => tab'[i] = tab[i]
  BY <1>2, <1>6, <1>7, TabTyped
<1>9. PreferencesTypeOK'
  BY <1>1, <1>2, <1>8 DEF PreferencesTypeOK
<1>10. Known' \subseteq Known
  BY <1>1, <1>4, <1>6, <1>8 DEF Known
<1>11. VerifiedIsOwn' /\ CodesAgree'
  BY <1>1, <1>10, KnownShrinks DEF PrefInv, VerifiedIsOwn
<1>12. Proven'
  BY <1>5, <1>6, <1>8 DEF PrefInv, Proven
<1> QED
  BY <1>9, <1>11, <1>12 DEF PrefInv

\* What the other steps of a request do to the tables: nothing, or the
\* challenge and the verified address become those of the code they hold.
TabStep(h) ==
  LET t == tab[h]
      u == tab[h].user
  IN  /\ \/ pref' = pref
         \/ /\ t.pc = "write" /\ pref[u].email = t.seen.email
            /\ pref' = [pref EXCEPT ![u].verified = t.seen.email]
      /\ \/ challenge' = challenge
         \/ t.pc = "store" /\ challenge' = [challenge EXCEPT ![u] = t.seen]
         \/ t.pc = "forget" /\ challenge' = [challenge EXCEPT ![u] = None]
      /\ inbox' = inbox \/ (t.pc = "mail" /\ inbox' = inbox \cup {t.seen})
      /\ codes' = codes /\ faults' \in Nat
      /\ \/ EndTab(h)
         \/ t.pc = "store" /\ HoldTab(h, [tab[h] EXCEPT !.pc = "mail"])
         \/ t.pc = "write" /\ HoldTab(h, [tab[h] EXCEPT !.pc = "forget"])

\* These are the steps.
LEMMA TabSteps ==
  ASSUME PrefInv, NEW h \in VerifyTabs,
         \/ StoreChallenge(h) \/ MailCode(h) \/ WriteVerified(h) \/ ForgetChallenge(h) \/ TabFails(h)
  PROVE  TabStep(h) /\ tab[h].pc \in {"store", "mail", "write", "forget"}
<1>1. faults \in Nat
  BY DEF PrefInv, PreferencesTypeOK
<1>2. CASE StoreChallenge(h)
  BY <1>1, <1>2 DEF StoreChallenge, TabStep
<1>3. CASE MailCode(h)
  BY <1>1, <1>3 DEF MailCode, Fault, TabStep
<1>4. CASE WriteVerified(h)
  BY <1>1, <1>4 DEF WriteVerified, TabStep
<1>5. CASE ForgetChallenge(h)
  BY <1>1, <1>5 DEF ForgetChallenge, Fault, TabStep
<1>6. CASE TabFails(h)
  BY <1>1, <1>6 DEF TabFails, Fault, TabStep
<1> QED
  BY <1>2, <1>3, <1>4, <1>5, <1>6

\* And they keep the invariant.
LEMMA TabStepKeeps ==
  ASSUME PrefInv, NEW h \in VerifyTabs, TabStep(h), tab[h].pc \in {"store", "mail", "write", "forget"}
  PROVE  PrefInv'
<1> DEFINE k == tab[h].seen
           u == tab[h].user
<1>1. PreferencesTypeOK /\ u \in Users /\ k \in Challenge /\ tab[h] \in TabRow /\ k \in Known
  BY DEF PrefInv, PreferencesTypeOK, Known
<1>2. tab[h].pc \in {"write", "forget"} => k.email \in Own[u]
  BY DEF PrefInv, Proven
<1>3. PICK row : /\ HoldTab(h, row) /\ TabOK(row)
                 /\ row.seen \in {k, None}
                 /\ row.pc \in {"write", "forget"} => row.seen = k /\ row.user = u /\ tab[h].pc = "write"
  <2>1. CASE EndTab(h)
    BY <2>1, EndRow DEF EndTab
  <2>2. CASE tab[h].pc = "store" /\ HoldTab(h, [tab[h] EXCEPT !.pc = "mail"])
    BY <1>1, <2>2 DEF TabOK, TabRow
  <2>3. CASE tab[h].pc = "write" /\ HoldTab(h, [tab[h] EXCEPT !.pc = "forget"])
    BY <1>1, <2>3 DEF TabOK, TabRow
  <2> QED
    BY <2>1, <2>2, <2>3 DEF TabStep
<1>4. /\ pref' = pref \/ ( /\ tab[h].pc = "write" /\ pref[u].email = k.email
                          /\ pref' = [pref EXCEPT ![u].verified = k.email])
      /\ \/ challenge' = challenge \/ challenge' = [challenge EXCEPT ![u] = k]
         \/ challenge' = [challenge EXCEPT ![u] = None]
      /\ inbox' = inbox \/ inbox' = inbox \cup {k}
      /\ codes' = codes /\ faults' \in Nat
  BY DEF TabStep
<1> HIDE DEF k, u
<1>5. /\ tab' \in [VerifyTabs -> TabRow]
      /\ \A i \in VerifyTabs : tab'[i].pc \in {"store", "mail", "write", "forget"} =>
           tab'[i].user \in Users /\ tab'[i].seen \in Challenge
      /\ tab'[h] = row /\ \A i \in VerifyTabs : i # h => tab'[i] = tab[i]
  BY <1>1, <1>3, TabTyped
<1>6. /\ pref' \in [Users -> PrefRow]
      /\ \A v \in Users : pref'[v].email = pref[v].email /\ pref'[v].enabled = pref[v].enabled
      /\ \A v \in Users : \/ pref'[v].verified = pref[v].verified
                          \/ v = u /\ tab[h].pc = "write" /\ pref[u].email = k.email
                             /\ pref'[v].verified = k.email
  <2>1. CASE pref' = pref
    BY <1>1, <2>1 DEF PreferencesTypeOK
  <2>2. CASE tab[h].pc = "write" /\ pref[u].email = k.email /\ pref' = [pref EXCEPT ![u].verified = k.email]
    <3> DEFINE new == [pref[u] EXCEPT !.verified = k.email]
    <3>1. pref[u] \in PrefRow /\ k.email \in Addresses /\ pref \in [Users -> PrefRow]
      BY <1>1 DEF PreferencesTypeOK, Challenge
    <3>2. new \in PrefRow /\ new.email = pref[u].email /\ new.enabled = pref[u].enabled
          /\ new.verified = k.email
      BY <3>1 DEF PrefRow, Address
    <3>3. pref' = [pref EXCEPT ![u] = new]
      BY <2>2
    <3> HIDE DEF new
    <3> QED
      BY <1>1, <2>2, <3>1, <3>2, <3>3
  <2> QED
    BY <1>4, <2>1, <2>2
<1>7. challenge' \in [Users -> Challenge \cup {None}] /\ inbox' \subseteq Challenge
  BY <1>1, <1>4 DEF PreferencesTypeOK
<1>8. PreferencesTypeOK'
  BY <1>1, <1>4, <1>5, <1>6, <1>7 DEF PreferencesTypeOK
<1>9. VerifiedIsOwn'
  <2>1. \A v \in Users : pref[v].enabled => pref'[v].verified # None
    BY <1>1, <1>6 DEF PrefInv, VerifiedIsOwn, Challenge
  <2> QED
    BY <1>2, <1>6, <2>1 DEF PrefInv, VerifiedIsOwn
<1>10. Known' \subseteq Known
  <2>1. \A v \in Users : challenge'[v] \in {challenge[v], k, None}
    BY <1>1, <1>4 DEF PreferencesTypeOK
  <2>2. \A i \in VerifyTabs : tab'[i].seen \in {tab[i].seen, k, None}
    BY <1>3, <1>5
  <2>3. None \notin Challenge
    OBVIOUS
  <2> QED
    BY <1>1, <1>4, <2>1, <2>2, <2>3 DEF Known
<1>11. CodesAgree'
  BY <1>4, <1>10, KnownShrinks DEF PrefInv
<1>12. Proven'
  BY <1>2, <1>3, <1>5 DEF PrefInv, Proven
<1> QED
  BY <1>8, <1>9, <1>11, <1>12 DEF PrefInv

\* A challenge is forgotten in time.
LEMMA ExpireKeeps == ASSUME PrefInv, NEW u \in Users, ChallengeExpires(u) PROVE PrefInv'
<1>1. PreferencesTypeOK'
  BY DEF PrefInv, PreferencesTypeOK, ChallengeExpires
<1>2. Known' \subseteq Known
  BY DEF PrefInv, PreferencesTypeOK, ChallengeExpires, Known
<1>3. CodesAgree'
  BY <1>2, KnownShrinks DEF PrefInv, ChallengeExpires
<1> QED
  BY <1>1, <1>3 DEF PrefInv, ChallengeExpires, VerifiedIsOwn, Proven

\* Every step of the requests keeps the invariant of the preferences.
LEMMA PreferencesKeep == ASSUME PrefInv, PreferencesNext PROVE PrefInv'
<1>1. CASE \E u \in Users : UpdatePreference(u) \/ ChallengeExpires(u)
  BY <1>1, UpdateKeeps, ExpireKeeps
<1>2. CASE \E h \in VerifyTabs : DrawCode(h) \/ CompareCode(h)
  BY <1>2, DrawKeeps, CompareKeeps
<1>3. CASE \E h \in VerifyTabs :
         \/ StoreChallenge(h) \/ MailCode(h) \/ WriteVerified(h) \/ ForgetChallenge(h) \/ TabFails(h)
  BY <1>3, TabSteps, TabStepKeeps
<1> QED
  BY <1>1, <1>2, <1>3 DEF PreferencesNext

\* Nothing else touches it.
LEMMA PreferencesStay == ASSUME PrefInv, UNCHANGED prefVars, faults' \in Nat PROVE PrefInv'
  BY DEF PrefInv, prefVars, PreferencesTypeOK, VerifiedIsOwn, CodesAgree, Known, Proven

-----------------------------------------------------------------------------
\* Claims and mails.

\* A worker has claimed the mail it is at.
Claims(w) == work[w].pc \in {"prefs", "send", "record"}

\* No two workers have claimed the same mail.
OneClaim == \A v, w \in Replicas : Claims(v) /\ Claims(w) /\ work[v].cur = work[w].cur => v = w

\* While it is claimed its row says so, or that its fate is not known.
ClaimedRow == \A w \in Replicas : Claims(w) => notice[work[w].cur].state \in {"sending", "uncertain"}

\* A mail is taken once at most, its row tells, and who claimed it knows.
Taken ==
  \A n \in Notices :
    /\ accepted[n] \in {0, 1}
    /\ notice[n].state = "sent" => accepted[n] = 1
    /\ accepted[n] = 1 =>
         /\ notice[n].state \in {"sending", "uncertain", "sent"}
         /\ \A w \in Replicas : Claims(w) /\ work[w].cur = n =>
              work[w].pc = "record" /\ work[w].result \in {"sent", "uncertain"}

\* Who is about to record a mail as sent has seen it taken.
SentSeen == \A w \in Replicas :
  work[w].pc = "record" /\ work[w].result = "sent" => accepted[work[w].cur] = 1

\* A mail on its way goes to an address of its account.
SendOwn == \A w \in Replicas :
  work[w].pc = "send" => work[w].to.email \in Own[Owner[work[w].cur]]

MailInv ==
  PrefInv /\ MailTypeOK /\ OneClaim /\ ClaimedRow /\ Taken /\ SentSeen /\ SendOwn /\ MailedToOwn

\* What is settled stays, in one step.
Settled == \A n \in Notices : notice[n].state \in Final => notice'[n].state = notice[n].state

Results == {"disabled", "sent", "throttled", "failed", "retry", "uncertain"}

\* A worker's row that is well typed.
WorkOK(row) ==
  /\ row \in WorkRow
  /\ row.pc \in {"insert", "claim", "prefs", "send", "record"} => row.cur \in Notices
  /\ row.pc \in {"insert", "send"} => row.to \in PrefRow
  /\ row.pc = "check" /\ row.cur # None => row.to \in PrefRow
  /\ row.pc = "send" => Wanted(row.to)
  /\ row.pc = "record" => row.result \in Results

\* The rows of a well typed state are.
LEMMA WorkIs == ASSUME MailTypeOK, NEW w \in Replicas PROVE WorkOK(work[w])
  BY DEF MailTypeOK, WorkOK, Results

\* A worker that takes a well typed row leaves the others alone.
LEMMA WorkTyped ==
  ASSUME MailTypeOK, NEW w \in Replicas, NEW row, WorkOK(row), HoldWork(w, row)
  PROVE  /\ work' \in [Replicas -> WorkRow]
         /\ \A v \in Replicas : WorkOK(work'[v])
         /\ work'[w] = row /\ \A v \in Replicas : v # w => work'[v] = work[v]
<1>1. work \in [Replicas -> WorkRow] /\ row \in WorkRow
  BY DEF MailTypeOK, WorkOK
<1>2. work' \in [Replicas -> WorkRow] /\ work'[w] = row /\ \A v \in Replicas : v # w => work'[v] = work[v]
  BY <1>1 DEF HoldWork
<1> QED
  BY <1>2, WorkIs

\* The type invariant of the next state, from its parts.
LEMMA TypedNext ==
  ASSUME PreferencesTypeOK', notice' \in [Notices -> NoticeRow], lease' \in Replicas \cup {None},
         work' \in [Replicas -> WorkRow], \A w \in Replicas : WorkOK(work'[w]),
         accepted' \in [Notices -> Nat], mailed' \subseteq Users \X Addresses
  PROVE  MailTypeOK'
  BY DEF MailTypeOK, WorkOK, Results, Wanted

-----------------------------------------------------------------------------
\* Steps that claim nothing, send nothing and record nothing.

\* What they may do to the table: a new row, a sweep, the passing of time.
QuietNotices ==
  /\ notice' \in [Notices -> NoticeRow]
  /\ \A n \in Notices : \/ notice'[n].state = notice[n].state
                        \/ notice[n].state = "absent" /\ notice'[n].state \in {"queued", "disabled"}
                        \/ notice[n].state = "sending" /\ notice'[n].state = "uncertain"

\* And to the row of a worker: it drops its claim, or keeps it with the same
\* mail and does not hear that it was sent.
QuietRow(row, new) ==
  new.pc \in {"prefs", "send", "record"} =>
    /\ row.pc \in {"prefs", "send", "record"} /\ new.cur = row.cur
    /\ new.pc = "record" => \/ row.pc = "record" /\ new.result = row.result
                            \/ row.pc # "record" /\ new.result # "sent"
    /\ new.pc # "record" => row.pc # "record"
    /\ new.pc = "send" => new.to.email \in Own[Owner[new.cur]]

\* A quiet step keeps the invariant and settles nothing again.
LEMMA QuietKeeps ==
  ASSUME MailInv, PrefInv', lease' \in Replicas \cup {None}, QuietNotices,
         accepted' = accepted, mailed' = mailed,
         work' \in [Replicas -> WorkRow], \A w \in Replicas : WorkOK(work'[w]),
         \A w \in Replicas : QuietRow(work[w], work'[w])
  PROVE  MailInv' /\ Settled
<1>1. MailTypeOK'
  BY TypedNext DEF MailInv, MailTypeOK, PrefInv, QuietNotices
<1>2. /\ \A w \in Replicas : Claims(w)' => Claims(w) /\ work'[w].cur = work[w].cur
      /\ \A w \in Replicas : Claims(w) => work[w].cur \in Notices
      /\ \A n \in Notices : notice[n].state \in {"sending", "uncertain"}
                              => notice'[n].state \in {"sending", "uncertain"}
  BY DEF Claims, QuietRow, QuietNotices, MailInv, MailTypeOK
<1>3. OneClaim'
  BY <1>2 DEF MailInv, OneClaim
<1>4. ClaimedRow'
  BY <1>2 DEF MailInv, ClaimedRow
<1>5. Taken'
  <2> SUFFICES ASSUME NEW n \in Notices
               PROVE  /\ accepted[n] \in {0, 1}
                      /\ notice'[n].state = "sent" => accepted[n] = 1
                      /\ accepted[n] = 1 =>
                           /\ notice'[n].state \in {"sending", "uncertain", "sent"}
                           /\ \A w \in Replicas : Claims(w)' /\ work'[w].cur = n =>
                                work'[w].pc = "record" /\ work'[w].result \in {"sent", "uncertain"}
    BY DEF Taken, MailInv
  <2>1. /\ accepted[n] \in {0, 1} /\ (notice[n].state = "sent" => accepted[n] = 1)
        /\ accepted[n] = 1 => notice[n].state \in {"sending", "uncertain", "sent"}
    BY DEF MailInv, Taken
  <2>2. notice'[n].state = "sent" => notice[n].state = "sent"
    BY DEF QuietNotices
  <2>3. notice[n].state \in {"sending", "uncertain", "sent"}
          => notice'[n].state \in {"sending", "uncertain", "sent"}
    BY DEF QuietNotices
  <2>4. ASSUME accepted[n] = 1, NEW w \in Replicas, Claims(w)', work'[w].cur = n
        PROVE  work'[w].pc = "record" /\ work'[w].result \in {"sent", "uncertain"}
    <3>1. work[w].pc = "record" /\ work[w].result \in {"sent", "uncertain"}
      BY <1>2, <2>4 DEF MailInv, Taken
    <3> QED
      BY <2>4, <3>1 DEF QuietRow, Claims
  <2> QED
    BY <2>1, <2>2, <2>3, <2>4
<1>6. SentSeen'
  BY DEF MailInv, SentSeen, QuietRow
<1>7. SendOwn'
  BY DEF SendOwn, QuietRow
<1>8. MailedToOwn' /\ Settled
  BY DEF MailInv, MailedToOwn, Settled, Final, QuietNotices
<1> QED
  BY <1>1, <1>3, <1>4, <1>5, <1>6, <1>7, <1>8 DEF MailInv

\* The same for a step of one worker.
LEMMA QuietStep ==
  ASSUME MailInv, UNCHANGED prefVars, faults' \in Nat, NEW w \in Replicas, NEW row,
         HoldWork(w, row), WorkOK(row), QuietRow(work[w], row),
         lease' \in Replicas \cup {None}, QuietNotices, accepted' = accepted, mailed' = mailed
  PROVE  MailInv' /\ Settled
<1>1. PrefInv' /\ MailTypeOK
  BY PreferencesStay DEF MailInv
<1>2. /\ work' \in [Replicas -> WorkRow] /\ \A v \in Replicas : WorkOK(work'[v])
      /\ work'[w] = row /\ \A v \in Replicas : v # w => work'[v] = work[v]
  BY <1>1, WorkTyped
<1>3. \A v \in Replicas : QuietRow(work[v], work'[v])
  <2> SUFFICES ASSUME NEW v \in Replicas, v # w PROVE QuietRow(work[v], work[v])
    BY <1>2
  <2> QED
    BY DEF QuietRow, MailInv, SendOwn
<1> QED
  BY <1>1, <1>2, <1>3, QuietKeeps

\* A table that is left alone is quiet, and so is the sweep.
LEMMA QuietTables ==
  ASSUME MailTypeOK
  PROVE  /\ notice' = notice => QuietNotices
         /\ notice' = [n \in Notices |-> Swept(notice[n])] => QuietNotices
<1>1. notice \in [Notices -> NoticeRow]
  BY DEF MailTypeOK
<1>2. \A n \in Notices : /\ Swept(notice[n]) \in NoticeRow
                         /\ \/ Swept(notice[n]).state = notice[n].state
                            \/ notice[n].state = "sending" /\ Swept(notice[n]).state = "uncertain"
  BY <1>1 DEF Swept, NoticeRow, States
<1> QED
  BY <1>1, <1>2 DEF QuietNotices

\* What every case needs.
LEMMA MailFacts ==
  ASSUME MailInv, NEW w \in Replicas
  PROVE  /\ MailTypeOK /\ PreferencesTypeOK /\ faults \in Nat
         /\ lease \in Replicas \cup {None} /\ notice \in [Notices -> NoticeRow]
         /\ WorkOK(work[w]) /\ work[w] \in WorkRow /\ work[w].items \subseteq Notices
         /\ WorkOK(Asleep) /\ Asleep.pc = "idle"
<1>1. MailTypeOK /\ PreferencesTypeOK
  BY DEF MailInv, PrefInv
<1>2. WorkOK(Asleep) /\ Asleep.pc = "idle"
  BY DEF WorkOK, Asleep, WorkRow
<1>3. WorkOK(work[w]) /\ work[w] \in WorkRow /\ work[w].items \subseteq Notices
  BY <1>1, WorkIs DEF WorkOK, WorkRow
<1> QED
  BY <1>1, <1>2, <1>3 DEF MailTypeOK, PreferencesTypeOK

\* The start of a round, and the alerts.
LEMMA TakeLeaseKeeps ==
  ASSUME MailInv, NEW w \in Replicas, TakeLease(w) PROVE MailInv' /\ Settled
<1>1. PICK alerts \in SUBSET Notices : HoldWork(w, [Asleep EXCEPT !.pc = "check", !.items = alerts])
  BY DEF TakeLease
<1> DEFINE row == [Asleep EXCEPT !.pc = "check", !.items = alerts]
<1>2. WorkOK(row) /\ row.pc = "check"
  BY DEF WorkOK, Asleep, WorkRow
<1>3. HoldWork(w, row)
  BY <1>1
<1> HIDE DEF row
<1>4. QuietRow(work[w], row)
  BY <1>2 DEF QuietRow
<1>5. UNCHANGED prefVars /\ faults' \in Nat /\ notice' = notice /\ lease' \in Replicas \cup {None}
      /\ accepted' = accepted /\ mailed' = mailed
  BY MailFacts DEF TakeLease
<1>6. QuietNotices
  BY <1>5, MailFacts, QuietTables
<1> QED
  BY <1>2, <1>3, <1>4, <1>5, <1>6, QuietStep

\* A step that moves a worker to a place where it claims nothing, and touches
\* no table.
LEMMA MoveKeeps ==
  ASSUME MailInv, NEW w \in Replicas, NEW row, HoldWork(w, row), WorkOK(row),
         QuietRow(work[w], row),
         UNCHANGED <<prefVars, notice, accepted, mailed>>, faults' \in Nat,
         lease' \in Replicas \cup {None}
  PROVE  MailInv' /\ Settled
<1>1. QuietNotices
  BY MailFacts, QuietTables
<1> QED
  BY <1>1, QuietStep

\* The next alert.
LEMMA CheckAlertKeeps ==
  ASSUME MailInv, NEW w \in Replicas, CheckAlert(w) PROVE MailInv' /\ Settled
<1>1. WorkOK(work[w]) /\ work[w] \in WorkRow /\ work[w].pc = "check" /\ pref \in [Users -> PrefRow]
  BY MailFacts DEF CheckAlert, PreferencesTypeOK
<1>2. PICK row : HoldWork(w, row) /\ WorkOK(row) /\ row.pc \in {"release", "fetch", "insert"}
  <2>1. CASE GoWork(w, "release")
    BY <1>1, <2>1 DEF GoWork, WorkOK, WorkRow
  <2>2. ASSUME NEW n \in work[w].items, NEW to \in {work[w].to, pref[Owner[n]]},
               work[w].to = to => work[w].cur # None \/ to = pref[Owner[n]],
               HoldWork(w, [work[w] EXCEPT !.pc = "insert", !.cur = n, !.items = @ \ {n}, !.to = to])
        PROVE  \E row : HoldWork(w, row) /\ WorkOK(row) /\ row.pc \in {"release", "fetch", "insert"}
    <3>1. n \in Notices /\ Owner[n] \in Users
      BY <1>1, MailFacts
    <3>2. to \in PrefRow
      BY <1>1, <2>2, <3>1 DEF WorkOK
    <3> DEFINE row == [work[w] EXCEPT !.pc = "insert", !.cur = n, !.items = @ \ {n}, !.to = to]
    <3>3. WorkOK(row) /\ row.pc = "insert"
      BY <1>1, <3>1, <3>2 DEF WorkOK, WorkRow
    <3>4. HoldWork(w, row)
      BY <2>2
    <3> HIDE DEF row
    <3> QED
      BY <3>3, <3>4
  <2>3. CASE HoldWork(w, [work[w] EXCEPT !.pc = "fetch", !.items = {}, !.cur = None, !.to = None])
    <3> DEFINE row == [work[w] EXCEPT !.pc = "fetch", !.items = {}, !.cur = None, !.to = None]
    <3>1. WorkOK(row) /\ row.pc = "fetch"
      BY <1>1 DEF WorkOK, WorkRow
    <3>2. HoldWork(w, row)
      BY <2>3
    <3> HIDE DEF row
    <3> QED
      BY <3>1, <3>2
  <2>4. CASE \E n \in work[w].items : \E to \in {work[w].to, pref[Owner[n]]} :
               /\ work[w].to = to => work[w].cur # None \/ to = pref[Owner[n]]
               /\ HoldWork(w, [work[w] EXCEPT !.pc = "insert", !.cur = n, !.items = @ \ {n}, !.to = to])
    BY <2>2, <2>4
  <2> QED
    BY <2>1, <2>3, <2>4 DEF CheckAlert
<1>3. QuietRow(work[w], row)
  BY <1>2 DEF QuietRow
<1> QED
  BY <1>2, <1>3, MoveKeeps, MailFacts DEF CheckAlert

\* The alert is inserted, unless it is there.
LEMMA InsertNoticeKeeps ==
  ASSUME MailInv, NEW w \in Replicas, InsertNotice(w) PROVE MailInv' /\ Settled
<1> DEFINE n == work[w].cur
           new == [state |-> IF Wanted(work[w].to) THEN "queued" ELSE "disabled",
                   tries |-> 0, age |-> "due"]
           row == [work[w] EXCEPT !.pc = "check"]
<1>1. WorkOK(work[w]) /\ work[w] \in WorkRow /\ work[w].pc = "insert" /\ n \in Notices
      /\ notice \in [Notices -> NoticeRow]
  BY MailFacts DEF InsertNotice, WorkOK
<1>2. new \in NoticeRow /\ new.state \in {"queued", "disabled"}
  <2>1. "due" \in Ages /\ 0 \in Nat
    BY DEF Ages
  <2>2. {"queued", "disabled"} \subseteq States
    BY DEF States, Claimable, Final
  <2> QED
    BY <2>1, <2>2 DEF NoticeRow
<1>3. notice' = notice \/ (notice[n].state = "absent" /\ notice' = [notice EXCEPT ![n] = new])
  BY DEF InsertNotice
<1>4. WorkOK(row) /\ row.pc = "check" /\ HoldWork(w, row)
  BY <1>1 DEF WorkOK, WorkRow, InsertNotice, GoWork
<1> HIDE DEF new, row, n
<1>5. QuietNotices
  BY <1>1, <1>2, <1>3 DEF QuietNotices
<1>6. QuietRow(work[w], row)
  BY <1>4 DEF QuietRow
<1>7. UNCHANGED prefVars /\ faults' \in Nat /\ lease' \in Replicas \cup {None}
      /\ accepted' = accepted /\ mailed' = mailed
  BY MailFacts DEF InsertNotice
<1> QED
  BY <1>4, <1>5, <1>6, <1>7, QuietStep

\* The sweep and the list.
LEMMA FetchKeeps ==
  ASSUME MailInv, NEW w \in Replicas, FetchMails(w) PROVE MailInv' /\ Settled
<1> DEFINE due == {n \in Notices : notice[n].state \in Claimable /\ notice[n].age # "early"}
           row == [work[w] EXCEPT !.pc = "next", !.items = due,
                                  !.tries = [n \in Notices |-> notice[n].tries]]
<1>1. WorkOK(work[w]) /\ work[w] \in WorkRow /\ notice \in [Notices -> NoticeRow] /\ MailTypeOK
  BY MailFacts
<1>2. [n \in Notices |-> notice[n].tries] \in [Notices -> Nat]
  BY <1>1 DEF NoticeRow
<1>3. WorkOK(row) /\ row.pc = "next"
  BY <1>1, <1>2 DEF WorkOK, WorkRow
<1>4. HoldWork(w, row)
  BY DEF FetchMails
<1> HIDE DEF row
<1>5. QuietNotices
  BY <1>1, QuietTables DEF FetchMails
<1>6. QuietRow(work[w], row)
  BY <1>3 DEF QuietRow
<1>7. UNCHANGED prefVars /\ faults' \in Nat /\ lease' \in Replicas \cup {None}
      /\ accepted' = accepted /\ mailed' = mailed
  BY MailFacts DEF FetchMails, Fault
<1> QED
  BY <1>3, <1>4, <1>5, <1>6, <1>7, QuietStep

\* The next mail.
LEMMA NextMailKeeps ==
  ASSUME MailInv, NEW w \in Replicas, NextMail(w) PROVE MailInv' /\ Settled
<1>1. WorkOK(work[w]) /\ work[w] \in WorkRow /\ work[w].items \subseteq Notices
  BY MailFacts
<1>2. PICK row : HoldWork(w, row) /\ WorkOK(row) /\ row.pc \in {"release", "claim"}
  <2>1. CASE GoWork(w, "release")
    BY <1>1, <2>1 DEF GoWork, WorkOK, WorkRow
  <2>2. CASE \E n \in work[w].items :
               HoldWork(w, [work[w] EXCEPT !.pc = "claim", !.cur = n, !.items = @ \ {n}])
    <3>1. PICK n \in work[w].items :
            HoldWork(w, [work[w] EXCEPT !.pc = "claim", !.cur = n, !.items = @ \ {n}])
      BY <2>2
    <3> DEFINE row == [work[w] EXCEPT !.pc = "claim", !.cur = n, !.items = @ \ {n}]
    <3>2. WorkOK(row) /\ row.pc = "claim"
      BY <1>1 DEF WorkOK, WorkRow
    <3>3. HoldWork(w, row)
      BY <3>1
    <3> HIDE DEF row
    <3> QED
      BY <3>2, <3>3
  <2> QED
    BY <2>1, <2>2 DEF NextMail
<1>3. QuietRow(work[w], row)
  BY <1>2 DEF QuietRow
<1> QED
  BY <1>2, <1>3, MoveKeeps, MailFacts DEF NextMail

-----------------------------------------------------------------------------
\* The claim.

\* A mail that waits is claimed, by a worker that goes on with it or, when the
\* answer is lost, with the next one.
LEMMA ClaimedKeeps ==
  ASSUME MailInv, NEW w \in Replicas, work[w].pc = "claim", work[w].cur \in Notices,
         notice[work[w].cur].state \in Claimable,
         notice' = [notice EXCEPT ![work[w].cur] = Claimed(@)],
         NEW row, HoldWork(w, row), WorkOK(row),
         row.pc \in {"prefs", "next"}, row.pc = "prefs" => row.cur = work[w].cur,
         UNCHANGED <<prefVars, lease, accepted, mailed>>, faults' \in Nat
  PROVE  MailInv' /\ Settled
<1> DEFINE n == work[w].cur
<1>1. MailTypeOK /\ PrefInv' /\ n \in Notices /\ notice \in [Notices -> NoticeRow]
  BY MailFacts, PreferencesStay DEF MailInv
<1>2. /\ work' \in [Replicas -> WorkRow] /\ \A v \in Replicas : WorkOK(work'[v])
      /\ work'[w] = row /\ \A v \in Replicas : v # w => work'[v] = work[v]
  BY <1>1, WorkTyped
<1>3. Claimed(notice[n]) \in NoticeRow /\ Claimed(notice[n]).state = "sending"
  <2>1. notice[n].tries + 1 \in Nat /\ "due" \in Ages /\ "sending" \in States
    BY <1>1 DEF NoticeRow, Ages, States
  <2> QED
    BY <2>1 DEF Claimed, NoticeRow
<1>4. /\ notice' \in [Notices -> NoticeRow] /\ notice'[n].state = "sending"
      /\ \A m \in Notices : m # n => notice'[m] = notice[m]
  BY <1>1, <1>3
<1>5. MailTypeOK'
  BY <1>1, <1>2, <1>4, TypedNext DEF MailTypeOK, PrefInv
<1>6. \A v \in Replicas : Claims(v) => v # w /\ work[v].cur # n /\ work[v].cur \in Notices
  BY <1>1 DEF MailInv, ClaimedRow, Claims, Claimable, MailTypeOK
<1>7. accepted[n] = 0 /\ accepted' = accepted
  BY <1>1 DEF MailInv, Taken, Claimable
<1>8. \A v \in Replicas : Claims(v)' => \/ v = w /\ row.pc = "prefs" /\ work'[v].cur = n
                                        \/ v # w /\ Claims(v) /\ work'[v] = work[v]
  BY <1>2 DEF Claims
<1> HIDE DEF n
<1>9. OneClaim'
  BY <1>6, <1>8 DEF MailInv, OneClaim
<1>10. ClaimedRow'
  BY <1>4, <1>6, <1>8 DEF MailInv, ClaimedRow
<1>11. Taken'
  BY <1>4, <1>7, <1>8 DEF MailInv, Taken
<1>12. SentSeen' /\ SendOwn' /\ MailedToOwn'
  BY <1>2, <1>7 DEF MailInv, SentSeen, SendOwn, MailedToOwn
<1>13. Settled
  BY <1>4 DEF n, Settled, Claimable, Final
<1> QED
  BY <1>1, <1>5, <1>9, <1>10, <1>11, <1>12, <1>13 DEF MailInv

\* The claim, or the row that no longer waits.
LEMMA ClaimKeeps == ASSUME MailInv, NEW w \in Replicas, Claim(w) PROVE MailInv' /\ Settled
<1>1. WorkOK(work[w]) /\ work[w] \in WorkRow /\ work[w].pc = "claim" /\ work[w].cur \in Notices
  BY MailFacts DEF Claim, WorkOK
<1>2. CASE notice[work[w].cur].state \in Claimable
  <2> DEFINE row == [work[w] EXCEPT !.pc = "prefs"]
  <2>1. WorkOK(row) /\ row.pc = "prefs" /\ row.cur = work[w].cur /\ HoldWork(w, row)
    BY <1>1, <1>2 DEF WorkOK, WorkRow, Claim, GoWork
  <2> HIDE DEF row
  <2> QED
    BY <1>1, <1>2, <2>1, ClaimedKeeps, MailFacts DEF Claim
<1>3. CASE notice[work[w].cur].state \notin Claimable
  <2> DEFINE row == [work[w] EXCEPT !.pc = "next", !.cur = None]
  <2>1. WorkOK(row) /\ row.pc = "next" /\ HoldWork(w, row)
    BY <1>1, <1>3 DEF WorkOK, WorkRow, Claim
  <2> HIDE DEF row
  <2>2. QuietRow(work[w], row)
    BY <2>1 DEF QuietRow
  <2> QED
    BY <1>3, <2>1, <2>2, MoveKeeps, MailFacts DEF Claim
<1> QED
  BY <1>2, <1>3

\* The preference is read again: a verified address is one of the account.
LEMMA ReadPreferenceKeeps ==
  ASSUME MailInv, NEW w \in Replicas, ReadPreference(w) PROVE MailInv' /\ Settled
<1> DEFINE n == work[w].cur
           p == pref[Owner[n]]
<1>1. WorkOK(work[w]) /\ work[w] \in WorkRow /\ work[w].pc = "prefs" /\ n \in Notices
      /\ pref \in [Users -> PrefRow]
  BY MailFacts DEF ReadPreference, WorkOK, PreferencesTypeOK
<1>2. Owner[n] \in Users /\ p \in PrefRow
  BY <1>1
<1>3. Wanted(p) => p.email \in Own[Owner[n]]
  BY <1>2 DEF Wanted, MailInv, PrefInv, VerifiedIsOwn
<1>4. PICK row : HoldWork(w, row) /\ WorkOK(row) /\ QuietRow(work[w], row)
  <2>1. CASE Wanted(p)
    <3> DEFINE row == [work[w] EXCEPT !.pc = "send", !.to = p]
    <3>1. WorkOK(row) /\ row.pc = "send" /\ row.to = p /\ row.cur = n
      BY <1>1, <1>2, <2>1 DEF WorkOK, WorkRow
    <3>2. HoldWork(w, row)
      BY <2>1 DEF ReadPreference
    <3> HIDE DEF row
    <3> QED
      BY <1>1, <1>3, <2>1, <3>1, <3>2 DEF QuietRow
  <2>2. CASE ~Wanted(p)
    <3> DEFINE row == [work[w] EXCEPT !.pc = "record", !.result = "disabled"]
    <3>1. "disabled" \in Results /\ "disabled" \in States
      BY DEF Results, States, Final
    <3>2. WorkOK(row) /\ row.pc = "record" /\ row.result = "disabled" /\ row.cur = n
      BY <1>1, <3>1 DEF WorkOK, WorkRow
    <3>3. HoldWork(w, row)
      BY <2>2 DEF ReadPreference
    <3> HIDE DEF row
    <3> QED
      BY <1>1, <3>2, <3>3 DEF QuietRow
  <2> QED
    BY <2>1, <2>2
<1> QED
  BY <1>4, MoveKeeps, MailFacts DEF ReadPreference

-----------------------------------------------------------------------------
\* The attempt.

\* The row of a worker that has an outcome.
LEMMA OutcomeRow ==
  ASSUME MailInv, NEW w \in Replicas, work[w].pc \in {"prefs", "send"},
         NEW result \in Results, Outcome(w, result)
  PROVE  \E row : /\ HoldWork(w, row) /\ WorkOK(row) /\ row.pc = "record"
                  /\ row.cur = work[w].cur /\ row.result = result
<1> DEFINE row == [work[w] EXCEPT !.pc = "record", !.to = None, !.result = result]
<1>1. WorkOK(work[w]) /\ work[w] \in WorkRow /\ work[w].cur \in Notices
  BY MailFacts DEF WorkOK
<1>2. result \in States
  BY DEF Results, States, Claimable, Final
<1>3. WorkOK(row) /\ row.pc = "record" /\ row.cur = work[w].cur /\ row.result = result
  BY <1>1, <1>2 DEF WorkOK, WorkRow
<1>4. HoldWork(w, row)
  BY DEF Outcome
<1> HIDE DEF row
<1> QED
  BY <1>3, <1>4

\* An attempt that Sender does not take, or was not asked for.
LEMMA RefusedKeeps ==
  ASSUME MailInv, NEW w \in Replicas, work[w].pc \in {"prefs", "send"},
         NEW result \in Results \ {"sent"}, Outcome(w, result),
         UNCHANGED <<prefVars, notice, lease, accepted, mailed>>, faults' \in Nat
  PROVE  MailInv' /\ Settled
<1>1. PICK row : /\ HoldWork(w, row) /\ WorkOK(row) /\ row.pc = "record"
                 /\ row.cur = work[w].cur /\ row.result = result
  BY OutcomeRow
<1>2. QuietRow(work[w], row)
  BY <1>1 DEF QuietRow
<1> QED
  BY <1>1, <1>2, MoveKeeps, MailFacts

\* Sender takes the mail: nobody else has claimed it, and it was not taken
\* before.
LEMMA AcceptKeeps ==
  ASSUME MailInv, NEW w \in Replicas, work[w].pc = "send", Accept(w),
         NEW result \in {"sent", "uncertain"}, Outcome(w, result),
         UNCHANGED <<prefVars, notice, lease>>, faults' \in Nat
  PROVE  MailInv' /\ Settled
<1> DEFINE n == work[w].cur
<1>1. MailTypeOK /\ PrefInv' /\ n \in Notices /\ notice \in [Notices -> NoticeRow]
      /\ work[w].to \in PrefRow
  BY MailFacts, PreferencesStay DEF MailInv, WorkOK
<1>2. PICK row : /\ HoldWork(w, row) /\ WorkOK(row) /\ row.pc = "record"
                 /\ row.cur = n /\ row.result = result
  BY OutcomeRow DEF Results
<1>3. /\ work' \in [Replicas -> WorkRow] /\ \A v \in Replicas : WorkOK(work'[v])
      /\ work'[w] = row /\ \A v \in Replicas : v # w => work'[v] = work[v]
  BY <1>1, <1>2, WorkTyped
<1>4. Claims(w) /\ accepted[n] = 0 /\ notice[n].state \in {"sending", "uncertain"}
  BY <1>1 DEF Claims, MailInv, Taken, ClaimedRow
<1>5. /\ accepted' \in [Notices -> Nat] /\ accepted'[n] = 1
      /\ \A m \in Notices : m # n => accepted'[m] = accepted[m]
  BY <1>1, <1>4 DEF Accept, MailTypeOK
<1>6. work[w].to.email \in Own[Owner[n]] /\ mailed' = mailed \cup {<<Owner[n], work[w].to.email>>}
  BY DEF MailInv, SendOwn, Accept
<1>7. mailed' \subseteq Users \X Addresses
  BY <1>1, <1>6 DEF MailTypeOK
<1>8. MailTypeOK'
  BY <1>1, <1>3, <1>5, <1>7, TypedNext DEF MailTypeOK, PrefInv
<1>9. /\ \A v \in Replicas : Claims(v)' => Claims(v) /\ work'[v].cur = work[v].cur
      /\ \A v \in Replicas : Claims(v) /\ work[v].cur = n => v = w
  BY <1>2, <1>3, <1>4 DEF Claims, MailInv, OneClaim
<1> HIDE DEF n
<1>10. OneClaim' /\ ClaimedRow'
  BY <1>9 DEF MailInv, OneClaim, ClaimedRow
<1>11. Taken'
  <2>1. \A v \in Replicas : Claims(v)' /\ work'[v].cur = n => v = w
    BY <1>9
  <2>2. \A v \in Replicas : v # w => work'[v] = work[v] /\ (Claims(v)' => Claims(v))
    BY <1>3, <1>9
  <2>3. \A m \in Notices : notice[m].state = "sent" => accepted[m] = 1
    BY DEF MailInv, Taken
  <2> SUFFICES ASSUME NEW m \in Notices
               PROVE  /\ accepted'[m] \in {0, 1}
                      /\ notice[m].state = "sent" => accepted'[m] = 1
                      /\ accepted'[m] = 1 =>
                           /\ notice[m].state \in {"sending", "uncertain", "sent"}
                           /\ \A v \in Replicas : Claims(v)' /\ work'[v].cur = m =>
                                work'[v].pc = "record" /\ work'[v].result \in {"sent", "uncertain"}
    BY DEF Taken
  <2>4. CASE m = n
    BY <1>2, <1>3, <1>4, <1>5, <2>1, <2>4
  <2>5. CASE m # n
    BY <1>2, <1>3, <1>5, <2>2, <2>5 DEF MailInv, Taken
  <2> QED
    BY <2>4, <2>5
<1>12. SentSeen'
  <2> SUFFICES ASSUME NEW v \in Replicas, work'[v].pc = "record", work'[v].result = "sent"
               PROVE  accepted'[work'[v].cur] = 1
    BY DEF SentSeen
  <2>1. CASE v = w
    BY <1>2, <1>3, <1>5, <2>1
  <2>2. CASE v # w
    BY <1>1, <1>3, <1>5, <2>2 DEF MailInv, SentSeen, MailTypeOK
  <2> QED
    BY <2>1, <2>2
<1>13. SendOwn'
  BY <1>2, <1>3 DEF MailInv, SendOwn
<1>14. MailedToOwn'
  BY <1>6 DEF MailInv, MailedToOwn
<1>15. Settled
  BY DEF Settled
<1> QED
  BY <1>1, <1>8, <1>10, <1>11, <1>12, <1>13, <1>14, <1>15 DEF MailInv

\* The attempt is answered.
LEMMA SendKeeps == ASSUME MailInv, NEW w \in Replicas, Send(w) PROVE MailInv' /\ Settled
<1>1. faults' \in Nat /\ work[w].pc = "send"
  BY MailFacts DEF Send
<1>2. CASE Accept(w) /\ Outcome(w, "sent")
  BY <1>1, <1>2, AcceptKeeps DEF Send
<1>3. CASE \E r \in {"throttled", "retry", "failed"} : Outcome(w, r) /\ UNCHANGED <<accepted, mailed>>
  BY <1>1, <1>3, RefusedKeeps DEF Send, Results
<1> QED
  BY <1>2, <1>3 DEF Send

\* It is not.
LEMMA SendUncertainKeeps ==
  ASSUME MailInv, NEW w \in Replicas, SendUncertain(w) PROVE MailInv' /\ Settled
<1>1. faults' \in Nat /\ work[w].pc = "send" /\ Outcome(w, "uncertain")
  BY MailFacts DEF SendUncertain, Fault
<1>2. CASE Accept(w)
  BY <1>1, <1>2, AcceptKeeps DEF SendUncertain
<1>3. CASE UNCHANGED <<accepted, mailed>>
  BY <1>1, <1>3, RefusedKeeps DEF SendUncertain, Results
<1> QED
  BY <1>2, <1>3 DEF SendUncertain

\* It was not made.
LEMMA SendFailsKeeps ==
  ASSUME MailInv, NEW w \in Replicas, SendFails(w) PROVE MailInv' /\ Settled
<1>1. faults' \in Nat
  BY MailFacts DEF SendFails, Fault
<1> QED
  BY <1>1, RefusedKeeps DEF SendFails, Results

-----------------------------------------------------------------------------
\* The outcome.

\* The outcome is written over a row that is still claimed.
LEMMA RecordKeeps == ASSUME MailInv, NEW w \in Replicas, Record(w) PROVE MailInv' /\ Settled
<1> DEFINE n == work[w].cur
           row == [work[w] EXCEPT !.pc = "next", !.cur = None, !.result = None]
           new == [notice[n] EXCEPT !.state = Recorded(w), !.age = "early"]
<1>1. /\ MailTypeOK /\ PrefInv' /\ n \in Notices /\ notice \in [Notices -> NoticeRow]
      /\ work[w].pc = "record" /\ WorkOK(work[w]) /\ work[w] \in WorkRow
  BY MailFacts, PreferencesStay DEF MailInv, PrefInv, WorkOK, Record
<1>2. work[w].result \in Results
  BY <1>1 DEF WorkOK
<1>3. Recorded(w) \in Results /\ Recorded(w) \in {work[w].result, "failed"}
      /\ (Recorded(w) # work[w].result => work[w].result = "retry")
  BY <1>2 DEF Recorded, Results
<1>4. new \in NoticeRow /\ new.state = Recorded(w)
  <2>1. Recorded(w) \in States /\ "early" \in Ages /\ notice[n] \in NoticeRow
    BY <1>1, <1>3 DEF Results, States, Claimable, Final, Ages
  <2> QED
    BY <2>1 DEF NoticeRow
<1>5. WorkOK(row) /\ row.pc = "next" /\ HoldWork(w, row)
  BY <1>1 DEF WorkOK, WorkRow, Record
<1>6. notice' = [notice EXCEPT ![n] = new]
  BY DEF Record
<1> HIDE DEF new, row
<1>7. /\ work' \in [Replicas -> WorkRow] /\ \A v \in Replicas : WorkOK(work'[v])
      /\ work'[w] = row /\ \A v \in Replicas : v # w => work'[v] = work[v]
  BY <1>1, <1>5, WorkTyped
<1>8. /\ notice' \in [Notices -> NoticeRow] /\ notice'[n].state = Recorded(w)
      /\ \A m \in Notices : m # n => notice'[m] = notice[m]
  BY <1>1, <1>4, <1>6
<1>9. UNCHANGED <<lease, accepted, mailed>>
  BY DEF Record
<1>10. MailTypeOK'
  BY <1>1, <1>7, <1>8, <1>9, TypedNext DEF MailTypeOK, PrefInv
<1>11. \A v \in Replicas : Claims(v)' =>
          v # w /\ Claims(v) /\ work'[v] = work[v] /\ work[v].cur # n /\ work[v].cur \in Notices
  BY <1>1, <1>5, <1>7 DEF Claims, MailInv, OneClaim, MailTypeOK
<1>12. notice[n].state \in {"sending", "uncertain"}
  BY <1>1 DEF MailInv, ClaimedRow, Claims
<1>13. /\ accepted[n] \in {0, 1}
       /\ accepted[n] = 1 => Recorded(w) \in {"sent", "uncertain"}
       /\ Recorded(w) = "sent" => accepted[n] = 1
  BY <1>1, <1>3 DEF MailInv, Taken, SentSeen, Claims
<1> HIDE DEF n
<1>14. OneClaim' /\ ClaimedRow'
  BY <1>8, <1>11 DEF MailInv, OneClaim, ClaimedRow
<1>15. Taken'
  <2> SUFFICES ASSUME NEW m \in Notices
               PROVE  /\ accepted[m] \in {0, 1}
                      /\ notice'[m].state = "sent" => accepted[m] = 1
                      /\ accepted[m] = 1 =>
                           /\ notice'[m].state \in {"sending", "uncertain", "sent"}
                           /\ \A v \in Replicas : Claims(v)' /\ work'[v].cur = m =>
                                work'[v].pc = "record" /\ work'[v].result \in {"sent", "uncertain"}
    BY <1>9 DEF Taken
  <2>1. CASE m = n
    BY <1>8, <1>11, <1>13, <2>1
  <2>2. CASE m # n
    BY <1>8, <1>11, <2>2 DEF MailInv, Taken
  <2> QED
    BY <2>1, <2>2
<1>16. SentSeen'
  BY <1>5, <1>7, <1>9 DEF MailInv, SentSeen
<1>17. SendOwn'
  BY <1>5, <1>7 DEF MailInv, SendOwn
<1>18. MailedToOwn' /\ Settled
  BY <1>8, <1>9, <1>12 DEF MailInv, MailedToOwn, Settled, Final
<1> QED
  BY <1>1, <1>10, <1>14, <1>15, <1>16, <1>17, <1>18 DEF MailInv

\* A write fails: as if it had not been made, or as the claim.
LEMMA WriteFailsKeeps ==
  ASSUME MailInv, NEW w \in Replicas, WriteFails(w) PROVE MailInv' /\ Settled
<1> DEFINE row == [work[w] EXCEPT !.pc = "next", !.cur = None, !.result = None]
<1>1. /\ WorkOK(work[w]) /\ work[w] \in WorkRow /\ work[w].cur \in Notices
      /\ faults' \in Nat /\ lease' \in Replicas \cup {None}
  BY MailFacts DEF WriteFails, WorkOK, Fault
<1>2. WorkOK(row) /\ row.pc = "next"
  BY <1>1 DEF WorkOK, WorkRow
<1>3. HoldWork(w, row)
  BY DEF WriteFails
<1> HIDE DEF row
<1>4. QuietRow(work[w], row)
  BY <1>2 DEF QuietRow
<1>5. CASE UNCHANGED notice
  BY <1>1, <1>2, <1>3, <1>4, <1>5, MoveKeeps DEF WriteFails
<1>6. CASE /\ work[w].pc = "claim" /\ notice[work[w].cur].state \in Claimable
           /\ notice' = [notice EXCEPT ![work[w].cur] = Claimed(@)]
  BY <1>1, <1>2, <1>3, <1>6, ClaimedKeeps DEF WriteFails
<1> QED
  BY <1>5, <1>6 DEF WriteFails

-----------------------------------------------------------------------------
\* The ends.

\* The steps after which a worker claims nothing, or what it claimed before.
EndStep(w) == ListFails(w) \/ Release(w) \/ WorkEnds(w) \/ ReplicaEnds(w)

\* They keep the invariant.
LEMMA EndsKeep == ASSUME MailInv, NEW w \in Replicas, EndStep(w) PROVE MailInv' /\ Settled
<1>1. /\ WorkOK(work[w]) /\ work[w] \in WorkRow /\ WorkOK(Asleep) /\ Asleep.pc = "idle"
      /\ faults' \in Nat /\ lease' \in Replicas \cup {None}
      /\ UNCHANGED <<prefVars, notice, accepted, mailed>>
  BY MailFacts DEF EndStep, ListFails, Release, WorkEnds, ReplicaEnds, Fault
<1>2. PICK row : HoldWork(w, row) /\ WorkOK(row) /\ QuietRow(work[w], row)
  <2>1. CASE ListFails(w)
    <3> DEFINE pc == IF work[w].pc = "insert" THEN "check" ELSE "release"
               rest == {n \in work[w].items : Owner[n] # Owner[work[w].cur]}
               row == [work[w] EXCEPT !.pc = pc, !.items = rest, !.cur = None, !.to = None]
    <3>1. pc \in {"check", "release"} /\ rest \subseteq work[w].items
      OBVIOUS
    <3>2. HoldWork(w, row)
      BY <2>1 DEF ListFails
    <3> HIDE DEF pc, rest
    <3>3. WorkOK(row) /\ row.pc \in {"check", "release"}
      BY <1>1, <3>1 DEF WorkOK, WorkRow
    <3> HIDE DEF row
    <3> QED
      BY <3>2, <3>3 DEF QuietRow
  <2>2. CASE Release(w) \/ ReplicaEnds(w)
    BY <1>1, <2>2 DEF Release, ReplicaEnds, QuietRow
  <2>3. CASE WorkEnds(w)
    <3> DEFINE row == [work[w] EXCEPT !.late = TRUE]
    <3>1. HoldWork(w, row)
      BY <2>3 DEF WorkEnds
    <3>2. /\ WorkOK(row) /\ row.pc = work[w].pc /\ row.cur = work[w].cur
          /\ row.to = work[w].to /\ row.result = work[w].result
      BY <1>1 DEF WorkOK, WorkRow
    <3> HIDE DEF row
    <3>3. QuietRow(work[w], row)
      BY <3>2 DEF QuietRow, MailInv, SendOwn
    <3> QED
      BY <3>1, <3>2, <3>3
  <2> QED
    BY <2>1, <2>2, <2>3 DEF EndStep
<1> QED
  BY <1>1, <1>2, MoveKeeps

\* Steps that no worker takes.
LEMMA IdleStep ==
  ASSUME MailInv, PrefInv', lease' \in Replicas \cup {None}, QuietNotices,
         UNCHANGED <<work, accepted, mailed>>
  PROVE  MailInv' /\ Settled
<1>1. /\ work \in [Replicas -> WorkRow] /\ \A w \in Replicas : WorkOK(work[w])
  BY WorkIs DEF MailInv, MailTypeOK
<1>2. \A w \in Replicas : QuietRow(work[w], work[w])
  BY DEF QuietRow, MailInv, SendOwn
<1> QED
  BY <1>1, <1>2, QuietKeeps

\* The lease ends.
LEMMA LeaseEndsKeeps == ASSUME MailInv, LeaseEnds PROVE MailInv' /\ Settled
<1>1. PrefInv' /\ QuietNotices /\ lease' \in Replicas \cup {None}
  BY PreferencesStay, QuietTables DEF MailInv, PrefInv, PreferencesTypeOK, LeaseEnds
<1> QED
  BY <1>1, IdleStep DEF LeaseEnds

\* A row comes due or gets old.
LEMMA AgeKeeps == ASSUME MailInv, NEW n \in Notices, Age(n) PROVE MailInv' /\ Settled
<1> DEFINE age == IF notice[n].age = "early" THEN "due" ELSE "stale"
           new == [notice[n] EXCEPT !.age = age]
<1>1. MailTypeOK /\ notice \in [Notices -> NoticeRow]
  BY DEF MailInv, MailTypeOK
<1>2. age \in Ages
  BY DEF Ages
<1>3. notice' = [notice EXCEPT ![n] = new]
  BY DEF Age
<1> HIDE DEF age
<1>4. new \in NoticeRow /\ new.state = notice[n].state
  BY <1>1, <1>2 DEF NoticeRow
<1> HIDE DEF new
<1>5. QuietNotices
  BY <1>1, <1>3, <1>4 DEF QuietNotices
<1>6. PrefInv' /\ lease' \in Replicas \cup {None}
  BY <1>1, PreferencesStay DEF MailInv, MailTypeOK, PrefInv, PreferencesTypeOK, Age
<1> QED
  BY <1>5, <1>6, IdleStep DEF Age

-----------------------------------------------------------------------------
\* The invariant.

\* It holds initially.
LEMMA MailInitInv == MailInit => MailInv
<1> SUFFICES ASSUME MailInit PROVE MailInv
  OBVIOUS
<1>1. PrefInv
  BY PrefInitInv DEF MailInit
<1>2. WorkOK(Asleep) /\ Asleep.pc = "idle" /\ Asleep \in WorkRow
  BY DEF WorkOK, Asleep, WorkRow
<1>3. [state |-> "absent", tries |-> 0, age |-> "early"] \in NoticeRow
  <2>1. "absent" \in States /\ "early" \in Ages
    BY DEF States, Ages
  <2> QED
    BY <2>1 DEF NoticeRow
<1>4. notice \in [Notices -> NoticeRow] /\ \A n \in Notices : notice[n].state = "absent"
  BY <1>3 DEF MailInit
<1>5. \A w \in Replicas : work[w] = Asleep /\ work[w].pc = "idle"
  BY <1>2 DEF MailInit
<1>6. MailTypeOK
  BY <1>1, <1>2, <1>4, <1>5 DEF MailInit, MailTypeOK, PrefInv
<1>7. \A w \in Replicas : ~Claims(w)
  BY <1>5 DEF Claims
<1>8. Taken
  BY <1>4 DEF MailInit, Taken
<1> QED
  BY <1>1, <1>5, <1>6, <1>7, <1>8
     DEF MailInv, MailInit, OneClaim, ClaimedRow, SentSeen, SendOwn, MailedToOwn

\* Every step keeps it, and what is settled.
LEMMA MailNextInv == MailInv /\ [MailNext]_allVars => MailInv' /\ Settled
<1> SUFFICES ASSUME MailInv, [MailNext]_allVars PROVE MailInv' /\ Settled
  OBVIOUS
<1>1. CASE PreferencesNext /\ UNCHANGED mailVars
  <2>1. PrefInv'
    BY <1>1, PreferencesKeep DEF MailInv
  <2>2. QuietNotices /\ lease' \in Replicas \cup {None}
    BY <1>1, QuietTables DEF MailInv, MailTypeOK, mailVars
  <2> QED
    BY <1>1, <2>1, <2>2, IdleStep DEF mailVars
<1>2. ASSUME NEW w \in Replicas, WorkStep(w) PROVE MailInv' /\ Settled
  BY <1>2, TakeLeaseKeeps, CheckAlertKeeps, InsertNoticeKeeps, FetchKeeps, NextMailKeeps,
     ClaimKeeps, ReadPreferenceKeeps, SendKeeps, SendUncertainKeeps, SendFailsKeeps,
     RecordKeeps, EndsKeep DEF WorkStep, EndStep
<1>3. ASSUME NEW w \in Replicas, WriteFails(w) \/ ListFails(w) \/ WorkEnds(w) \/ ReplicaEnds(w)
      PROVE  MailInv' /\ Settled
  BY <1>3, WriteFailsKeeps, EndsKeep DEF EndStep
<1>4. CASE LeaseEnds
  BY <1>4, LeaseEndsKeeps
<1>5. CASE \E n \in Notices : Age(n)
  BY <1>5, AgeKeeps
<1>6. CASE UNCHANGED allVars
  <2>1. PrefInv' /\ QuietNotices /\ lease' \in Replicas \cup {None}
    BY <1>6, PreferencesStay, QuietTables
       DEF MailInv, MailTypeOK, PrefInv, PreferencesTypeOK, allVars, prefVars
  <2> QED
    BY <1>6, <2>1, IdleStep DEF allVars
<1> QED
  BY <1>1, <1>2, <1>3, <1>4, <1>5, <1>6 DEF MailNext

\* The inductive invariant of accounts, codes, workers and mails.
THEOREM MailInvariance == MailSpec => []MailInv
BY MailInitInv, MailNextInv, PTL DEF MailSpec

\* Every variable keeps its type.
THEOREM MailTyped == MailSpec => []MailTypeOK
<1>1. MailInv => MailTypeOK
  BY DEF MailInv
<1> QED
  BY <1>1, MailInvariance, PTL

\* No account verifies a mailbox it cannot read (verifyEmail).
THEOREM Verified == MailSpec => []VerifiedIsOwn
<1>1. MailInv => VerifiedIsOwn
  BY DEF MailInv, PrefInv
<1> QED
  BY <1>1, MailInvariance, PTL

\* No mail is taken twice (deliverNotifications).
THEOREM MailedOnce == MailSpec => []AtMostOnce
<1>1. MailInv => AtMostOnce
  BY DEF MailInv, Taken, AtMostOnce
<1> QED
  BY <1>1, MailInvariance, PTL

\* The table does not lie about what Sender took.
THEOREM TableIsTrue == MailSpec => []StateTellsTruth
<1>1. MailInv => StateTellsTruth
  BY DEF MailInv, Taken, StateTellsTruth
<1> QED
  BY <1>1, MailInvariance, PTL

\* Mail goes to proved addresses only.
THEOREM OnlyToOwn == MailSpec => []MailedToOwn
<1>1. MailInv => MailedToOwn
  BY DEF MailInv
<1> QED
  BY <1>1, MailInvariance, PTL

\* No address is verified or mailed to that is not the account's.
THEOREM OwnAddresses == MailSpec => []AddressesAreOwn
<1>1. MailInv => AddressesAreOwn
  BY DEF MailInv, PrefInv, AddressesAreOwn
<1> QED
  BY <1>1, MailInvariance, PTL

\* A mail that is settled is never claimed, sent or recorded again.
THEOREM SettledStays == MailSpec => FinalStays
<1>1. MailInv /\ [MailNext]_allVars =>
        [\A n \in Notices : notice[n].state \in Final => notice'[n].state = notice[n].state]_allVars
  BY MailNextInv DEF Settled
<1> QED
  BY <1>1, MailInvariance, PTL DEF MailSpec, FinalStays
-----------------------------------------------------------------------------
\* Tries: the inductive invariant.

\* Workers whose time is over, and those of them that may still claim.
Late == {w \in Replicas : work[w].late}
Doomed == {w \in Late : work[w].pc = "claim"}

\* The attempts of a notice, with those that late workers may add, beyond
\* what failures excuse.
Excess(n) == notice[n].tries + Cardinality(Doomed) - faults

\* Lateness is a failure.
LateCounted == IsFiniteSet(Late) /\ Cardinality(Late) <= faults

\* A row that waits has an attempt left.
RowBound(n) ==
  /\ Excess(n) <= MaxTries
  /\ notice[n].state \in Claimable => Excess(n) <= MaxTries - 1
  /\ notice[n].state = "absent" => notice[n].tries = 0

\* What a worker in time has read is what the rows say, but for failures and
\* its own claim; the row a late worker has claimed may be tried once more.
WorkBound(w) ==
  /\ ~work[w].late /\ work[w].pc # "idle" => lease = w
  /\ ~work[w].late /\ work[w].pc \in {"next", "claim", "prefs", "send", "record"} =>
       \A n \in work[w].items : Excess(n) <= work[w].tries[n]
  /\ ~work[w].late /\ work[w].pc = "claim" =>
       work[w].cur \notin work[w].items /\ Excess(work[w].cur) <= work[w].tries[work[w].cur]
  /\ ~work[w].late /\ Claims(w) =>
       work[w].cur \notin work[w].items /\ Excess(work[w].cur) <= work[w].tries[work[w].cur] + 1
  /\ work[w].late /\ Claims(w) => Excess(work[w].cur) <= MaxTries - 1

TriesInv ==
  /\ LateCounted
  /\ \A n \in Notices : RowBound(n)
  /\ \A w \in Replicas : WorkBound(w)

-----------------------------------------------------------------------------
\* Counting the late.

\* There are no more late claims than failures.
LEMMA DoomedCounted ==
  ASSUME LateCounted, faults \in Nat
  PROVE  /\ IsFiniteSet(Doomed) /\ Cardinality(Doomed) \in Nat /\ Cardinality(Doomed) <= faults
         /\ Cardinality(Late) \in Nat
<1>1. Doomed \subseteq Late
  BY DEF Doomed
<1>2. IsFiniteSet(Late) /\ Cardinality(Late) <= faults
  BY DEF LateCounted
<1>3. IsFiniteSet(Doomed) /\ Cardinality(Doomed) <= Cardinality(Late)
  BY <1>1, <1>2, FS_Subset
<1>4. Cardinality(Doomed) \in Nat /\ Cardinality(Late) \in Nat
  BY <1>2, <1>3, FS_CardinalityType
<1> QED
  BY <1>2, <1>3, <1>4

\* A set that gains at most one member counts at most one more.
LEMMA OneMore ==
  ASSUME NEW S, IsFiniteSet(S), NEW x, NEW T, T \subseteq S \cup {x}
  PROVE  IsFiniteSet(T) /\ Cardinality(T) \in Nat /\ Cardinality(T) <= Cardinality(S) + 1
<1>1. IsFiniteSet(S \cup {x}) /\ Cardinality(S) \in Nat
      /\ Cardinality(S \cup {x}) \in {Cardinality(S), Cardinality(S) + 1}
  BY FS_AddElement, FS_CardinalityType
<1>2. IsFiniteSet(T) /\ Cardinality(T) <= Cardinality(S \cup {x})
  BY <1>1, FS_Subset
<1>3. Cardinality(T) \in Nat
  BY <1>2, FS_CardinalityType
<1> QED
  BY <1>1, <1>2, <1>3

\* What a step of one worker does to the late ones: one more costs a failure.
LEMMA Lateness ==
  ASSUME MailInv, LateCounted, NEW w \in Replicas, NEW row, HoldWork(w, row),
         faults' \in {faults, faults + 1},
         row.late => work[w].late \/ faults' = faults + 1,
         row.late /\ row.pc = "claim" => (work[w].late /\ work[w].pc = "claim") \/ faults' = faults + 1
  PROVE  /\ LateCounted' /\ Cardinality(Doomed)' \in Nat /\ Cardinality(Doomed) \in Nat
         /\ Cardinality(Doomed)' - faults' <= Cardinality(Doomed) - faults
<1>1. faults \in Nat /\ work \in [Replicas -> WorkRow]
  BY DEF MailInv, MailTypeOK, PrefInv, PreferencesTypeOK
<1>2. work'[w] = row /\ \A v \in Replicas : v # w => work'[v] = work[v]
  BY <1>1 DEF HoldWork
<1>3. /\ IsFiniteSet(Late) /\ Cardinality(Late) <= faults /\ Cardinality(Late) \in Nat
      /\ IsFiniteSet(Doomed) /\ Cardinality(Doomed) \in Nat
  BY <1>1, DoomedCounted DEF LateCounted
<1>4. CASE faults' = faults + 1
  <2>1. Late' \subseteq Late \cup {w} /\ Doomed' \subseteq Doomed \cup {w}
    BY <1>2 DEF Late, Doomed
  <2>2. IsFiniteSet(Late') /\ Cardinality(Late') <= Cardinality(Late) + 1 /\ Cardinality(Late') \in Nat
    BY <1>3, <2>1, OneMore
  <2>3. Cardinality(Doomed') <= Cardinality(Doomed) + 1 /\ Cardinality(Doomed') \in Nat
    BY <1>3, <2>1, OneMore
  <2> QED
    BY <1>1, <1>3, <1>4, <2>2, <2>3 DEF LateCounted
<1>5. CASE faults' = faults
  <2>1. Late' \subseteq Late /\ Doomed' \subseteq Doomed
    BY <1>1, <1>2, <1>5 DEF Late, Doomed
  <2>2. IsFiniteSet(Late') /\ Cardinality(Late') <= Cardinality(Late)
    BY <1>3, <2>1, FS_Subset
  <2>3. IsFiniteSet(Doomed') /\ Cardinality(Doomed') <= Cardinality(Doomed)
    BY <1>3, <2>1, FS_Subset
  <2>4. Cardinality(Late') \in Nat /\ Cardinality(Doomed') \in Nat
    BY <2>2, <2>3, FS_CardinalityType
  <2> QED
    BY <1>1, <1>3, <1>5, <2>2, <2>3, <2>4 DEF LateCounted
<1> QED
  BY <1>4, <1>5

\* What every case needs.
LEMMA TriesFacts ==
  ASSUME MailInv, TriesInv
  PROVE  /\ faults \in Nat /\ notice \in [Notices -> NoticeRow] /\ LateCounted
         /\ work \in [Replicas -> WorkRow]
         /\ Cardinality(Doomed) \in Nat /\ Cardinality(Doomed) <= faults
         /\ \A n \in Notices : notice[n].tries \in Nat /\ Excess(n) \in Int
         /\ \A w \in Replicas :
              /\ work[w] \in WorkRow /\ work[w].items \subseteq Notices /\ work[w].late \in BOOLEAN
              /\ work[w].pc \in {"insert", "claim", "prefs", "send", "record"} => work[w].cur \in Notices
              /\ \A n \in Notices : work[w].tries[n] \in Nat
<1>1. /\ faults \in Nat /\ notice \in [Notices -> NoticeRow] /\ work \in [Replicas -> WorkRow]
      /\ LateCounted
      /\ \A w \in Replicas : WorkOK(work[w])
  BY WorkIs DEF MailInv, MailTypeOK, PrefInv, PreferencesTypeOK, TriesInv
<1>2. Cardinality(Doomed) \in Nat /\ Cardinality(Doomed) <= faults
  BY <1>1, DoomedCounted
<1>3. \A n \in Notices : notice[n].tries \in Nat
  BY <1>1 DEF NoticeRow
<1>4. \A n \in Notices : Excess(n) \in Int
  BY <1>1, <1>2, <1>3 DEF Excess
<1>5. \A w \in Replicas :
        /\ work[w] \in WorkRow /\ work[w].items \subseteq Notices /\ work[w].late \in BOOLEAN
        /\ work[w].pc \in {"insert", "claim", "prefs", "send", "record"} => work[w].cur \in Notices
        /\ \A n \in Notices : work[w].tries[n] \in Nat
  BY <1>1 DEF WorkRow, WorkOK
<1> QED
  BY <1>1, <1>2, <1>3, <1>4, <1>5

\* A step of one worker that excuses what it adds keeps the bounds of the others.
LEMMA TriesStep ==
  ASSUME MailInv, TriesInv, NEW w \in Replicas, NEW row, HoldWork(w, row),
         \A v \in Replicas : v # w /\ lease = v => lease' = v,
         LateCounted', WorkBound(w)',
         \A n \in Notices : RowBound(n)' /\ Excess(n)' \in Int /\ Excess(n)' <= Excess(n)
  PROVE  TriesInv'
<1>1. \A v \in Replicas : v # w => work'[v] = work[v]
  BY TriesFacts DEF HoldWork
<1>2. ASSUME NEW v \in Replicas, v # w PROVE WorkBound(v)'
  <2>1. WorkBound(v) /\ work'[v] = work[v]
    BY <1>1, <1>2 DEF TriesInv
  <2>2. /\ work[v].items \subseteq Notices /\ (Claims(v) \/ work[v].pc = "claim" => work[v].cur \in Notices)
        /\ \A n \in Notices : work[v].tries[n] \in Nat /\ Excess(n) \in Int
    BY TriesFacts DEF Claims
  <2>3. Claims(v)' = Claims(v)
    BY <2>1 DEF Claims
  <2>4. \A n \in Notices : \A b \in Int : Excess(n) <= b => Excess(n)' <= b
    BY <2>2
  <2> QED
    BY <1>2, <2>1, <2>2, <2>3, <2>4 DEF WorkBound
<1> QED
  BY <1>2 DEF TriesInv

\* A step of one worker that adds no attempt.
LEMMA QuietTries ==
  ASSUME MailInv, TriesInv, NEW w \in Replicas, NEW row, HoldWork(w, row),
         faults' \in {faults, faults + 1},
         row.late => work[w].late \/ faults' = faults + 1,
         row.late /\ row.pc = "claim" => (work[w].late /\ work[w].pc = "claim") \/ faults' = faults + 1,
         \A v \in Replicas : v # w /\ lease = v => lease' = v,
         \A n \in Notices :
           /\ notice'[n].tries = notice[n].tries
           /\ notice'[n].state \in Claimable => notice[n].state \in Claimable \/ Excess(n) <= MaxTries - 1
           /\ notice'[n].state = "absent" => notice[n].state = "absent"
  PROVE  /\ work'[w] = row
         /\ \A n \in Notices : Excess(n)' \in Int /\ Excess(n)' <= Excess(n)
         /\ WorkBound(w)' => TriesInv'
<1>1. /\ LateCounted' /\ Cardinality(Doomed)' \in Nat /\ Cardinality(Doomed) \in Nat
      /\ Cardinality(Doomed)' - faults' <= Cardinality(Doomed) - faults
  BY Lateness, TriesFacts
<1>2. work'[w] = row
  BY TriesFacts DEF HoldWork
<1>3. \A n \in Notices : Excess(n)' \in Int /\ Excess(n)' <= Excess(n)
  BY <1>1, TriesFacts DEF Excess
<1>4. \A n \in Notices : RowBound(n)'
  <2> SUFFICES ASSUME NEW n \in Notices PROVE RowBound(n)'
    OBVIOUS
  <2>1. RowBound(n) /\ Excess(n) \in Int
    BY TriesFacts DEF TriesInv
  <2> QED
    BY <1>3, <2>1 DEF RowBound
<1> QED
  BY <1>1, <1>2, <1>3, <1>4, TriesStep

-----------------------------------------------------------------------------
\* The steps of a round.

\* A worker that is not at the mails only needs its lease.
LEMMA LooseRow ==
  ASSUME NEW w \in Replicas, work'[w].pc \in {"idle", "check", "insert", "fetch", "release"},
         ~work'[w].late /\ work'[w].pc # "idle" => lease' = w
  PROVE  WorkBound(w)'
  BY DEF WorkBound, Claims

\* The start of a round.
LEMMA TakeLeaseTries == ASSUME MailInv, TriesInv, NEW w \in Replicas, TakeLease(w) PROVE TriesInv'
<1>1. PICK alerts \in SUBSET Notices : HoldWork(w, [Asleep EXCEPT !.pc = "check", !.items = alerts])
  BY DEF TakeLease
<1> DEFINE row == [Asleep EXCEPT !.pc = "check", !.items = alerts]
<1>2. ~row.late /\ row.pc = "check"
  BY DEF Asleep
<1>3. HoldWork(w, row) /\ lease = None /\ lease' = w /\ UNCHANGED <<faults, notice>>
  BY <1>1 DEF TakeLease
<1> HIDE DEF row
<1> QED
  BY <1>2, <1>3, QuietTries, LooseRow

\* The alerts: a new row has no attempts behind it.
LEMMA AlertTries ==
  ASSUME MailInv, TriesInv, NEW w \in Replicas, CheckAlert(w) \/ InsertNotice(w) PROVE TriesInv'
<1>1. WorkBound(w) /\ work[w].late \in BOOLEAN /\ work[w] \in WorkRow
      /\ work[w].pc \in {"check", "insert"}
  BY TriesFacts DEF TriesInv, CheckAlert, InsertNotice
<1> DEFINE Loose(row) == /\ HoldWork(w, row) /\ row.late = work[w].late
                         /\ row.pc \in {"check", "release", "fetch", "insert"}
<1>2. PICK row : Loose(row)
  <2>1. ASSUME NEW pc \in {"release", "check"}, GoWork(w, pc) PROVE \E row : Loose(row)
    <3> DEFINE row == [work[w] EXCEPT !.pc = pc]
    <3>1. HoldWork(w, row) /\ row.late = work[w].late /\ row.pc = pc
      BY <1>1, <2>1 DEF GoWork, WorkRow
    <3> HIDE DEF row
    <3> QED
      BY <3>1
  <2>2. ASSUME NEW n \in work[w].items, NEW to,
               HoldWork(w, [work[w] EXCEPT !.pc = "insert", !.cur = n, !.items = @ \ {n}, !.to = to])
        PROVE  \E row : Loose(row)
    <3> DEFINE row == [work[w] EXCEPT !.pc = "insert", !.cur = n, !.items = @ \ {n}, !.to = to]
    <3>1. HoldWork(w, row) /\ row.late = work[w].late /\ row.pc = "insert"
      BY <1>1, <2>2 DEF WorkRow
    <3> HIDE DEF row
    <3> QED
      BY <3>1
  <2>3. ASSUME HoldWork(w, [work[w] EXCEPT !.pc = "fetch", !.items = {}, !.cur = None, !.to = None])
        PROVE  \E row : Loose(row)
    <3> DEFINE row == [work[w] EXCEPT !.pc = "fetch", !.items = {}, !.cur = None, !.to = None]
    <3>1. HoldWork(w, row) /\ row.late = work[w].late /\ row.pc = "fetch"
      BY <1>1, <2>3 DEF WorkRow
    <3> HIDE DEF row
    <3> QED
      BY <3>1
  <2>4. CASE CheckAlert(w)
    <3>1. CASE \E n \in work[w].items : \E to \in {work[w].to, pref[Owner[n]]} :
                 HoldWork(w, [work[w] EXCEPT !.pc = "insert", !.cur = n, !.items = @ \ {n}, !.to = to])
      BY <2>2, <3>1
    <3> QED
      BY <2>1, <2>3, <2>4, <3>1 DEF CheckAlert
  <2> QED
    BY <1>1, <2>1, <2>4 DEF InsertNotice
<1>3. UNCHANGED <<faults, lease>>
  BY DEF CheckAlert, InsertNotice
<1>4. \A n \in Notices :
        /\ notice'[n].tries = notice[n].tries
        /\ notice'[n].state \in Claimable => notice[n].state \in Claimable \/ Excess(n) <= MaxTries - 1
        /\ notice'[n].state = "absent" => notice[n].state = "absent"
  <2>1. CASE notice' = notice
    BY <2>1
  <2>2. CASE notice' # notice
    <3> DEFINE n == work[w].cur
               new == [state |-> IF Wanted(work[w].to) THEN "queued" ELSE "disabled",
                       tries |-> 0, age |-> "due"]
    <3>1. notice[n].state = "absent" /\ notice' = [notice EXCEPT ![n] = new] /\ n \in Notices
      BY <2>2, TriesFacts DEF CheckAlert, InsertNotice
    <3>2. notice[n].tries = 0 /\ Excess(n) <= 0
      BY <3>1, TriesFacts DEF TriesInv, RowBound, Excess
    <3>3. new.tries = 0 /\ new.state # "absent"
      OBVIOUS
    <3> HIDE DEF n, new
    <3>4. notice'[n] = new /\ \A m \in Notices : m # n => notice'[m] = notice[m]
      BY <3>1, TriesFacts
    <3> QED
      BY <3>2, <3>3, <3>4, TriesFacts
  <2> QED
    BY <2>1, <2>2
<1>5. work'[w] = row /\ (WorkBound(w)' => TriesInv')
  BY <1>2, <1>3, <1>4, QuietTries
<1> QED
  BY <1>1, <1>2, <1>3, <1>5, LooseRow DEF WorkBound

\* The list is what the rows say; there are no more late claims than failures.
LEMMA FetchTries == ASSUME MailInv, TriesInv, NEW w \in Replicas, FetchMails(w) PROVE TriesInv'
<1> DEFINE due == {n \in Notices : notice[n].state \in Claimable /\ notice[n].age # "early"}
           row == [work[w] EXCEPT !.pc = "next", !.items = due,
                                  !.tries = [n \in Notices |-> notice[n].tries]]
<1>1. WorkBound(w) /\ work[w] \in WorkRow /\ work[w].pc = "fetch"
  BY TriesFacts DEF TriesInv, FetchMails
<1>2. /\ row.late = work[w].late /\ row.pc = "next" /\ row.items \subseteq Notices
      /\ \A n \in Notices : row.tries[n] = notice[n].tries
  BY <1>1 DEF WorkRow
<1>3. HoldWork(w, row) /\ lease' = lease /\ faults' \in {faults, faults + 1}
  BY DEF FetchMails, Fault
<1>4. \A n \in Notices :
        /\ notice'[n].tries = notice[n].tries
        /\ notice'[n].state \in Claimable => notice[n].state \in Claimable
        /\ notice'[n].state = "absent" => notice[n].state = "absent"
  <2>1. \A n \in Notices : /\ Swept(notice[n]).tries = notice[n].tries
                           /\ Swept(notice[n]).state \in {notice[n].state, "uncertain"}
    BY TriesFacts DEF Swept, NoticeRow
  <2>2. notice' = notice \/ notice' = [n \in Notices |-> Swept(notice[n])]
    BY DEF FetchMails
  <2> QED
    BY <2>1, <2>2 DEF Claimable
<1> HIDE DEF row
<1>5. /\ work'[w] = row /\ (WorkBound(w)' => TriesInv')
      /\ \A n \in Notices : Excess(n)' \in Int /\ Excess(n)' <= Excess(n)
  BY <1>1, <1>2, <1>3, <1>4, QuietTries
<1>6. \A n \in Notices : Excess(n)' <= notice[n].tries
  BY <1>5, TriesFacts DEF Excess
<1>7. WorkBound(w)'
  BY <1>1, <1>2, <1>3, <1>5, <1>6 DEF WorkBound, Claims
<1> QED
  BY <1>5, <1>7

\* The next mail, which leaves the list.
LEMMA NextMailTries == ASSUME MailInv, TriesInv, NEW w \in Replicas, NextMail(w) PROVE TriesInv'
<1>1. WorkBound(w) /\ work[w] \in WorkRow /\ work[w].pc = "next" /\ UNCHANGED <<faults, lease, notice>>
  BY TriesFacts DEF TriesInv, NextMail
<1>2. CASE GoWork(w, "release")
  <2> DEFINE row == [work[w] EXCEPT !.pc = "release"]
  <2>1. HoldWork(w, row) /\ row.late = work[w].late /\ row.pc = "release"
    BY <1>1, <1>2 DEF GoWork, WorkRow
  <2> HIDE DEF row
  <2>2. work'[w] = row /\ (WorkBound(w)' => TriesInv')
    BY <1>1, <2>1, QuietTries
  <2> QED
    BY <1>1, <2>1, <2>2, LooseRow DEF WorkBound
<1>3. CASE ~work[w].late /\ \E n \in work[w].items :
             HoldWork(w, [work[w] EXCEPT !.pc = "claim", !.cur = n, !.items = @ \ {n}])
  <2>1. PICK n \in work[w].items :
          HoldWork(w, [work[w] EXCEPT !.pc = "claim", !.cur = n, !.items = @ \ {n}])
    BY <1>3
  <2> DEFINE row == [work[w] EXCEPT !.pc = "claim", !.cur = n, !.items = @ \ {n}]
  <2>2. /\ HoldWork(w, row) /\ row.late = work[w].late /\ row.pc = "claim" /\ row.cur = n
        /\ row.items = work[w].items \ {n} /\ row.tries = work[w].tries
    BY <1>1, <2>1 DEF WorkRow
  <2> HIDE DEF row
  <2>3. /\ work'[w] = row /\ (WorkBound(w)' => TriesInv')
        /\ \A m \in Notices : Excess(m)' \in Int /\ Excess(m)' <= Excess(m)
    BY <1>1, <1>3, <2>2, QuietTries
  <2>4. \A m \in work[w].items : Excess(m)' <= work[w].tries[m]
    BY <1>1, <1>3, <2>3, TriesFacts DEF WorkBound
  <2>5. WorkBound(w)'
    BY <1>1, <1>3, <2>2, <2>3, <2>4 DEF WorkBound, Claims
  <2> QED
    BY <2>3, <2>5
<1> QED
  BY <1>2, <1>3 DEF NextMail

-----------------------------------------------------------------------------
\* The claim.

\* A worker in time adds an attempt: it is the only one in time, no late one
\* has claimed this row, and the row had an attempt left.
LEMMA ClaimInTime ==
  ASSUME MailInv, TriesInv, NEW w \in Replicas, ~work[w].late, Claim(w),
         notice[work[w].cur].state \in Claimable
  PROVE  TriesInv'
<1>0. PICK n \in Notices : n = work[w].cur
  BY TriesFacts DEF Claim
<1> DEFINE row == [work[w] EXCEPT !.pc = "prefs"]
<1>1. /\ WorkBound(w) /\ work[w] \in WorkRow /\ work[w].pc = "claim" /\ UNCHANGED <<faults, lease>>
      /\ n \notin work[w].items /\ Excess(n) <= work[w].tries[n] /\ lease = w
  BY <1>0, TriesFacts DEF TriesInv, WorkBound, Claim
<1>2. /\ HoldWork(w, row) /\ row.late = work[w].late /\ row.pc = "prefs" /\ row.cur = n
      /\ row.items = work[w].items /\ row.tries = work[w].tries
  BY <1>0, <1>1 DEF WorkRow, Claim, GoWork
<1> HIDE DEF row
<1>3. /\ LateCounted' /\ Cardinality(Doomed)' \in Nat /\ Cardinality(Doomed) \in Nat
      /\ Cardinality(Doomed)' <= Cardinality(Doomed)
  BY <1>1, <1>2, Lateness, TriesFacts
<1>4. work'[w] = row /\ \A v \in Replicas : v # w => work'[v] = work[v]
  BY <1>2, TriesFacts DEF HoldWork
<1>5. notice[n].state \in Claimable /\ notice' = [notice EXCEPT ![n] = Claimed(notice[n])]
  BY <1>0 DEF Claim
<1>6. /\ notice'[n].tries = notice[n].tries + 1 /\ notice'[n].state = "sending"
      /\ \A m \in Notices : m # n => notice'[m] = notice[m]
  BY <1>1, <1>5, TriesFacts DEF Claimed
<1>7. /\ \A m \in Notices : Excess(m)' \in Int /\ (m # n => Excess(m)' <= Excess(m))
      /\ Excess(n)' <= Excess(n) + 1
  BY <1>1, <1>3, <1>6, TriesFacts DEF Excess
<1>8. ASSUME NEW m \in Notices PROVE RowBound(m)'
  <2>1. RowBound(m) /\ RowBound(n) /\ Excess(m) \in Int /\ Excess(n) \in Int
    BY <1>1, <1>8, TriesFacts DEF TriesInv
  <2>2. Excess(n) <= MaxTries - 1
    BY <1>5, <2>1 DEF RowBound
  <2>3. CASE m = n
    BY <1>6, <1>7, <2>1, <2>2, <2>3 DEF RowBound, Claimable
  <2>4. CASE m # n
    BY <1>6, <1>7, <2>1, <2>4 DEF RowBound
  <2> QED
    BY <2>3, <2>4
<1>9. WorkBound(w)'
  <2>1. \A m \in work[w].items : Excess(m)' <= work[w].tries[m]
    BY <1>1, <1>7, TriesFacts DEF WorkBound
  <2>2. Excess(n)' <= work[w].tries[n] + 1
    BY <1>1, <1>7, TriesFacts
  <2> QED
    BY <1>1, <1>2, <1>4, <2>1, <2>2 DEF WorkBound
<1>10. ASSUME NEW v \in Replicas, v # w PROVE WorkBound(v)'
  <2>1. WorkBound(v) /\ work'[v] = work[v] /\ (work[v].late \/ work[v].pc = "idle")
    BY <1>1, <1>4, <1>10, TriesFacts DEF TriesInv, WorkBound
  <2>2. Claims(v) => work[v].cur # n /\ work[v].cur \in Notices
    BY <1>5, TriesFacts DEF MailInv, ClaimedRow, Claims, Claimable
  <2>3. Claims(v) /\ work[v].late => Excess(work[v].cur)' <= MaxTries - 1
    BY <1>7, <2>1, <2>2, TriesFacts DEF WorkBound
  <2>4. Claims(v)' = Claims(v)
    BY <2>1 DEF Claims
  <2>5. Claims(v) => work[v].pc # "idle"
    BY DEF Claims
  <2> QED
    BY <1>1, <2>1, <2>3, <2>4, <2>5 DEF WorkBound
<1> QED
  BY <1>3, <1>8, <1>9, <1>10 DEF TriesInv

\* A late worker adds the attempt that is counted for it already, and one
\* whose claim is not answered adds one with a failure.
LEMMA ClaimExcused ==
  ASSUME MailInv, TriesInv, NEW w \in Replicas, work[w].pc = "claim",
         notice[work[w].cur].state \in Claimable,
         notice' = [notice EXCEPT ![work[w].cur] = Claimed(@)], lease' = lease,
         NEW row, HoldWork(w, row), row.late = work[w].late, row.items = work[w].items,
         row.tries = work[w].tries,
         \/ row.pc = "next" /\ faults' = faults + 1
         \/ row.pc = "prefs" /\ work[w].late /\ faults' = faults /\ row.cur = work[w].cur
  PROVE  TriesInv'
<1>0. PICK n \in Notices : n = work[w].cur
  BY TriesFacts
<1>1. WorkBound(w) /\ Excess(n) \in Int /\ Excess(n) <= MaxTries - 1
  BY <1>0, TriesFacts DEF TriesInv, RowBound
<1>2. work'[w] = row /\ \A v \in Replicas : v # w => work'[v] = work[v]
  BY TriesFacts DEF HoldWork
<1>3. /\ LateCounted' /\ Cardinality(Doomed)' \in Nat /\ Cardinality(Doomed) \in Nat
      /\ Cardinality(Doomed)' - faults' <= Cardinality(Doomed) - faults
  BY Lateness, TriesFacts
<1>4. /\ notice'[n].tries = notice[n].tries + 1 /\ notice'[n].state = "sending"
      /\ \A m \in Notices : m # n => notice'[m] = notice[m]
  BY <1>0, TriesFacts DEF Claimed
<1>5. Cardinality(Doomed)' + 1 - faults' <= Cardinality(Doomed) - faults
  <2>1. w \in Late <=> work[w].late
    BY DEF Late
  <2>2. CASE work[w].late
    <3>1. Doomed' \subseteq Doomed \ {w} /\ w \in Doomed
      BY <1>2, <2>1, <2>2, TriesFacts DEF Late, Doomed
    <3>2. IsFiniteSet(Doomed)
      BY DoomedCounted, TriesFacts
    <3>3. /\ IsFiniteSet(Doomed \ {w}) /\ Cardinality(Doomed \ {w}) = Cardinality(Doomed) - 1
      BY <3>1, <3>2, FS_RemoveElement
    <3>4. Cardinality(Doomed') <= Cardinality(Doomed \ {w})
      BY <3>1, <3>3, FS_Subset
    <3> QED
      BY <1>3, <3>3, <3>4, TriesFacts
  <2>3. CASE ~work[w].late
    <3>1. faults' = faults + 1 /\ Doomed' \subseteq Doomed
      BY <1>2, <2>3, TriesFacts DEF Late, Doomed
    <3>2. IsFiniteSet(Doomed)
      BY DoomedCounted, TriesFacts
    <3>3. Cardinality(Doomed') <= Cardinality(Doomed)
      BY <3>1, <3>2, FS_Subset
    <3> QED
      BY <1>3, <3>1, <3>3, TriesFacts
  <2> QED
    BY <2>2, <2>3, TriesFacts
<1>6. \A m \in Notices : Excess(m)' \in Int /\ Excess(m)' <= Excess(m)
  BY <1>1, <1>3, <1>4, <1>5, TriesFacts DEF Excess
<1>7. ASSUME NEW m \in Notices PROVE RowBound(m)'
  <2>1. RowBound(m) /\ Excess(m) \in Int
    BY <1>7, TriesFacts DEF TriesInv
  <2>2. m = n => notice'[m].state \notin Claimable /\ notice'[m].state # "absent"
    BY <1>4 DEF Claimable
  <2>3. m # n => notice'[m] = notice[m]
    BY <1>4
  <2> QED
    BY <1>6, <2>1, <2>2, <2>3 DEF RowBound
<1>8. WorkBound(w)'
  <2>1. ~work[w].late => \A m \in work[w].items : Excess(m)' <= work[w].tries[m]
    BY <1>1, <1>6, TriesFacts DEF WorkBound
  <2>2. Excess(n)' <= MaxTries - 1
    BY <1>1, <1>6
  <2> QED
    BY <1>0, <1>1, <1>2, <2>1, <2>2 DEF WorkBound, Claims
<1> QED
  BY <1>3, <1>6, <1>7, <1>8, TriesStep

\* The claim, or the row that no longer waits.
LEMMA ClaimTries == ASSUME MailInv, TriesInv, NEW w \in Replicas, Claim(w) PROVE TriesInv'
<1>1. WorkBound(w) /\ work[w] \in WorkRow /\ work[w].pc = "claim" /\ UNCHANGED <<faults, lease>>
  BY TriesFacts DEF TriesInv, Claim
<1>2. CASE notice[work[w].cur].state \notin Claimable
  <2> DEFINE row == [work[w] EXCEPT !.pc = "next", !.cur = None]
  <2>1. /\ HoldWork(w, row) /\ row.late = work[w].late /\ row.pc = "next"
        /\ row.items = work[w].items /\ row.tries = work[w].tries /\ notice' = notice
    BY <1>1, <1>2 DEF WorkRow, Claim
  <2> HIDE DEF row
  <2>2. /\ work'[w] = row /\ (WorkBound(w)' => TriesInv')
        /\ \A m \in Notices : Excess(m)' \in Int /\ Excess(m)' <= Excess(m)
    BY <1>1, <2>1, QuietTries
  <2>3. ~work[w].late => \A m \in work[w].items : Excess(m)' <= work[w].tries[m]
    BY <1>1, <2>2, TriesFacts DEF WorkBound
  <2>4. WorkBound(w)'
    BY <1>1, <2>1, <2>2, <2>3 DEF WorkBound, Claims
  <2> QED
    BY <2>2, <2>4
<1>3. CASE notice[work[w].cur].state \in Claimable /\ work[w].late
  <2> DEFINE row == [work[w] EXCEPT !.pc = "prefs"]
  <2>1. /\ HoldWork(w, row) /\ row.late = work[w].late /\ row.pc = "prefs" /\ row.cur = work[w].cur
        /\ row.items = work[w].items /\ row.tries = work[w].tries
    BY <1>1, <1>3 DEF WorkRow, Claim, GoWork
  <2>2. notice' = [notice EXCEPT ![work[w].cur] = Claimed(@)]
    BY <1>3 DEF Claim
  <2> HIDE DEF row
  <2> QED
    BY <1>1, <1>3, <2>1, <2>2, ClaimExcused
<1> QED
  BY <1>2, <1>3, ClaimInTime, TriesFacts

-----------------------------------------------------------------------------
\* What follows the claim.

\* A worker that keeps its claim keeps its bounds.
LEMMA KeptClaim ==
  ASSUME MailInv, TriesInv, NEW w \in Replicas, Claims(w), NEW row, HoldWork(w, row),
         row.pc \in {"send", "record"}, row.cur = work[w].cur, row.late = work[w].late,
         row.items = work[w].items, row.tries = work[w].tries,
         faults' \in {faults, faults + 1}, UNCHANGED <<notice, lease>>
  PROVE  TriesInv'
<1>0. PICK n \in Notices : n = work[w].cur
  BY TriesFacts DEF Claims
<1>1. WorkBound(w) /\ work[w].pc \in {"prefs", "send", "record"}
  BY DEF TriesInv, Claims
<1>2. /\ work'[w] = row /\ (WorkBound(w)' => TriesInv')
      /\ \A m \in Notices : Excess(m)' \in Int /\ Excess(m)' <= Excess(m)
  BY <1>1, QuietTries
<1>3. ~work[w].late => /\ \A m \in work[w].items : Excess(m)' <= work[w].tries[m]
                       /\ n \notin work[w].items /\ Excess(n)' <= work[w].tries[n] + 1
  BY <1>0, <1>1, <1>2, TriesFacts DEF WorkBound
<1>4. work[w].late => Excess(n)' <= MaxTries - 1
  BY <1>0, <1>1, <1>2, TriesFacts DEF WorkBound
<1>5. WorkBound(w)'
  BY <1>0, <1>1, <1>2, <1>3, <1>4 DEF WorkBound, Claims
<1> QED
  BY <1>2, <1>5

\* The preference and the attempt.
LEMMA AttemptTries ==
  ASSUME MailInv, TriesInv, NEW w \in Replicas,
         ReadPreference(w) \/ Send(w) \/ SendUncertain(w) \/ SendFails(w)
  PROVE  TriesInv'
<1> DEFINE Kept(row) ==
      /\ HoldWork(w, row) /\ row.pc \in {"send", "record"} /\ row.cur = work[w].cur
      /\ row.late = work[w].late /\ row.items = work[w].items /\ row.tries = work[w].tries
<1>1. /\ work[w] \in WorkRow /\ Claims(w)
      /\ faults' \in {faults, faults + 1} /\ UNCHANGED <<notice, lease>>
  BY TriesFacts DEF Claims, ReadPreference, Send, SendUncertain, SendFails, Fault
<1>2. ASSUME NEW result, Outcome(w, result) PROVE \E row : Kept(row)
  <2> DEFINE row == [work[w] EXCEPT !.pc = "record", !.to = None, !.result = result]
  <2>1. Kept(row)
    BY <1>1, <1>2 DEF Outcome, WorkRow
  <2> HIDE DEF row, Kept
  <2> QED
    BY <2>1
<1>3. ASSUME NEW p, HoldWork(w, [work[w] EXCEPT !.pc = "send", !.to = p]) PROVE \E row : Kept(row)
  <2> DEFINE row == [work[w] EXCEPT !.pc = "send", !.to = p]
  <2>1. Kept(row)
    BY <1>1, <1>3 DEF WorkRow
  <2> HIDE DEF row, Kept
  <2> QED
    BY <2>1
<1>4. ASSUME HoldWork(w, [work[w] EXCEPT !.pc = "record", !.result = "disabled"])
      PROVE  \E row : Kept(row)
  <2> DEFINE row == [work[w] EXCEPT !.pc = "record", !.result = "disabled"]
  <2>1. Kept(row)
    BY <1>1, <1>4 DEF WorkRow
  <2> HIDE DEF row, Kept
  <2> QED
    BY <2>1
<1>5. PICK row : Kept(row)
  <2> HIDE DEF Kept
  <2> QED
    BY <1>2, <1>3, <1>4 DEF ReadPreference, Send, SendUncertain, SendFails
<1> QED
  BY <1>1, <1>5, KeptClaim

\* A worker that goes on with its list.
LEMMA NextRow ==
  ASSUME MailInv, TriesInv, NEW w \in Replicas, work[w].pc \in {"claim", "record"}, NEW row,
         HoldWork(w, row), row.pc = "next", row.late = work[w].late,
         row.items = work[w].items, row.tries = work[w].tries,
         faults' \in {faults, faults + 1}, lease' = lease,
         \A n \in Notices :
           /\ notice'[n].tries = notice[n].tries
           /\ notice'[n].state \in Claimable => notice[n].state \in Claimable \/ Excess(n) <= MaxTries - 1
           /\ notice'[n].state = "absent" => notice[n].state = "absent"
  PROVE  TriesInv'
<1>1. WorkBound(w)
  BY DEF TriesInv
<1>2. /\ work'[w] = row /\ (WorkBound(w)' => TriesInv')
      /\ \A m \in Notices : Excess(m)' \in Int /\ Excess(m)' <= Excess(m)
  BY QuietTries
<1>3. ~work[w].late => \A m \in work[w].items : Excess(m)' <= work[w].tries[m]
  BY <1>1, <1>2, TriesFacts DEF WorkBound
<1>4. WorkBound(w)'
  BY <1>1, <1>2, <1>3 DEF WorkBound, Claims
<1> QED
  BY <1>2, <1>4

\* The outcome: a retry leaves an attempt.
LEMMA RecordTries == ASSUME MailInv, TriesInv, NEW w \in Replicas, Record(w) PROVE TriesInv'
<1>0. PICK n \in Notices : n = work[w].cur
  BY TriesFacts DEF Record
<1> DEFINE row == [work[w] EXCEPT !.pc = "next", !.cur = None, !.result = None]
           new == [notice[n] EXCEPT !.state = Recorded(w), !.age = "early"]
<1>1. /\ WorkBound(w) /\ work[w] \in WorkRow /\ work[w].pc = "record" /\ UNCHANGED <<faults, lease>>
      /\ Claims(w) /\ work[w].result \in Results
  BY TriesFacts, WorkIs DEF TriesInv, Record, Claims, MailInv, WorkOK
<1>2. /\ HoldWork(w, row) /\ row.late = work[w].late /\ row.pc = "next"
      /\ row.items = work[w].items /\ row.tries = work[w].tries
  BY <1>1 DEF WorkRow, Record
<1>3. notice' = [notice EXCEPT ![n] = new]
  BY <1>0 DEF Record
<1>4. new.tries = notice[n].tries /\ new.state = Recorded(w)
  BY TriesFacts DEF NoticeRow
<1> HIDE DEF row, new
<1>5. notice'[n] = new /\ \A m \in Notices : m # n => notice'[m] = notice[m]
  BY <1>3, TriesFacts
<1>6. Recorded(w) # "absent" /\ (Recorded(w) \in Claimable => Excess(n) <= MaxTries - 1)
  <2>1. Recorded(w) \in Claimable => work[w].tries[n] + 1 < MaxTries
    BY <1>0, <1>1, TriesFacts DEF Recorded, Results, Claimable
  <2>2. Recorded(w) # "absent"
    BY <1>1 DEF Recorded, Results
  <2>3. ~work[w].late => Excess(n) <= work[w].tries[n] + 1
    BY <1>0, <1>1 DEF WorkBound
  <2>4. work[w].late => Excess(n) <= MaxTries - 1
    BY <1>0, <1>1 DEF WorkBound
  <2> QED
    BY <2>1, <2>2, <2>3, <2>4, TriesFacts
<1> QED
  BY <1>1, <1>2, <1>4, <1>5, <1>6, NextRow

\* A write fails, with or without effect.
LEMMA WriteFailsTries == ASSUME MailInv, TriesInv, NEW w \in Replicas, WriteFails(w) PROVE TriesInv'
<1> DEFINE row == [work[w] EXCEPT !.pc = "next", !.cur = None, !.result = None]
<1>1. work[w] \in WorkRow /\ work[w].pc \in {"claim", "record"} /\ lease' = lease /\ faults' = faults + 1
  BY TriesFacts DEF WriteFails, Fault
<1>2. /\ HoldWork(w, row) /\ row.late = work[w].late /\ row.pc = "next"
      /\ row.items = work[w].items /\ row.tries = work[w].tries
  BY <1>1 DEF WorkRow, WriteFails
<1> HIDE DEF row
<1>3. CASE UNCHANGED notice
  BY <1>1, <1>2, <1>3, NextRow
<1>4. CASE /\ work[w].pc = "claim" /\ notice[work[w].cur].state \in Claimable
           /\ notice' = [notice EXCEPT ![work[w].cur] = Claimed(@)]
  BY <1>1, <1>2, <1>4, ClaimExcused
<1> QED
  BY <1>3, <1>4 DEF WriteFails

-----------------------------------------------------------------------------
\* The ends.

\* A list fails, a round ends, or a replica does.
LEMMA LooseEnds ==
  ASSUME MailInv, TriesInv, NEW w \in Replicas, ListFails(w) \/ Release(w) \/ ReplicaEnds(w)
  PROVE  TriesInv'
<1>1. /\ WorkBound(w) /\ work[w] \in WorkRow /\ work[w].late \in BOOLEAN
      /\ faults' \in {faults, faults + 1} /\ notice' = notice
      /\ \A v \in Replicas : v # w /\ lease = v => lease' = v
  BY TriesFacts DEF TriesInv, ListFails, Release, ReplicaEnds, Fault
<1>2. PICK row : /\ HoldWork(w, row) /\ row.pc \in {"idle", "check", "release"}
                 /\ row.pc # "idle" => row.late = work[w].late /\ work[w].pc # "idle" /\ lease' = lease
                 /\ row.pc = "idle" => ~row.late
  <2>1. CASE ListFails(w)
    <3> DEFINE pc == IF work[w].pc = "insert" THEN "check" ELSE "release"
               rest == {n \in work[w].items : Owner[n] # Owner[work[w].cur]}
               row == [work[w] EXCEPT !.pc = pc, !.items = rest, !.cur = None, !.to = None]
    <3>1. pc \in {"check", "release"} /\ HoldWork(w, row) /\ work[w].pc # "idle" /\ lease' = lease
      BY <2>1 DEF ListFails
    <3> HIDE DEF pc, rest
    <3>2. row.pc = pc /\ row.late = work[w].late
      BY <1>1 DEF WorkRow
    <3> HIDE DEF row
    <3> QED
      BY <3>1, <3>2
  <2>2. CASE Release(w) \/ ReplicaEnds(w)
    BY <2>2 DEF Release, ReplicaEnds, Asleep
  <2> QED
    BY <2>1, <2>2
<1>3. work'[w] = row /\ (WorkBound(w)' => TriesInv')
  BY <1>1, <1>2, QuietTries
<1> QED
  BY <1>1, <1>2, <1>3, LooseRow DEF WorkBound

\* A worker's time is over: the attempt it may still add, or has added, is
\* excused by that failure.
LEMMA WorkEndsTries == ASSUME MailInv, TriesInv, NEW w \in Replicas, WorkEnds(w) PROVE TriesInv'
<1> DEFINE row == [work[w] EXCEPT !.late = TRUE]
<1>1. work[w] \in WorkRow /\ faults' = faults + 1 /\ UNCHANGED <<notice, lease>> /\ HoldWork(w, row)
  BY TriesFacts DEF WorkEnds, Fault
<1>2. row.late /\ row.pc = work[w].pc /\ row.cur = work[w].cur
  BY <1>1 DEF WorkRow
<1> HIDE DEF row
<1>3. work'[w] = row /\ (WorkBound(w)' => TriesInv')
  BY <1>1, <1>2, QuietTries
<1>4. ASSUME Claims(w) PROVE Excess(work[w].cur)' <= MaxTries - 1
  <2>0. PICK n \in Notices : n = work[w].cur
    BY <1>4, TriesFacts DEF Claims
  <2>1. Excess(n) <= MaxTries /\ Excess(n) \in Int
    BY TriesFacts DEF TriesInv, RowBound
  <2>2. \A v \in Replicas : v # w => work'[v] = work[v]
    BY <1>1, TriesFacts DEF HoldWork
  <2>3. Doomed' \subseteq Doomed
    BY <1>2, <1>3, <1>4, <2>2 DEF Late, Doomed, Claims
  <2>4. /\ IsFiniteSet(Doomed) /\ Cardinality(Doomed') \in Nat
        /\ Cardinality(Doomed') <= Cardinality(Doomed)
    BY <2>3, DoomedCounted, TriesFacts, FS_Subset, FS_CardinalityType
  <2>5. Excess(n)' <= Excess(n) - 1 /\ Excess(n)' \in Int
    BY <1>1, <2>4, TriesFacts DEF Excess
  <2>6. row.cur = n
    BY <1>2, <2>0
  <2>7. Excess(n)' <= MaxTries - 1
    BY <2>1, <2>5
  <2> QED
    BY <1>2, <1>3, <2>6, <2>7
<1>5. WorkBound(w)'
  BY <1>2, <1>3, <1>4 DEF WorkBound, Claims
<1> QED
  BY <1>3, <1>5

\* Steps that no worker takes.
LEMMA TriesStay ==
  ASSUME MailInv, TriesInv, work' = work, faults' \in {faults, faults + 1},
         \A v \in Replicas : lease = v /\ work[v].pc # "idle" /\ ~work[v].late => lease' = v,
         \A n \in Notices : notice'[n].tries = notice[n].tries /\ notice'[n].state = notice[n].state
  PROVE  TriesInv'
<1>1. Late' = Late /\ Doomed' = Doomed
  BY DEF Late, Doomed
<1>2. LateCounted'
  BY <1>1, TriesFacts, DoomedCounted DEF LateCounted
<1>3. \A n \in Notices : Excess(n)' \in Int /\ Excess(n)' <= Excess(n)
  BY <1>1, TriesFacts DEF Excess
<1>4. ASSUME NEW n \in Notices PROVE RowBound(n)'
  <2>1. RowBound(n) /\ Excess(n) \in Int
    BY TriesFacts DEF TriesInv
  <2> QED
    BY <1>3, <2>1 DEF RowBound
<1>5. ASSUME NEW v \in Replicas PROVE WorkBound(v)'
  <2>1. WorkBound(v) /\ Claims(v)' = Claims(v)
    BY DEF TriesInv, Claims
  <2>2. /\ work[v].items \subseteq Notices /\ (Claims(v) \/ work[v].pc = "claim" => work[v].cur \in Notices)
        /\ \A n \in Notices : work[v].tries[n] \in Nat /\ Excess(n) \in Int
    BY TriesFacts DEF Claims
  <2>3. \A n \in Notices : \A b \in Int : Excess(n) <= b => Excess(n)' <= b
    BY <1>3, <2>2
  <2> QED
    BY <2>1, <2>2, <2>3 DEF WorkBound
<1> QED
  BY <1>2, <1>4, <1>5 DEF TriesInv

-----------------------------------------------------------------------------
\* The bound.

\* It holds initially.
LEMMA TriesInit == MailInit => TriesInv
<1> SUFFICES ASSUME MailInit PROVE TriesInv
  OBVIOUS
<1>1. \A w \in Replicas : work[w].pc = "idle" /\ ~work[w].late
  BY DEF MailInit, Asleep
<1>2. Late = {} /\ Doomed = {}
  BY <1>1 DEF Late, Doomed
<1>3. LateCounted /\ \A n \in Notices : RowBound(n)
  BY <1>2, FS_EmptySet DEF MailInit, LateCounted, RowBound, Excess, Claimable
<1>4. \A w \in Replicas : WorkBound(w)
  BY <1>1 DEF WorkBound, Claims
<1> QED
  BY <1>3, <1>4 DEF TriesInv

\* A step of the accounts' owners costs at most a failure.
LEMMA PreferencesFaults == PreferencesNext => faults' \in {faults, faults + 1}
  BY DEF PreferencesNext, UpdatePreference, DrawCode, StoreChallenge, MailCode, CompareCode,
         WriteVerified, ForgetChallenge, TabFails, ChallengeExpires, Fault

\* Every step keeps it.
LEMMA TriesNext == MailInv /\ TriesInv /\ [MailNext]_allVars => TriesInv'
<1> SUFFICES ASSUME MailInv, TriesInv, [MailNext]_allVars PROVE TriesInv'
  OBVIOUS
<1>1. CASE PreferencesNext /\ UNCHANGED mailVars
  BY <1>1, PreferencesFaults, TriesStay DEF mailVars
<1>2. ASSUME NEW w \in Replicas, WorkStep(w) PROVE TriesInv'
  BY <1>2, TakeLeaseTries, AlertTries, FetchTries, NextMailTries, ClaimTries, AttemptTries,
     RecordTries, LooseEnds DEF WorkStep
<1>3. ASSUME NEW w \in Replicas, WriteFails(w) \/ ListFails(w) \/ WorkEnds(w) \/ ReplicaEnds(w)
      PROVE  TriesInv'
  BY <1>3, WriteFailsTries, LooseEnds, WorkEndsTries
<1>4. CASE LeaseEnds
  BY <1>4, TriesStay DEF LeaseEnds
<1>5. ASSUME NEW n \in Notices, Age(n) PROVE TriesInv'
  <2> DEFINE age == IF notice[n].age = "early" THEN "due" ELSE "stale"
             new == [notice[n] EXCEPT !.age = age]
  <2>1. notice' = [notice EXCEPT ![n] = new] /\ UNCHANGED <<faults, lease, work>>
    BY <1>5 DEF Age
  <2> HIDE DEF age
  <2>2. new.tries = notice[n].tries /\ new.state = notice[n].state
    BY TriesFacts DEF NoticeRow
  <2> HIDE DEF new
  <2> QED
    BY <2>1, <2>2, TriesFacts, TriesStay
<1>6. CASE UNCHANGED allVars
  BY <1>6, TriesStay DEF allVars
<1> QED
  BY <1>1, <1>2, <1>3, <1>4, <1>5, <1>6 DEF MailNext

\* What workers in time have read, and what failures excuse (TriesInv).
THEOREM TriesInvariance == MailSpec => [](MailInv /\ TriesInv)
<1>1. MailInit => MailInv /\ TriesInv
  BY MailInitInv, TriesInit
<1>2. (MailInv /\ TriesInv) /\ [MailNext]_allVars => (MailInv /\ TriesInv)'
  BY MailNextInv, TriesNext
<1> QED
  BY <1>1, <1>2, PTL DEF MailSpec

\* A mail is tried MaxTries times at most, but for one more with each failure,
\* although the attempts are compared as they were before the claim
\* (deliverNotifications).
THEOREM TriesCorrect == MailSpec => []TriesBounded
<1>1. MailInv /\ TriesInv => TriesBounded
  <2> SUFFICES ASSUME MailInv, TriesInv, NEW n \in Notices
               PROVE  notice[n].tries <= MaxTries + faults
    BY DEF TriesBounded
  <2> QED
    BY TriesFacts DEF TriesInv, RowBound, Excess
<1> QED
  BY <1>1, TriesInvariance, PTL
=============================================================================
