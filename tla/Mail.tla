-------------------------------- MODULE Mail --------------------------------
(***************************************************************************)
(* Notices and their mails: enqueueNotice, and the worker that every       *)
(* replica runs once a minute under one Redis lease: operationsWorker and  *)
(* deliverNotifications (campus/operations_notifications.go).              *)
(*                                                                         *)
(* A mail is claimed in MySQL, sent to Sender and its outcome recorded,    *)
(* one call per step, with the preferences changing underneath.  A replica *)
(* may end at any step, and may lose its lease while it is still at work.  *)
(***************************************************************************)
EXTENDS Preferences

CONSTANTS
  Notices,    \* dedupe keys
  Owner,      \* the account of each
  Replicas,   \* each runs one worker
  MaxTries    \* attempts to send one mail (5 in the code)

VARIABLES
  notice,    \* MySQL: platform_notifications
  lease,     \* Redis: the worker's lease
  work,      \* the workers
  accepted,  \* mails that Sender took for each notice
  mailed     \* the addresses it took them for, with the account

mailVars == <<notice, lease, work, accepted, mailed>>
allVars == <<pref, challenge, inbox, codes, tab, faults,
             notice, lease, work, accepted, mailed>>

Claimable == {"queued", "retry"}
Final == {"disabled", "sent", "throttled", "failed"}
States == Claimable \cup Final \cup {"absent", "sending", "uncertain"}

\* When a row is looked at next: not yet, now, or more than 3 minutes ago.
Ages == {"early", "due", "stale"}
NoticeRow == [state : States, tries : Nat, age : Ages]

ASSUME MailAssumption ==
  /\ Owner \in [Notices -> Users]
  /\ None \notin Notices \cup Replicas
  /\ MaxTries \in Nat \ {0}

\* What a worker holds: the rows it read, the one it is at, the preference it
\* read for it and the outcome; late says that its four minutes are over.
WorkRow ==
  [pc : {"idle", "check", "insert", "fetch", "next", "claim", "prefs", "send", "record", "release"},
   late : BOOLEAN, items : SUBSET Notices, tries : [Notices -> Nat],
   cur : Notices \cup {None}, to : PrefRow \cup {None},
   result : States \cup {None}]

Asleep ==
  [pc |-> "idle", late |-> FALSE, items |-> {}, tries |-> [n \in Notices |-> 0],
   cur |-> None, to |-> None, result |-> None]

MailInit ==
  /\ PreferencesInit
  /\ faults = 0
  /\ notice = [n \in Notices |-> [state |-> "absent", tries |-> 0, age |-> "early"]]
  /\ lease = None
  /\ work = [w \in Replicas |-> Asleep]
  /\ accepted = [n \in Notices |-> 0]
  /\ mailed = {}

HoldWork(w, row) == work' = [work EXCEPT ![w] = row]
GoWork(w, pc) == HoldWork(w, [work[w] EXCEPT !.pc = pc])

\* The preference mails to a verified address.
Wanted(p) == p.enabled /\ p.email # None /\ p.email = p.verified

-----------------------------------------------------------------------------
\* The lease and checkUserAlerts.

\* SETNX of a fresh token.  The alerts that are on are found during the round.
TakeLease(w) ==
  /\ work[w].pc = "idle"
  /\ lease = None
  /\ lease' = w
  /\ \E alerts \in SUBSET Notices : HoldWork(w, [Asleep EXCEPT !.pc = "check", !.items = alerts])
  /\ UNCHANGED <<prefVars, faults, notice, accepted, mailed>>

\* The next alert.  The preference is read once for all alerts of an account,
\* and only between accounts a late worker returns, or finds no more accounts.
CheckAlert(w) ==
  LET row == work[w]
      same == {n \in row.items : row.cur # None /\ Owner[n] = Owner[row.cur]}
  IN  /\ row.pc = "check"
      /\ \/ \E n \in row.items :
              /\ n \in same \/ (same = {} /\ ~row.late)
              /\ HoldWork(w, [row EXCEPT !.pc = "insert", !.cur = n, !.items = @ \ {n},
                                         !.to = IF n \in same THEN @ ELSE pref[Owner[n]]])
         \/ /\ same = {} /\ (row.late \/ row.items = {})
            /\ HoldWork(w, [row EXCEPT !.pc = "fetch", !.items = {}, !.cur = None, !.to = None])
         \/ same = {} /\ row.late /\ GoWork(w, "release")
      /\ UNCHANGED <<prefVars, faults, notice, lease, accepted, mailed>>

\* enqueueNotice: the dedupe key keeps a row that is there as it is; there is
\* none for an account that wants neither mail nor notices in the console.
InsertNotice(w) ==
  LET n == work[w].cur
      new == [state |-> IF Wanted(work[w].to) THEN "queued" ELSE "disabled",
              tries |-> 0, age |-> "due"]
  IN  /\ work[w].pc = "insert"
      /\ \/ notice' = IF notice[n].state = "absent" THEN [notice EXCEPT ![n] = new] ELSE notice
         \/ ~work[w].to.enabled /\ UNCHANGED notice
      /\ GoWork(w, "check")
      /\ UNCHANGED <<prefVars, faults, lease, accepted, mailed>>

-----------------------------------------------------------------------------
\* deliverNotifications.

\* Variant: a mail whose sender is gone is queued again.
Swept_Again(row) ==
  IF row.state = "sending" /\ row.age = "stale" THEN [row EXCEPT !.state = "retry"] ELSE row

\* A mail claimed more than three minutes ago is uncertain.
Swept(row) ==
  IF row.state = "sending" /\ row.age = "stale" THEN [row EXCEPT !.state = "uncertain"] ELSE row

\* The old claims are swept, which may fail unnoticed, and the mails that are
\* due are read: one step, as the two touch different rows.
FetchMails(w) ==
  LET swept == [n \in Notices |-> Swept(notice[n])]
      due == {n \in Notices : notice[n].state \in Claimable /\ notice[n].age # "early"}
  IN  /\ work[w].pc = "fetch"
      /\ (notice' = swept /\ UNCHANGED faults) \/ (Fault /\ UNCHANGED notice)
      /\ HoldWork(w, [work[w] EXCEPT !.pc = "next", !.items = due,
                                     !.tries = [n \in Notices |-> notice[n].tries]])
      /\ UNCHANGED <<prefVars, lease, accepted, mailed>>

\* The next mail, unless the worker is late.
NextMail(w) ==
  /\ work[w].pc = "next"
  /\ IF work[w].late \/ work[w].items = {}
       THEN GoWork(w, "release")
       ELSE \E n \in work[w].items :
              HoldWork(w, [work[w] EXCEPT !.pc = "claim", !.cur = n, !.items = @ \ {n}])
  /\ UNCHANGED <<prefVars, faults, notice, lease, accepted, mailed>>

Claimed(row) == [state |-> "sending", tries |-> row.tries + 1, age |-> "due"]

\* Variant: the update does not ask for the state of the row.
Claim_Blind(w) ==
  LET n == work[w].cur
  IN  /\ work[w].pc = "claim"
      /\ notice' = [notice EXCEPT ![n] = Claimed(@)]
      /\ GoWork(w, "prefs")
      /\ UNCHANGED <<prefVars, faults, lease, accepted, mailed>>

\* The row is claimed if it still waits, whatever was read of it before.
Claim(w) ==
  LET n == work[w].cur
  IN  /\ work[w].pc = "claim"
      /\ IF notice[n].state \in Claimable
           THEN notice' = [notice EXCEPT ![n] = Claimed(@)] /\ GoWork(w, "prefs")
           ELSE UNCHANGED notice /\ HoldWork(w, [work[w] EXCEPT !.pc = "next", !.cur = None])
      /\ UNCHANGED <<prefVars, faults, lease, accepted, mailed>>

\* Variant: mail is sent although the account has switched it off since.
ReadPreference_Blind(w) ==
  /\ work[w].pc = "prefs"
  /\ HoldWork(w, [work[w] EXCEPT !.pc = "send", !.to = pref[Owner[work[w].cur]]])
  /\ UNCHANGED <<prefVars, faults, notice, lease, accepted, mailed>>

\* The preference is read again before the mail is sent.
ReadPreference(w) ==
  LET p == pref[Owner[work[w].cur]]
  IN  /\ work[w].pc = "prefs"
      /\ IF Wanted(p) THEN HoldWork(w, [work[w] EXCEPT !.pc = "send", !.to = p])
         ELSE HoldWork(w, [work[w] EXCEPT !.pc = "record", !.result = "disabled"])
      /\ UNCHANGED <<prefVars, faults, notice, lease, accepted, mailed>>

\* The outcome of the attempt is known to the worker.
Outcome(w, result) ==
  HoldWork(w, [work[w] EXCEPT !.pc = "record", !.to = None, !.result = result])

\* Sender takes the mail.
Accept(w) ==
  LET n == work[w].cur
  IN  /\ accepted' = [accepted EXCEPT ![n] = @ + 1]
      /\ mailed' = mailed \cup {<<Owner[n], work[w].to.email>>}

\* The windows of alert mails, then sendMail.  Sender may refuse the mail, for
\* now (429, 5xx) or for good, and an account may have had its share.
Send(w) ==
  /\ work[w].pc = "send" /\ ~work[w].late
  /\ \/ Accept(w) /\ Outcome(w, "sent")
     \/ \E r \in {"throttled", "retry", "failed"} : Outcome(w, r) /\ UNCHANGED <<accepted, mailed>>
  /\ UNCHANGED <<prefVars, faults, notice, lease>>

\* Variant: an answer that does not come is a refusal.
SendUncertain_Failed(w) ==
  /\ work[w].pc = "send"
  /\ (work[w].late /\ UNCHANGED faults) \/ Fault
  /\ Accept(w) \/ UNCHANGED <<accepted, mailed>>
  /\ Outcome(w, "failed")
  /\ UNCHANGED <<prefVars, notice, lease>>

\* The answer is lost, or the four minutes ended on the way: nobody knows
\* whether Sender took the mail.
SendUncertain(w) ==
  /\ work[w].pc = "send"
  /\ (work[w].late /\ UNCHANGED faults) \/ Fault
  /\ Accept(w) \/ UNCHANGED <<accepted, mailed>>
  /\ Outcome(w, "uncertain")
  /\ UNCHANGED <<prefVars, notice, lease>>

\* MySQL does not give the preference, or Redis the windows (a late worker is
\* refused by its own context).
SendFails(w) ==
  /\ work[w].pc \in {"prefs", "send"}
  /\ (work[w].pc = "send" /\ work[w].late /\ UNCHANGED faults) \/ Fault
  /\ Outcome(w, "retry")
  /\ UNCHANGED <<prefVars, notice, lease, accepted, mailed>>

\* Variant: one attempt too many.
Recorded_Late(w) ==
  IF work[w].result = "retry" /\ work[w].tries[work[w].cur] >= MaxTries
    THEN "failed" ELSE work[w].result

\* What is recorded: the last attempt is not repeated.
Recorded(w) ==
  IF work[w].result = "retry" /\ work[w].tries[work[w].cur] + 1 >= MaxTries
    THEN "failed" ELSE work[w].result

\* The row takes the outcome, whatever happened to it since the claim.
Record(w) ==
  LET n == work[w].cur
  IN  /\ work[w].pc = "record"
      /\ notice' = [notice EXCEPT ![n].state = Recorded(w), ![n].age = "early"]
      /\ HoldWork(w, [work[w] EXCEPT !.pc = "next", !.cur = None, !.result = None])
      /\ UNCHANGED <<prefVars, faults, lease, accepted, mailed>>

\* MySQL fails on the claim or on the outcome, with or without effect; the
\* worker goes on with the next mail.
WriteFails(w) ==
  LET n == work[w].cur
  IN  /\ work[w].pc \in {"claim", "record"}
      /\ Fault
      /\ \/ UNCHANGED notice
         \/ /\ work[w].pc = "claim" /\ notice[n].state \in Claimable
            /\ notice' = [notice EXCEPT ![n] = Claimed(@)]
      /\ HoldWork(w, [work[w] EXCEPT !.pc = "next", !.cur = None, !.result = None])
      /\ UNCHANGED <<prefVars, lease, accepted, mailed>>

\* MySQL fails on an alert: no more of its account this time; or on the list:
\* nothing is delivered.
ListFails(w) ==
  /\ work[w].pc \in {"insert", "fetch"}
  /\ Fault
  /\ HoldWork(w, [work[w] EXCEPT !.pc = IF @ = "insert" THEN "check" ELSE "release",
                                 !.items = {n \in @ : Owner[n] # Owner[work[w].cur]},
                                 !.cur = None, !.to = None])
  /\ UNCHANGED <<prefVars, notice, lease, accepted, mailed>>

-----------------------------------------------------------------------------
\* The end of a round, of a lease and of a replica.

\* The lease is given back if it is still this worker's; Redis may fail.
Release(w) ==
  /\ work[w].pc = "release"
  /\ \/ lease' = (IF lease = w THEN None ELSE lease) /\ UNCHANGED faults
     \/ Fault /\ UNCHANGED lease
  /\ HoldWork(w, Asleep)
  /\ UNCHANGED <<prefVars, notice, accepted, mailed>>

\* The worker's four minutes are over: a round that slow counts as a failure.
WorkEnds(w) ==
  /\ work[w].pc # "idle" /\ ~work[w].late
  /\ Fault
  /\ HoldWork(w, [work[w] EXCEPT !.late = TRUE])
  /\ UNCHANGED <<prefVars, notice, lease, accepted, mailed>>

\* Variant: the lease has no time to live.
LeaseEnds_Never == FALSE

\* Five minutes after it was taken the lease ends, a minute after its holder
\* was told to.
LeaseEnds ==
  /\ lease # None
  /\ work[lease].pc = "idle" \/ work[lease].late
  /\ lease' = None
  /\ UNCHANGED <<prefVars, faults, notice, work, accepted, mailed>>

\* A row comes due, or gets old.
Age(n) ==
  /\ \/ notice[n].state \in Claimable /\ notice[n].age = "early"
     \/ notice[n].state = "sending" /\ notice[n].age = "due"
  /\ notice' = [notice EXCEPT ![n].age = IF @ = "early" THEN "due" ELSE "stale"]
  /\ UNCHANGED <<prefVars, faults, lease, work, accepted, mailed>>

\* A replica ends and another takes its place; the lease stays.
ReplicaEnds(w) ==
  /\ work[w].pc # "idle"
  /\ Fault
  /\ HoldWork(w, Asleep)
  /\ UNCHANGED <<prefVars, notice, lease, accepted, mailed>>

\* What a worker does in its round.
WorkStep(w) ==
  \/ TakeLease(w) \/ CheckAlert(w) \/ InsertNotice(w) \/ FetchMails(w) \/ NextMail(w)
  \/ Claim(w) \/ ReadPreference(w) \/ Send(w) \/ SendUncertain(w) \/ SendFails(w)
  \/ Record(w) \/ Release(w)

MailNext ==
  \/ PreferencesNext /\ UNCHANGED mailVars
  \/ \E w \in Replicas : WorkStep(w) \/ WriteFails(w) \/ ListFails(w) \/ WorkEnds(w) \/ ReplicaEnds(w)
  \/ LeaseEnds
  \/ \E n \in Notices : Age(n)

MailSpec == MailInit /\ [][MailNext]_allVars

\* A worker goes on to the end of its round and starts another one, a lease
\* ends, rows come due.
MailFairSpec ==
  /\ MailSpec
  /\ \A w \in Replicas : WF_allVars(WorkStep(w))
  /\ WF_allVars(LeaseEnds)
  /\ \A n \in Notices : WF_allVars(Age(n))
-----------------------------------------------------------------------------
\* Properties.

MailTypeOK ==
  /\ PreferencesTypeOK
  /\ notice \in [Notices -> NoticeRow]
  /\ lease \in Replicas \cup {None}
  /\ work \in [Replicas -> WorkRow]
  /\ accepted \in [Notices -> Nat]
  /\ mailed \subseteq Users \X Addresses
  /\ \A w \in Replicas :
       /\ work[w].pc \in {"insert", "claim", "prefs", "send", "record"} => work[w].cur \in Notices
       /\ work[w].pc \in {"insert", "send"} => work[w].to \in PrefRow
       /\ work[w].pc = "check" /\ work[w].cur # None => work[w].to \in PrefRow
       /\ work[w].pc = "send" => Wanted(work[w].to)
       /\ work[w].pc = "record" => work[w].result \in {"disabled", "sent", "throttled", "failed",
                                                      "retry", "uncertain"}

\* Sender never takes the mail of a notice twice, whatever crashes, answers are
\* lost or workers overlap.
AtMostOnce == \A n \in Notices : accepted[n] <= 1

\* A notice recorded as sent was taken by Sender, and one that was taken is
\* never recorded as refused.
StateTellsTruth ==
  \A n \in Notices :
    /\ notice[n].state = "sent" => accepted[n] = 1
    /\ accepted[n] = 1 => notice[n].state \in {"sending", "uncertain", "sent"}

\* Mail only goes to addresses their account has proved to read.
MailedToOwn == \A m \in mailed : m[2] \in Own[m[1]]

\* From the drawing of a code to the mails of the worker: nobody proves, or is
\* sent mail at, an address that is not the account's.
AddressesAreOwn == VerifiedIsOwn /\ MailedToOwn

\* What is settled stays as it is.
FinalStays ==
  [][\A n \in Notices : notice[n].state \in Final => notice'[n].state = notice[n].state]_allVars

\* A mail is tried MaxTries times at most, but for one more with each failure:
\* a worker compares the attempts it read before the claim.
TriesBounded == \A n \in Notices : notice[n].tries <= MaxTries + faults

\* No mail waits for ever, and none stays claimed by a worker that is gone.
EveryMailSettles ==
  \A n \in Notices :
    notice[n].state \in Claimable \cup {"sending"} ~> notice[n].state \in Final \cup {"uncertain"}
=============================================================================
