------------------------------ MODULE MCWorker ------------------------------
(* Two of the worker's duties, one at a time as neither touches what the      *)
(* other one is about: the mails of one account that reads one of two         *)
(* mailboxes, or the devices of a user with two browsers.                     *)
EXTENDS Mail

CONSTANTS u1, a1, a2, n1, h1, h2, w1, w2, p1, p2, s1, s2, Worker

VARIABLES sso, key, store, index, lock, seen, device, spared, failures, at, focus

Grants == INSTANCE Sessions WITH
  Sids <- {p1, p2}, Owner <- [p \in {p1, p2} |-> u1], Sessions <- {s1, s2},
  Handlers <- {h1}, Deliveries <- {}, Batch <- 2, MaxKey <- 1, MaxFaults <- 2,
  faults <- failures

grantVars == <<sso, key, store, index, lock, seen, device, spared, failures, at>>
mcVars == <<allVars, grantVars, focus>>

OneReader == [u \in Users |-> {a1}]
OneOwner == [n \in Notices |-> u1]

\* Both browsers have signed in already.
TwoBrowsers ==
  /\ sso = {p1, p2}
  /\ key = [s \in {s1, s2} |-> 1]
  /\ store = [s \in {s1, s2} |-> [sid |-> IF s = s1 THEN p1 ELSE p2, rt |-> 1, due |-> FALSE]]
  /\ index = [u \in Users |-> {s1, s2}]
  /\ lock = {}
  /\ seen = {}
  /\ device = [s \in {s1, s2} |-> [user |-> u1, revoked |-> FALSE]]
  /\ spared = {}
  /\ failures = 0
  /\ at = [x \in {h1, Worker} |-> Grants!Idle]

MCInit == MailInit /\ TwoBrowsers /\ focus \in {"mails", "devices"}

\* The two requests about an address are alike: h1 is the first.
MailsStep == MailNext /\ (tab'[h2].pc # "idle" => tab'[h1].pc # "idle")

MCNext ==
  /\ UNCHANGED focus
  /\ \/ focus = "mails" /\ MailsStep /\ UNCHANGED grantVars
     \/ focus = "devices" /\ Grants!SessionsNext /\ UNCHANGED allVars

\* The fairness of MailFairSpec where mails are about, and that of the retry,
\* which is idle as long as nothing is revoked.
MCSpec ==
  /\ MCInit
  /\ [][MCNext]_mcVars
  /\ \A w \in Replicas : WF_allVars(focus = "mails" /\ WorkStep(w))
  /\ WF_allVars(focus = "mails" /\ LeaseEnds)
  /\ \A n \in Notices : WF_allVars(focus = "mails" /\ Age(n))
  /\ WF_grantVars(Grants!WorkerStep)

\* A revoked device loses its tokens in the end, and its provider session ends
\* before them, whatever fails twice in the request or in the retry: one of the
\* two browsers, as the other one is alike.
RevokedIsCleared == Grants!Cleared(s2, p2)
=============================================================================
