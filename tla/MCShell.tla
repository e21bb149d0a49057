------------------------------ MODULE MCShell -------------------------------
(* The documents of one browser; or two consoles that edit a page form or a  *)
(* dialog.  Records meet only in the one form a console has open, so such a  *)
(* behaviour is about one record, in focus; attempts to save are numbered in *)
(* the order in which they are made and each has a value of its own; time    *)
(* passes while one is on its way, and only the first may be lost.           *)
EXTENDS Shell

CONSTANTS d1, u1, u2, s1, s2, s3, a1, a2, page, dialog, v1, v2

VARIABLE focus

mcVars == <<documentVars, formVars, focus>>

\* Sessions are given out in their order, the first to u1.
DocumentsStep ==
  /\ DocumentsNext
  /\ holder'[s1] # u2
  /\ holder'[s2] # Nobody => holder'[s1] # Nobody
  /\ holder'[s3] # Nobody => holder'[s2] # Nobody

\* Consoles are alike: the one that saves first is a1.
FormsStep ==
  /\ FormsNext
  /\ now' # now => \E i \in Saves : save[i].stage = "sent"
  /\ \A a \in Admins, k \in Records \ {focus} : answer'[a][k] = None
  \* Answers to reads are on their way one at a time.
  /\ answer'[a1][focus] = None \/ answer'[a2][focus] = None
  /\ save'[1] = Unused => \A a \in Admins : form'[a] # None /\ form'[a].value = v2 => a = a1
  /\ \A i, j \in Saves : i < j /\ save'[j] # Unused => save'[i] # Unused
  /\ save'[1] # Unused => save'[1].value = v2 /\ save'[1].admin = a1
  /\ save'[2] # Unused => save'[2].value = v1 /\ save'[2].stage # "lost"

MCInit ==
  /\ DocumentsInit /\ FormsInit
  /\ focus \in Records \cup {"documents"}
  /\ \A k \in Records : row[k].value = v1

MCNext ==
  /\ UNCHANGED focus
  /\ \/ focus = "documents" /\ DocumentsStep /\ UNCHANGED formVars
     \/ focus # "documents" /\ FormsStep /\ UNCHANGED documentVars

MCSpec == MCInit /\ [][MCNext]_mcVars /\ DocumentsFairness
=============================================================================
