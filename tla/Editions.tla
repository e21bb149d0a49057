------------------------------ MODULE Editions ------------------------------
(* What the optimistic saves of the console promise, without time stamps,    *)
(* caches or forms.  A record has editions, counted from zero.  A proposal   *)
(* names the edition its author started from; it is accepted only while that *)
(* is still the current one, and at most once.                               *)
EXTENDS Naturals

CONSTANTS
  Records,    \* the records that are saved with a check
  Values,     \* what a record can hold
  Proposals   \* each stands for one attempt to save

VARIABLES
  content,    \* what a record holds
  edition,    \* how often it was replaced
  proposal    \* the attempts

editionVars == <<content, edition, proposal>>

NotMade == [stage |-> "none"]
Decided == [stage |-> "decided"]

EditionsInit ==
  /\ content \in [Records -> Values]
  /\ edition = [k \in Records |-> 0]
  /\ proposal = [i \in Proposals |-> NotMade]

\* Someone who has seen edition b of a record asks to replace it.
Propose(i, k, v, b) ==
  /\ proposal[i] = NotMade
  /\ proposal' = [proposal EXCEPT
       ![i] = [stage |-> "open", record |-> k, value |-> v, base |-> b]]
  /\ UNCHANGED <<content, edition>>

\* The replacement: nothing has come between what was seen and what is written.
Accept(i) ==
  /\ proposal[i].stage = "open"
  /\ LET p == proposal[i]
     IN /\ p.base = edition[p.record]
        /\ content' = [content EXCEPT ![p.record] = p.value]
        /\ edition' = [edition EXCEPT ![p.record] = @ + 1]
  /\ proposal' = [proposal EXCEPT ![i] = Decided]

\* A conflict, or a request that never arrived.
Refuse(i) ==
  /\ proposal[i].stage = "open"
  /\ proposal' = [proposal EXCEPT ![i] = Decided]
  /\ UNCHANGED <<content, edition>>

EditionsNext ==
  \E i \in Proposals :
    \/ \E k \in Records, v \in Values : \E b \in 0 .. edition[k] : Propose(i, k, v, b)
    \/ Accept(i)
    \/ Refuse(i)

EditionsSpec == EditionsInit /\ [][EditionsNext]_editionVars
=============================================================================
