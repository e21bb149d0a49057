----------------------------- MODULE Reference -----------------------------
(* The API reference tries an endpoint with a key of the owner: the request  *)
(* goes to the gateway like any other and is charged there.  The document of *)
(* an endpoint, with all its form holds, is mounted for as long as the       *)
(* address names it and the catalog is there.                                *)
EXTENDS Naturals

CONSTANTS
  Endpoints,  \* the catalog
  Posting,    \* those with a body, which has to be an object
  Guide,      \* an address that names no endpoint; another page of the console too
  Keys,       \* what can be entered as the key
  NoKey,
  MaxCalls    \* bound on the requests that are sent

ASSUME ReferenceAssumption ==
  /\ Posting \subseteq Endpoints
  /\ Guide \notin Endpoints
  /\ NoKey \notin Keys
  /\ MaxCalls \in Nat

Calls == 1 .. MaxCalls

VARIABLES
  catalog,  \* the copy in the query cache: which endpoints can be tried
  there,    \* it was read, and the last read did not fail
  hash,     \* what the address names
  key,      \* the key that is entered
  whole,    \* the body that is entered is an object
  trying,  \* the explorer waits
  error,    \* what it says below the form
  result,   \* the call whose answer it shows
  calls,    \* the requests in the order in which they were sent
  entered   \* which keys were entered for which endpoints

referenceVars == <<catalog, there, hash, key, whole, trying, error, result, calls, entered>>

NoAnswer == 0
NotMade == [heard |-> "none"]

\* live: the explorer that sent it is still mounted.  served: what the gateway
\* made of it.  heard: what came of it in the browser.
ExplorerCall ==
  [endpoint : Endpoints, key : Keys, live : BOOLEAN, served : {"not", "charged", "refused"},
   heard : {"waiting", "answered", "timeout", "network"}]
Made(i) == calls[i] # NotMade

ReferenceInit ==
  /\ catalog = {} /\ there = FALSE
  /\ hash \in Endpoints \cup {Guide}
  /\ key = NoKey /\ whole = TRUE
  /\ trying = FALSE /\ error = "none" /\ result = NoAnswer
  /\ calls = [i \in Calls |-> NotMade]
  /\ entered = {}

---------------------------------------------------------------------------
(* The document. *)

\* EndpointReference is there: neither a guide, nor loading, nor an error.
Exploring == hash # Guide /\ there

\* It goes with its state; a request of it under way is not cancelled.
Unmount ==
  /\ key' = NoKey /\ whole' = TRUE
  /\ trying' = FALSE /\ error' = "none" /\ result' = NoAnswer
  /\ calls' = [i \in Calls |-> IF Made(i) THEN [calls[i] EXCEPT !.live = FALSE] ELSE NotMade]

\* Variant: the document stays when another endpoint is chosen.
Follow_NoKey(h) ==
  /\ h # hash
  /\ hash' = h
  /\ UNCHANGED <<catalog, there, key, whole, trying, error, result, calls, entered>>

\* A link of the directory, a related endpoint, the history of the browser: the
\* document is keyed by the path.
Follow(h) ==
  /\ h # hash
  /\ hash' = h
  /\ Unmount
  /\ UNCHANGED <<catalog, there, entered>>

\* The first read, one of a stale catalog, one when the connection is back.
CatalogRead ==
  /\ catalog' \in SUBSET Endpoints
  /\ there' = TRUE
  /\ UNCHANGED <<hash, key, whole, trying, error, result, calls, entered>>

\* An error takes the place of the page, also where a catalog was read before.
CatalogFails ==
  /\ there' = FALSE
  /\ Unmount
  /\ UNCHANGED <<catalog, hash, entered>>

---------------------------------------------------------------------------
(* The form; it can be changed while a request is under way. *)

EnterKey(k) ==
  /\ Exploring
  /\ k # key
  /\ key' = k
  /\ entered' = IF k = NoKey THEN entered ELSE entered \cup {<<hash, k>>}
  /\ UNCHANGED <<catalog, there, hash, whole, trying, error, result, calls>>

EditBody ==
  /\ Exploring
  /\ hash \in Posting
  /\ whole' = ~ whole
  /\ UNCHANGED <<catalog, there, hash, key, trying, error, result, calls, entered>>

\* send(): what was shown goes; a body that is no object goes nowhere.
Try ==
  /\ Exploring
  /\ ~ trying /\ key # NoKey /\ hash \in catalog
  /\ result' = NoAnswer
  /\ IF hash \in Posting /\ ~ whole
     THEN error' = "input" /\ UNCHANGED <<trying, calls>>
     ELSE /\ \E i \in Calls :
               /\ ~ Made(i) /\ \A j \in Calls : j < i => Made(j)
               /\ calls' = [calls EXCEPT ![i] =
                    [endpoint |-> hash, key |-> key, live |-> TRUE,
                     served |-> "not", heard |-> "waiting"]]
          /\ error' = "none"
          /\ trying' = TRUE
  /\ UNCHANGED <<catalog, there, hash, key, whole, entered>>

---------------------------------------------------------------------------
(* The request. *)

\* The gateway charges it or refuses, even if nobody waits any longer.
Serve(i) ==
  /\ Made(i) /\ calls[i].served = "not"
  /\ \E outcome \in {"charged", "refused"} : calls' = [calls EXCEPT ![i].served = outcome]
  /\ UNCHANGED <<catalog, there, hash, key, whole, trying, error, result, entered>>

\* The answer with its body.
Answer(i) ==
  /\ Made(i) /\ calls[i].heard = "waiting" /\ calls[i].served # "not"
  /\ calls' = [calls EXCEPT ![i].heard = "answered"]
  /\ IF calls[i].live
     THEN result' = i /\ trying' = FALSE
     ELSE UNCHANGED <<result, trying>>
  /\ UNCHANGED <<catalog, there, hash, key, whole, error, entered>>

\* The connection breaks, or the 90 seconds are over, before or after the
\* gateway has charged.
GiveUp(i) ==
  /\ Made(i) /\ calls[i].heard = "waiting"
  /\ \E why \in {"timeout", "network"} :
       /\ calls' = [calls EXCEPT ![i].heard = why]
       /\ error' = IF calls[i].live THEN why ELSE error
  /\ trying' = (trying /\ ~ calls[i].live)
  /\ UNCHANGED <<catalog, there, hash, key, whole, result, entered>>

ReferenceNext ==
  \/ \E h \in Endpoints \cup {Guide} : Follow(h)
  \/ CatalogRead \/ CatalogFails
  \/ \E k \in Keys \cup {NoKey} : EnterKey(k)
  \/ EditBody \/ Try
  \/ \E i \in Calls : Serve(i) \/ Answer(i) \/ GiveUp(i)

ReferenceSpec == ReferenceInit /\ [][ReferenceNext]_referenceVars

---------------------------------------------------------------------------
(* The type; what the explorer holds goes with it. *)
ReferenceTypeOK ==
  /\ catalog \in SUBSET Endpoints
  /\ there \in BOOLEAN
  /\ hash \in Endpoints \cup {Guide}
  /\ key \in Keys \cup {NoKey}
  /\ whole \in BOOLEAN /\ trying \in BOOLEAN
  /\ error \in {"none", "input", "timeout", "network"}
  /\ result \in Calls \cup {NoAnswer}
  /\ calls \in [Calls -> ExplorerCall \cup {NotMade}]
  /\ entered \subseteq Endpoints \X Keys
  /\ ~ Exploring => key = NoKey /\ ~ trying /\ error = "none" /\ result = NoAnswer

\* The requests of the explorer that is mounted.
Mine == {i \in Calls : Made(i) /\ calls[i].live}

\* What is below the form is what came of i; a body that could not be sent
\* since has taken its place.
Tells(i) ==
  \/ calls[i].heard = "waiting" /\ result = NoAnswer /\ error = "none"
  \/ calls[i].heard = "answered" /\ result = i /\ error = "none"
  \/ calls[i].heard \in {"timeout", "network"} /\ result = NoAnswer /\ error = calls[i].heard
  \/ calls[i].heard # "waiting" /\ result = NoAnswer /\ error = "input"

(* A key goes only to endpoints it was entered for, though the form is used  *)
(* for all of them.  And the explorer tells what came of its last request:   *)
(* the answer it shows is that of the last one, made for the endpoint of the *)
(* page, and not one of an endpoint that was left; it waits for that one as  *)
(* long as nothing came of it, and for no other; and that it was charged is  *)
(* not passed over: until the next click the page shows the answer, or says  *)
(* that it did not come.                                                     *)
ExplorerTells ==
  /\ \A i \in Calls : Made(i) => <<calls[i].endpoint, calls[i].key>> \in entered
  /\ result # NoAnswer => result \in Mine
  /\ trying <=> \E i \in Mine : calls[i].heard = "waiting"
  /\ \A i \in Mine :
       /\ calls[i].endpoint = hash
       /\ IF \E j \in Mine : j > i THEN calls[i].heard # "waiting" /\ result # i ELSE Tells(i)
=============================================================================
