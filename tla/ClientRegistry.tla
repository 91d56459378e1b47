---------------------------- MODULE ClientRegistry ----------------------------
(***************************************************************************)
(* What the IdP Connect API promises its caller, the portal: POST          *)
(* /applications creates one OAuth client at the identity provider, DELETE *)
(* /applications/{id} removes one, and the status code tells which of the  *)
(* two happened.  The connectors implement this; they differ in what a     *)
(* client is and in which keys select it.                                  *)
(*                                                                         *)
(* A client appears or disappears in one step, some time after the request *)
(* was received.  Only a request that was answered 500, or that was        *)
(* dropped with its connection, leaves open whether it had its effect, and *)
(* may still have it later.                                                *)
(***************************************************************************)
CONSTANTS
  Requests,     \* requests of the portal, each sent once
  Clients,      \* clients that can ever be registered at the provider
  Keys,         \* values of "id" in a request
  NoKey,        \* the empty id
  NameOf,       \* NameOf[c]: the id client c is created for
  KeysOf,       \* KeysOf[c]: the ids a delete of client c can go by
  Preexisting   \* clients registered before the first request

ASSUME RegistryAssumption ==
  /\ NoKey \in Keys
  /\ NameOf \in [Clients -> Keys \ {NoKey}]
  /\ KeysOf \in [Clients -> SUBSET (Keys \ {NoKey})]
  /\ Preexisting \subseteq Clients

VARIABLES
  registry,   \* clients registered at the provider
  request,    \* what each request asks for
  witnessed,  \* clients its id selected when a request was received
  effect,     \* clients a request has created or removed
  answer,     \* how each request ended
  absent      \* history: deletes whose id selected no client at some moment
              \* while they were pending

vars == <<registry, request, witnessed, effect, answer, absent>>

NoRequest == [kind |-> "none", key |-> NoKey]
Request == [kind : {"create", "delete"}, key : Keys]
Codes == {"201", "204", "400", "404", "500"}

Asks(r, kind) == request[r].kind = kind
Created == UNION {effect[r] : r \in {q \in Requests : Asks(q, "create")}}
Removed == UNION {effect[r] : r \in {q \in Requests : Asks(q, "delete")}}

Selected(key) == {c \in registry : key \in KeysOf[c]}

\* Received, and its connection is still open.
Pending(r) == request[r] # NoRequest /\ answer[r] = "none"
\* A pending delete for whose id there is no client now: that becomes true when
\* it is received or when a client is removed, and is recorded then.
Unmatched(r) == Asks(r, "delete") /\ answer[r] = "none" /\ Selected(request[r].key) = {}
Observe == absent' = absent \cup {r \in Requests : Unmatched(r)'}
\* Its effect may come yet.
Open(r) == answer[r] \in {"none", "500", "dropped"} /\ effect[r] = {}

Init ==
  /\ registry = Preexisting
  /\ request = [r \in Requests |-> NoRequest]
  /\ witnessed = [r \in Requests |-> {}]
  /\ effect = [r \in Requests |-> {}]
  /\ answer = [r \in Requests |-> "none"]
  /\ absent = {}

------------------------------------------------------------------------------
\* Mutant: the id is kept, and what it was for is not.
ReceiveIdOnly(r, q) ==
  /\ request[r] = NoRequest
  /\ request' = [request EXCEPT ![r].key = q.key]
  /\ UNCHANGED <<registry, witnessed, effect, answer, absent>>

Receive(r, q) ==
  /\ request[r] = NoRequest
  /\ request' = [request EXCEPT ![r] = q]
  /\ witnessed' = [witnessed EXCEPT ![r] = Selected(q.key)]
  /\ UNCHANGED <<registry, effect, answer>>
  /\ Observe

(* A client that never existed before is registered for the id of r. *)
Register(r, c) ==
  /\ Asks(r, "create") /\ Open(r)
  /\ request[r].key = NameOf[c]
  /\ c \notin Preexisting \cup Created
  /\ registry' = registry \cup {c}
  /\ effect' = [effect EXCEPT ![r] = {c}]
  /\ UNCHANGED <<request, witnessed, answer, absent>>

Remove(r, c) ==
  /\ Asks(r, "delete") /\ Open(r)
  /\ c \in Selected(request[r].key)
  /\ registry' = registry \ {c}
  /\ effect' = [effect EXCEPT ![r] = {c}]
  /\ UNCHANGED <<request, witnessed, answer>>
  /\ Observe

\* Mutant: any client that is not deleted counts as not found.
VouchedNaive(r, code) ==
  \/ code = "201" /\ Asks(r, "create") /\ effect[r] # {}
  \/ code = "204" /\ Asks(r, "delete") /\ effect[r] # {}
  \/ code = "400" /\ Asks(r, "create") /\ effect[r] = {}
  \/ code = "404" /\ Asks(r, "delete") /\ effect[r] = {}
  \/ code = "500"

(* The response codes of openapi.yaml and what each of them vouches for. *)
Vouched(r, code) ==
  \/ code = "201" /\ Asks(r, "create") /\ effect[r] # {}
  \/ code = "204" /\ Asks(r, "delete") /\ effect[r] # {}
  \/ code = "400" /\ Asks(r, "create") /\ effect[r] = {}
  \/ code = "404" /\ Asks(r, "delete") /\ effect[r] = {} /\ r \in absent
  \/ code = "500"

Answer(r, code) ==
  /\ Pending(r)
  /\ Vouched(r, code)
  /\ answer' = [answer EXCEPT ![r] = code]
  /\ UNCHANGED <<registry, request, witnessed, effect, absent>>

(* Connections are lost: the portal gives up, or the connector goes down. *)
Drop(lost) ==
  /\ lost # {} /\ \A r \in lost : Pending(r)
  /\ answer' = [r \in Requests |-> IF r \in lost THEN "dropped" ELSE answer[r]]
  /\ UNCHANGED <<registry, request, witnessed, effect, absent>>

Next ==
  \/ \E r \in Requests :
       \/ \E q \in Request : Receive(r, q)
       \/ \E c \in Clients : Register(r, c) \/ Remove(r, c)
       \/ \E code \in Codes : Answer(r, code)
  \/ \E lost \in SUBSET Requests : Drop(lost)

Spec == Init /\ [][Next]_vars

------------------------------------------------------------------------------
(* Every variable keeps its type. *)
TypeOK ==
  /\ registry \subseteq Clients
  /\ request \in [Requests -> Request \cup {NoRequest}]
  /\ witnessed \in [Requests -> SUBSET Clients]
  /\ effect \in [Requests -> SUBSET Clients]
  /\ answer \in [Requests -> Codes \cup {"none", "dropped"}]
  /\ absent \subseteq Requests

(* The provider holds the clients it started with and those the requests     *)
(* created, less those the requests removed: nothing else comes or goes, and *)
(* what was removed never comes back.                                        *)
Accounted == registry = (Preexisting \cup Created) \ Removed

(* A client that was there is missing only if a delete that asked for it, by *)
(* an id that stands for it, has removed it: whatever is left half done by   *)
(* requests that failed or were dropped, nobody else's client goes.          *)
LossesAskedFor ==
  \A c \in (Preexisting \cup Created) \ registry :
    \E r \in Requests : Asks(r, "delete") /\ request[r].key \in KeysOf[c] /\ effect[r] = {c}

(* Two requests never claim the same client: two deletes of one client are   *)
(* not both answered 204 for it, and two creates do not hand out one client. *)
EffectsDistinct ==
  \A r, s \in Requests :
    r # s /\ request[r].kind = request[s].kind => effect[r] \cap effect[s] = {}

(* The status code tells the truth for good, whatever other requests do      *)
(* later: 201 and 204 stand for exactly one client, created for the id of    *)
(* the request or removed by it; 400 and 404 mean that the request has no    *)
(* effect, not even after the answer; and a 404 was true of the whole        *)
(* provider at one moment between the request and the answer, so that no     *)
(* client the id selected when the delete came in outlives it.               *)
AnswersHold ==
  \A r \in Requests :
    /\ answer[r] = "201" => \E c \in Clients : effect[r] = {c} /\ request[r].key = NameOf[c]
    /\ answer[r] = "204" => \E c \in Clients : effect[r] = {c} /\ request[r].key \in KeysOf[c]
    /\ answer[r] \in {"400", "404"} => effect[r] = {}
    /\ answer[r] = "404" => r \in absent /\ witnessed[r] \cap registry = {}
==============================================================================
