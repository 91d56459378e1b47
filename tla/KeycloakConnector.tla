--------------------------- MODULE KeycloakConnector ---------------------------
(***************************************************************************)
(* The request handlers of the Keycloak connector and the realm they       *)
(* manage.  Every request runs in a goroutine of its own; requests meet    *)
(* only in the realm.                                                      *)
(*                                                                         *)
(* A client has an internal id, here the request whose call registered it, *)
(* and a name (Keycloak's clientId), the id of the portal's request.  A    *)
(* delete looks the name up and then deletes by internal id, in two calls. *)
(*                                                                         *)
(* The call that changes the realm is kept apart from the handler that     *)
(* waits for it: the exchange can fail here (timeout of a gateway, broken  *)
(* connection, no token) and the call still be carried out later, or never.*)
(* The handlers ignore the context of the request: that the portal gives   *)
(* up changes nothing.                                                     *)
(***************************************************************************)
EXTENDS Integers, FiniteSets

CONSTANTS
  Requests,     \* requests of the portal, each sent once
  Others,       \* internal ids of clients the connector did not register
  Names,        \* names of clients
  NoName,       \* the empty id
  Preexisting   \* clients of the realm at the start

Clients == [uid : Requests \cup Others, name : Names]

ASSUME KeycloakAssumption ==
  /\ NoName \notin Names
  /\ Preexisting \subseteq [uid : Others \ Requests, name : Names]
  /\ \A c, d \in Preexisting : c.name = d.name => c = d

VARIABLES
  realm,      \* clients of the realm
  request,    \* what each request asks for
  pc,         \* where its handler is
  found,      \* clients the lookup of a delete returned
  call,       \* the call of each request that changes the realm
  witnessed,  \* history: clients of that name when the request was received
  effect,     \* history: clients the request created or removed
  answer,     \* status code sent to the portal
  absent,     \* history: deletes for whose name there was no client at some
              \* moment while they were pending
  misread     \* history: requests whose handler took a reply for Keycloak's
              \* answer that was none

vars == <<realm, request, pc, found, call, witnessed, effect, answer, absent, misread>>

NoRequest == [kind |-> "none", key |-> NoName]
Request == [kind : {"create", "delete"}, key : Names \cup {NoName}]

Named(name) == {c \in realm : c.name = name}
Active(r) == pc[r] \notin {"idle", "over"}

\* A pending delete for whose name there is no client now: that becomes true
\* when it is received or when a client is deleted, and is recorded then.
Unmatched(r) ==
  request[r].kind = "delete" /\ answer[r] = "none" /\ Named(request[r].key) = {}
Observe == absent' = absent \cup {r \in Requests : Unmatched(r)'}

Goto(r, place) == pc' = [pc EXCEPT ![r] = place]
Reply(r, code) == Goto(r, "over") /\ answer' = [answer EXCEPT ![r] = code]
Send(r) == call' = [call EXCEPT ![r] = "sent"]

Init ==
  /\ realm = Preexisting
  /\ request = [r \in Requests |-> NoRequest]
  /\ pc = [r \in Requests |-> "idle"]
  /\ found = [r \in Requests |-> {}]
  /\ call = [r \in Requests |-> "none"]
  /\ witnessed = [r \in Requests |-> {}]
  /\ effect = [r \in Requests |-> {}]
  /\ answer = [r \in Requests |-> "none"]
  /\ absent = {}
  /\ misread = {}

Receive(r, q) ==
  /\ pc[r] = "idle"
  /\ request' = [request EXCEPT ![r] = q]
  /\ Goto(r, q.kind)
  /\ witnessed' = [witnessed EXCEPT ![r] = Named(q.key)]
  /\ UNCHANGED <<realm, found, call, effect, answer, misread>>
  /\ Observe

------------------------------------------------------------------------------
(* CreateOAuthApplication *)

RefuseCreate(r) ==
  /\ pc[r] = "create"
  /\ request[r].key = NoName
  /\ Reply(r, "400")
  /\ UNCHANGED <<realm, request, found, call, witnessed, effect, absent, misread>>

PostClient(r) ==
  /\ pc[r] = "create"
  /\ request[r].key # NoName
  /\ Goto(r, "posting")
  /\ Send(r)
  /\ UNCHANGED <<realm, request, found, witnessed, effect, answer, absent, misread>>

(* Mutant: a refused create is sent again. *)
FinishCreateRetry(r) ==
  /\ pc[r] = "posting"
  /\ \/ call[r] = "done" /\ Reply(r, "201") /\ UNCHANGED call
     \/ call[r] = "refused" /\ Send(r) /\ UNCHANGED <<pc, answer>>
  /\ UNCHANGED <<realm, request, found, witnessed, effect, absent, misread>>

FinishCreate(r) ==
  /\ pc[r] = "posting"
  /\ \/ call[r] = "done" /\ Reply(r, "201")
     \/ call[r] = "refused" /\ Reply(r, "500")
  /\ UNCHANGED <<realm, request, found, call, witnessed, effect, absent, misread>>

------------------------------------------------------------------------------
(* DeleteOAuthApplication *)

RefuseDelete(r) ==
  /\ pc[r] = "delete"
  /\ request[r].key = NoName
  /\ Reply(r, "404")
  /\ UNCHANGED <<realm, request, found, call, witnessed, effect, absent, misread>>

(* Mutant: the query does not name the client. *)
LookUpAll(r) ==
  /\ pc[r] = "delete"
  /\ request[r].key # NoName
  /\ found' = [found EXCEPT ![r] = realm]
  /\ Goto(r, "found")
  /\ UNCHANGED <<realm, request, call, witnessed, effect, answer, absent, misread>>

(* GET clients?clientId=...: Keycloak evaluates the query ... *)
LookUp(r) ==
  /\ pc[r] = "delete"
  /\ request[r].key # NoName
  /\ found' = [found EXCEPT ![r] = Named(request[r].key)]
  /\ Goto(r, "found")
  /\ UNCHANGED <<realm, request, call, witnessed, effect, answer, absent, misread>>

(* ... and the handler acts on the list when it arrives; one that was not    *)
(* decoded is empty (Misread).                                               *)
Resolve(r) ==
  /\ pc[r] = "found"
  /\ \/ /\ found[r] = {}
        /\ Reply(r, "404")
        /\ UNCHANGED call
     \/ /\ Cardinality(found[r]) > 1
        /\ Reply(r, "500")
        /\ UNCHANGED call
     \/ /\ Cardinality(found[r]) = 1
        /\ Goto(r, "deleting")
        /\ Send(r)
        /\ UNCHANGED answer
  /\ UNCHANGED <<realm, request, found, witnessed, effect, absent, misread>>

(* Mutant: a deletion is answered 200. *)
FinishDelete200(r) ==
  /\ pc[r] = "deleting"
  /\ \/ call[r] = "done" /\ Reply(r, "200")
     \/ call[r] = "missing" /\ Reply(r, "404")
  /\ UNCHANGED <<realm, request, found, call, witnessed, effect, absent, misread>>

(* Mutant: a client that is gone already counts as deleted. *)
FinishDeleteIdempotent(r) ==
  /\ pc[r] = "deleting"
  /\ call[r] \in {"done", "missing"}
  /\ Reply(r, "204")
  /\ UNCHANGED <<realm, request, found, call, witnessed, effect, absent, misread>>

FinishDelete(r) ==
  /\ pc[r] = "deleting"
  /\ \/ call[r] = "done" /\ Reply(r, "204")
     \/ call[r] = "missing" /\ Reply(r, "404")
  /\ UNCHANGED <<realm, request, found, call, witnessed, effect, absent, misread>>

------------------------------------------------------------------------------
(* Mutant: every failure of a delete is answered 404. *)
CallFailsNotFound(r) ==
  /\ \/ pc[r] = "posting" /\ Reply(r, "500")
     \/ pc[r] \in {"found", "deleting"} /\ Reply(r, "404")
  /\ UNCHANGED <<realm, request, found, call, witnessed, effect, absent, misread>>

(* The exchange fails, whether or not the realm has changed: no token, no    *)
(* connection, no response, a body that does not parse, an error status.     *)
CallFails(r) ==
  /\ \/ pc[r] \in {"posting", "found", "deleting"}
     \/ pc[r] \in {"create", "delete"} /\ request[r].key # NoName
  /\ Reply(r, "500")
  /\ UNCHANGED <<realm, request, found, call, witnessed, effect, absent, misread>>

(* The handlers look at the status alone.  A reply that says nothing of the  *)
(* realm, because it is a gateway's or because resty does not decode its     *)
(* body, passes for an empty list, a registration, a deletion or, by a       *)
(* gateway's 404, for a client that is gone.  Where that happens to be so it *)
(* makes no difference.                                                      *)
Misread(r) ==
  /\ \/ /\ pc[r] = "delete" /\ Named(request[r].key) # {}
        /\ found' = [found EXCEPT ![r] = {}]
        /\ Goto(r, "found")
        /\ UNCHANGED answer
     \/ pc[r] = "posting" /\ call[r] # "done" /\ Reply(r, "201") /\ UNCHANGED found
     \/ pc[r] = "deleting" /\ call[r] # "done" /\ Reply(r, "204") /\ UNCHANGED found
     \/ pc[r] = "deleting" /\ call[r] # "missing" /\ Reply(r, "404") /\ UNCHANGED found
  /\ misread' = misread \cup {r}
  /\ UNCHANGED <<realm, request, call, witnessed, effect, absent>>

(* Keycloak carries out a call that registers a client; names are unique. *)
RealmCreate(r) ==
  /\ request[r].kind = "create"
  /\ call[r] = "sent"
  /\ LET client == [uid |-> r, name |-> request[r].key]
     IN  IF Named(client.name) = {}
         THEN /\ realm' = realm \cup {client}
              /\ effect' = [effect EXCEPT ![r] = {client}]
              /\ call' = [call EXCEPT ![r] = "done"]
         ELSE /\ call' = [call EXCEPT ![r] = "refused"]
              /\ UNCHANGED <<realm, effect>>
  /\ UNCHANGED <<request, pc, found, witnessed, answer, absent, misread>>

(* Keycloak carries out a call that deletes a client by internal id. *)
RealmDelete(r) ==
  /\ request[r].kind = "delete"
  /\ call[r] = "sent"
  /\ UNCHANGED <<request, pc, found, witnessed, answer, misread>>
  /\ IF found[r] \subseteq realm
     THEN /\ realm' = realm \ found[r]
          /\ effect' = [effect EXCEPT ![r] = found[r]]
          /\ call' = [call EXCEPT ![r] = "done"]
          /\ Observe
     ELSE /\ call' = [call EXCEPT ![r] = "missing"]
          /\ UNCHANGED <<realm, effect, absent>>

(* Handlers end without an answer: their process ends and the deployment     *)
(* starts a new one, which may already serve others and knows nothing of     *)
(* them; or the hook of one of them panics for want of a token.              *)
Restart(lost) ==
  /\ lost # {} /\ \A r \in lost : Active(r)
  /\ pc' = [r \in Requests |-> IF r \in lost THEN "over" ELSE pc[r]]
  /\ answer' = [r \in Requests |-> IF r \in lost THEN "dropped" ELSE answer[r]]
  /\ UNCHANGED <<realm, request, found, call, witnessed, effect, absent, misread>>

Handle(r) ==
  \/ RefuseCreate(r) \/ PostClient(r) \/ FinishCreate(r)
  \/ RefuseDelete(r) \/ LookUp(r) \/ Resolve(r) \/ FinishDelete(r)

CarryOut(r) == RealmCreate(r) \/ RealmDelete(r)

Next ==
  \/ \E r \in Requests :
       \/ \E q \in Request : Receive(r, q)
       \/ Handle(r)
       \/ CallFails(r)
       \/ Misread(r)
       \/ CarryOut(r)
  \/ \E lost \in SUBSET Requests : Restart(lost)

Spec == Init /\ [][Next]_vars

\* Goroutines are scheduled, and a call a handler waits for is carried out
\* unless its exchange fails.  Neither a failure nor a misread reply nor a
\* restart is owed, nor that a call nobody waits for is ever carried out.
FairSpec ==
  /\ Spec
  /\ \A r \in Requests : WF_vars(Handle(r)) /\ WF_vars(Active(r) /\ CarryOut(r))

------------------------------------------------------------------------------
(* Every variable keeps its type. *)
TypeOK ==
  /\ realm \subseteq Clients
  /\ request \in [Requests -> Request \cup {NoRequest}]
  /\ pc \in [Requests -> {"idle", "create", "posting", "delete", "found", "deleting", "over"}]
  /\ found \in [Requests -> SUBSET Clients]
  /\ call \in [Requests -> {"none", "sent", "done", "refused", "missing"}]
  /\ witnessed \in [Requests -> SUBSET Clients]
  /\ effect \in [Requests -> SUBSET Clients]
  /\ answer \in [Requests -> {"none", "201", "204", "400", "404", "500", "dropped"}]
  /\ absent \subseteq Requests
  /\ misread \subseteq Requests

\* What an answer vouches for: nothing, when it rests on a misread reply.
VouchedAnswer ==
  [r \in Requests |-> IF r \in misread /\ answer[r] \notin {"none", "dropped"}
                      THEN "500" ELSE answer[r]]

(* The connector keeps the promise of the API: what it answers, what it does *)
(* to the realm and when, including the effects that come after a 500 or a   *)
(* restart, is what ClientRegistry allows.  The answer to a request whose    *)
(* reply was misread counts as a 500, which vouches for nothing; it deprives *)
(* no other answer of its truth.                                             *)
Registry == INSTANCE ClientRegistry WITH
  Keys <- Names \cup {NoName},
  NoKey <- NoName,
  NameOf <- [c \in Clients |-> c.name],
  KeysOf <- [c \in Clients |-> {c.name}],
  registry <- realm,
  answer <- VouchedAnswer

Promise == Registry!Spec

(* The comment at the answer to an ambiguous lookup: there is never more     *)
(* than one client of that name.                                             *)
LookupUnambiguous == \A r \in Requests : Cardinality(found[r]) <= 1

(* A delete that ends with 204 or 404 leaves none of the clients of that     *)
(* name that were there when it was received, although it looks the name up  *)
(* and deletes by internal id while others create and delete that name, and  *)
(* whatever replies those others misread.                                    *)
DeleteLeavesNone ==
  \A r \in Requests \ misread :
    request[r].kind = "delete" /\ answer[r] \in {"204", "404"}
      => witnessed[r] \cap realm = {}

(* A 404 was true of the realm at one moment between the request and its     *)
(* answer, even when the lookup had found a client and another of that name  *)
(* is there by the time Keycloak misses the first: deletes are atomic, but   *)
(* for those that misread a reply.                                           *)
NotFoundWasTrue ==
  \A r \in Requests \ misread : answer[r] = "404" => r \in absent

(* "Application not found.": a delete is answered 404 only when no client of *)
(* its name is left of those that were there when it was received.  Not so:  *)
(* a list that was not decoded is taken for an empty one.                    *)
NotFoundMeansAbsent ==
  \A r \in Requests : answer[r] = "404" => witnessed[r] \cap realm = {}

(* Every request gets an answer, unless the connector goes down first. *)
EveryRequestEnds == \A r \in Requests : Active(r) ~> answer[r] # "none"
==============================================================================
