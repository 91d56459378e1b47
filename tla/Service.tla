-------------------------------- MODULE Service --------------------------------
(***************************************************************************)
(* The whole service as the portal meets it: a process that starts, fails  *)
(* and is started again (Startup), the HTTP layer the three connectors     *)
(* share, and behind it a connector that keeps the promise of              *)
(* ClientRegistry.                                                         *)
(*                                                                         *)
(* A request that reaches a listening process goes through the schema      *)
(* validation middleware, the generated wrapper, the strict handler and    *)
(* the connector, and its response goes back.  The middleware and the      *)
(* wrapper answer some requests themselves, with echo's own error body.    *)
(* The connection can be lost at any point: the portal gives up, the       *)
(* handler panics, or the process ends, and with it every connection.      *)
(***************************************************************************)
EXTENDS ClientRegistry, Naturals

CONSTANTS Deployments, Worlds, MaxKills   \* see Startup

ASSUME ServiceAssumption == MaxKills \in Nat

VARIABLES
  deployment, world, phase, options, endpoints, kills,  \* see Startup
  message,   \* what the portal sent
  stage,     \* how far each request has come
  response,  \* what is written back
  seen       \* what the portal learns: a status code, or that there is none

Process == INSTANCE Startup

process == <<deployment, world, phase, options, endpoints, kills>>
http == <<message, stage, response, seen>>
serviceVars == <<vars, process, http>>

\* fault: the body is not an object with a string "id"; or a parameter cannot be
\* bound: the id in the path is badly escaped, or there are several tokens.
Message ==
  {m \in [kind : {"create", "delete"}, key : Keys, fault : {"none", "body", "binding"}] :
     m.fault = "body" => m.kind = "create" /\ m.key = NoKey}
NoMessage == [kind |-> "none", key |-> NoKey, fault |-> "none"]
NoResponse == [code |-> "none", body |-> "none"]

\* DELETE /applications/ matches no path of the API.
Routed(m) == m.kind = "delete" => m.key # NoKey
InFlight(r) == stage[r] \in {"arrived", "handling", "responding"}

To(r, place) == stage' = [stage EXCEPT ![r] = place]
Respond(r, code, body) ==
  /\ To(r, "responding")
  /\ response' = [response EXCEPT ![r] = [code |-> code, body |-> body]]
  /\ UNCHANGED <<message, seen>>

ServiceInit ==
  /\ Init
  /\ Process!Init
  /\ message = [r \in Requests |-> NoMessage]
  /\ stage = [r \in Requests |-> "unsent"]
  /\ response = [r \in Requests |-> NoResponse]
  /\ seen = [r \in Requests |-> "none"]

------------------------------------------------------------------------------
(* The portal sends a request; while nobody listens it is refused. *)
Send(r, m) ==
  /\ stage[r] = "unsent"
  /\ message' = [message EXCEPT ![r] = m]
  /\ \/ phase = "serving" /\ To(r, "arrived") /\ UNCHANGED seen
     \/ phase # "serving" /\ To(r, "over") /\ seen' = [seen EXCEPT ![r] = "refused"]
  /\ UNCHANGED <<vars, process, response>>

(* OapiRequestValidator *)
ValidateRequest(r) ==
  /\ stage[r] = "arrived"
  /\ \/ message[r].fault = "body" /\ Respond(r, "400", "message")
     \/ ~ Routed(message[r]) /\ \E code \in {"400", "404"} : Respond(r, code, "message")
  /\ UNCHANGED <<vars, process>>

(* Mutant: the wrapper goes on after the error. *)
BindParametersGoesOn(r) ==
  /\ stage[r] = "arrived"
  /\ Routed(message[r]) /\ message[r].fault = "binding"
  /\ Receive(r, [kind |-> message[r].kind, key |-> message[r].key])
  /\ Respond(r, "400", "message")
  /\ UNCHANGED process

(* ServerInterfaceWrapper binds the id and at most one token. *)
BindParameters(r) ==
  /\ stage[r] = "arrived"
  /\ Routed(message[r]) /\ message[r].fault = "binding"
  /\ Respond(r, "400", "message")
  /\ UNCHANGED <<vars, process>>

(* strictHandler calls the connector ... *)
HandOver(r) ==
  /\ stage[r] = "arrived"
  /\ Routed(message[r]) /\ message[r].fault = "none"
  /\ Receive(r, [kind |-> message[r].kind, key |-> message[r].key])
  /\ To(r, "handling")
  /\ UNCHANGED <<process, message, response, seen>>

(* Mutant: a response of a type that writes nothing. *)
HandlerAnswersNothing(r, code) ==
  /\ stage[r] = "handling"
  /\ Answer(r, code)
  /\ IF code = "204" THEN UNCHANGED http ELSE Respond(r, code, "Error")
  /\ UNCHANGED process

(* Mutant: the status of a refusal by the provider is passed on. *)
HandlerAnswersPassedOn(r, code) ==
  /\ stage[r] = "handling"
  /\ Answer(r, code)
  /\ Respond(r, IF code = "500" THEN "403" ELSE code, "Error")
  /\ UNCHANGED process

(* ... and writes what it returns. *)
HandlerAnswers(r, code) ==
  /\ stage[r] = "handling"
  /\ Answer(r, code)
  /\ Respond(r, code, IF code = "201" THEN "OAuthApplication"
                      ELSE IF code = "204" THEN "none" ELSE "Error")
  /\ UNCHANGED process

Deliver(r) ==
  /\ stage[r] = "responding"
  /\ To(r, "over")
  /\ seen' = [seen EXCEPT ![r] = response[r].code]
  /\ UNCHANGED <<vars, process, message, response>>

(* Connections end without a response; what the connector did is not undone, *)
(* and what it was about to do may still happen.                             *)
Lose(lost) ==
  LET handled == {r \in lost : stage[r] = "handling"}
  IN  /\ stage' = [r \in Requests |-> IF r \in lost THEN "over" ELSE stage[r]]
      /\ seen' = [r \in Requests |-> IF r \in lost THEN "lost" ELSE seen[r]]
      /\ IF handled = {} THEN UNCHANGED vars ELSE Drop(handled)
      /\ UNCHANGED <<message, response>>

ConnectionLost(r) == InFlight(r) /\ Lose({r}) /\ UNCHANGED process

ProcessKilled == Process!Kill /\ Lose({r \in Requests : InFlight(r)})

ProviderActs(r) ==
  /\ \E c \in Clients : Register(r, c) \/ Remove(r, c)
  /\ UNCHANGED <<process, http>>

ProcessAdvances == Process!Advance /\ UNCHANGED <<vars, http>>
WorldChanges == Process!WorldChanges /\ UNCHANGED <<vars, http>>

Serve(r) ==
  \/ ValidateRequest(r) \/ BindParameters(r) \/ HandOver(r)
  \/ \E code \in Codes : HandlerAnswers(r, code)
  \/ Deliver(r)

ServiceNext ==
  \/ \E r \in Requests :
       \/ \E m \in Message : Send(r, m)
       \/ Serve(r)
       \/ ConnectionLost(r)
       \/ ProviderActs(r)
  \/ ProcessKilled \/ ProcessAdvances \/ WorldChanges

ServiceSpec == ServiceInit /\ [][ServiceNext]_serviceVars

\* Kubernetes starts the process again, a start makes progress, and a request
\* that is being served is served to its end, as each connector shows of its
\* own handlers.  Neither losses nor changes of the world are owed.
FairServiceSpec ==
  /\ ServiceSpec
  /\ WF_serviceVars(ProcessAdvances)
  /\ \A r \in Requests : WF_serviceVars(Serve(r))

------------------------------------------------------------------------------
(* Every variable keeps its type. *)
ServiceTypeOK ==
  /\ phase \in {"down", "validate", "discover", "configure", "listen", "serving"}
  /\ endpoints \subseteq Process!Endpoints
  /\ kills \in 0 .. MaxKills
  /\ message \in [Requests -> Message \cup {NoMessage}]
  /\ stage \in [Requests -> {"unsent", "arrived", "handling", "responding", "over"}]
  /\ response \in [Requests -> [code : Codes \cup {"none"},
                                body : {"none", "OAuthApplication", "Error", "message"}]]
  /\ seen \in [Requests -> Codes \cup {"none", "refused", "lost"}]

(* The status code the portal has seen is true for good of what became of    *)
(* its request at the provider, whoever in the service wrote it: 201 and 204 *)
(* stand for one client of the id it sent; after 400, 404 or a refused       *)
(* connection there is no effect, not even later; and a 404 was true at one  *)
(* moment while the request was served, so no client that the id stood for   *)
(* when it came in outlives it.  The empty id, which the HTTP layer answers  *)
(* 404 by itself, stands for none.                                           *)
SeenIsTrue ==
  \A r \in Requests :
    /\ seen[r] = "201" => \E c \in Clients : effect[r] = {c} /\ message[r].key = NameOf[c]
    /\ seen[r] = "204" => \E c \in Clients : effect[r] = {c} /\ message[r].key \in KeysOf[c]
    /\ seen[r] \in {"400", "404", "refused"} => effect[r] = {}
    /\ seen[r] = "404" => /\ message[r].key = NoKey \/ r \in absent
                          /\ witnessed[r] \cap registry = {}

(* The process that serves has found what its connector looks for at its     *)
(* start.                                                                    *)
ServesConfigured == Process!ServesConfigured

(* Once the world stays in order the service comes up and stays up. *)
EventuallyServes == Process!EventuallyServes

(* Every request the portal sends comes to an end it learns of. *)
EveryRequestEnds == \A r \in Requests : stage[r] # "unsent" ~> seen[r] # "none"

(* The error responses of the API have the schema Error.  Not so: those that *)
(* the HTTP layer writes have only a message.                                *)
ErrorsFollowSchema ==
  \A r \in Requests : seen[r] \in {"400", "404", "500"} => response[r].body = "Error"
==============================================================================
