----------------------------- MODULE ServiceProofs -----------------------------
(* Proofs about the service, for any requests, commands and worlds: the HTTP *)
(* layer and the restarts of the process do not break the promise that the   *)
(* connector keeps, and no process serves without what it looks for.         *)
EXTENDS Service, ClientRegistryProofs

\* The connector never got to see the request ...
Unhandled(r) == request[r] = NoRequest /\ witnessed[r] = {} /\ answer[r] = "none"
\* ... or it got what the portal sent.
Handled(r) == request[r] = [kind |-> message[r].kind, key |-> message[r].key]

\* Who wrote a status code: the HTTP layer, or the connector.
Written(r, code) ==
  \/ Unhandled(r) /\ code = "400"
  \/ Unhandled(r) /\ code = "404" /\ message[r].key = NoKey
  \/ Handled(r) /\ answer[r] = code

\* How far the HTTP layer is with a request agrees with the registry.
Linked ==
  \A r \in Requests :
    /\ stage[r] \in {"unsent", "arrived"} => Unhandled(r) /\ seen[r] = "none"
    /\ stage[r] # "unsent" => message[r] \in Message
    /\ stage[r] = "handling" => Handled(r) /\ answer[r] = "none" /\ seen[r] = "none"
    /\ stage[r] = "responding" =>
         response[r].code \in Codes /\ Written(r, response[r].code) /\ seen[r] = "none"
    /\ seen[r] = "refused" => Unhandled(r)
    /\ seen[r] \in Codes => Written(r, seen[r])

\* What a start has settled by the time it gets to each phase.
Settled ==
  /\ phase \in {"discover", "configure", "listen", "serving"} =>
       Process!Insisted[deployment.connector] \subseteq options
  /\ phase = "configure" => deployment.connector # "keycloak"
  /\ phase \in {"listen", "serving"} /\ deployment.connector = "keycloak" =>
       endpoints = Process!Endpoints

ServiceInv == TypeOK /\ ServiceTypeOK /\ Linked /\ Settled

------------------------------------------------------------------------------
(* The steps of a start. *)
LEMMA StartStep ==
  ASSUME Settled, Process!Advance
  PROVE  Settled'
<1> USE DEF Settled, Process!Running, Process!Exit
<1>1. CASE Process!Launch
  BY <1>1 DEF Process!Launch
<1>2. CASE Process!Validate
  BY <1>2 DEF Process!Validate, Process!Insisted
<1>3. CASE Process!Discover
  BY <1>3 DEF Process!Discover, Process!Insisted, Process!Endpoints
<1>4. CASE Process!Configure
  BY <1>4 DEF Process!Configure
<1>5. CASE Process!Listen
  BY <1>5 DEF Process!Listen
<1> QED
  BY <1>1, <1>2, <1>3, <1>4, <1>5 DEF Process!Advance

LEMMA StartTypes ==
  ASSUME ServiceTypeOK, Process!Advance
  PROVE  /\ phase' \in {"down", "validate", "discover", "configure", "listen", "serving"}
         /\ endpoints' \subseteq Process!Endpoints
         /\ kills' = kills
  BY DEF ServiceTypeOK, Process!Advance, Process!Launch, Process!Validate, Process!Discover,
     Process!Configure, Process!Listen, Process!Exit, Process!Endpoints

\* Connections in flight are lost: to the registry this is one step.
LEMMA Losing ==
  ASSUME TypeOK, ServiceTypeOK, Linked, NEW lost \in SUBSET Requests,
         \A r \in lost : InFlight(r), Lose(lost)
  PROVE  /\ [Next]_vars
         /\ Linked'
         /\ stage' \in [Requests -> {"unsent", "arrived", "handling", "responding", "over"}]
         /\ seen' \in [Requests -> Codes \cup {"none", "refused", "lost"}]
<1> DEFINE handled == {r \in lost : stage[r] = "handling"}
<1>1. IF handled = {} THEN UNCHANGED vars ELSE Drop(handled)
  BY DEF Lose
<1>2. [Next]_vars
  BY <1>1 DEF Next
<1>3. request' = request /\ witnessed' = witnessed
  BY <1>1 DEF vars, Drop
<1>4. \A r \in Requests : r \notin handled => answer'[r] = answer[r]
  BY <1>1 DEF vars, Drop, TypeOK
<1>5. \A r \in Requests : r \notin lost => stage'[r] = stage[r] /\ seen'[r] = seen[r]
  BY DEF Lose, ServiceTypeOK
<1>6. \A r \in lost : stage'[r] = "over" /\ seen'[r] = "lost"
  BY DEF Lose, ServiceTypeOK
<1>7. message' = message /\ response' = response
  BY DEF Lose
<1>8. \A r \in lost : message[r] \in Message
  BY DEF Linked, InFlight
<1>9. "lost" \notin Codes
  BY DEF Codes
<1>10. Linked'
  BY <1>3, <1>4, <1>5, <1>6, <1>7, <1>8, <1>9 DEF Linked, Unhandled, Handled, Written
<1> QED
  BY <1>2, <1>10 DEF Lose, ServiceTypeOK

\* A step that leaves the process alone.
LEMMA ProcessRests == ASSUME Settled, UNCHANGED process PROVE Settled'
  BY DEF Settled, process, Process!Insisted, Process!Endpoints

\* What the portal sends the connector can be asked.
LEMMA Asked ==
  ASSUME NEW m \in Message
  PROVE  /\ [kind |-> m.kind, key |-> m.key] \in Request
         /\ m.kind \in {"create", "delete"} /\ m.key \in Keys
  BY DEF Message, Request

(* Every step of the service is a step of the registry, or none of it, and   *)
(* keeps the invariant.                                                      *)
LEMMA ServiceStep == ServiceInv /\ [ServiceNext]_serviceVars => [Next]_vars /\ ServiceInv'
<1> SUFFICES ASSUME ServiceInv, [ServiceNext]_serviceVars
             PROVE  [Next]_vars /\ ServiceInv'
  OBVIOUS
<1> USE DEF ServiceInv
<1>0. ASSUME [Next]_vars, ServiceTypeOK', Linked', Settled' PROVE [Next]_vars /\ ServiceInv'
  BY <1>0, TypeStep
<1> SUFFICES [Next]_vars /\ ServiceTypeOK' /\ Linked' /\ Settled'
  BY <1>0
<1> DEFINE Goal == [Next]_vars /\ ServiceTypeOK' /\ Linked' /\ Settled'
<1>1. CASE UNCHANGED serviceVars
  BY <1>1, ProcessRests
     DEF serviceVars, vars, process, http, ServiceTypeOK, Linked, Unhandled, Handled, Written
<1>2. ASSUME NEW r \in Requests, NEW m \in Message, Send(r, m) PROVE Goal
  <2>1. UNCHANGED vars /\ UNCHANGED process
    BY <1>2 DEF Send
  <2>2. ServiceTypeOK'
    BY <1>2 DEF Send, To, ServiceTypeOK, process
  <2>3. Linked'
    <3>1. UNCHANGED <<request, witnessed, answer>> /\ response' = response
      BY <1>2, <2>1 DEF Send, vars
    <3>2. \A s \in Requests \ {r} :
            stage'[s] = stage[s] /\ seen'[s] = seen[s] /\ message'[s] = message[s]
      BY <1>2 DEF Send, To, ServiceTypeOK
    <3>3. /\ Unhandled(r) /\ message'[r] = m
          /\ \/ stage'[r] = "arrived" /\ seen'[r] = "none"
             \/ stage'[r] = "over" /\ seen'[r] = "refused"
      BY <1>2 DEF Send, To, ServiceTypeOK, Linked
    <3> QED
      BY <3>1, <3>2, <3>3 DEF Linked, Unhandled, Handled, Written, Codes
  <2> QED
    BY <2>1, <2>2, <2>3, ProcessRests
<1>3. ASSUME NEW r \in Requests, ValidateRequest(r) \/ BindParameters(r) PROVE Goal
  <2>1. UNCHANGED vars /\ UNCHANGED process
    BY <1>3 DEF ValidateRequest, BindParameters
  <2>2. PICK code \in {"400", "404"} :
          /\ stage[r] = "arrived" /\ Respond(r, code, "message")
          /\ code = "404" => message[r].key = NoKey
    BY <1>3 DEF ValidateRequest, BindParameters, Routed
  <2>3. ServiceTypeOK'
    BY <2>1, <2>2 DEF Respond, To, ServiceTypeOK, process, Codes
  <2>4. Linked'
    <3>1. UNCHANGED <<request, witnessed, answer, message, seen>>
      BY <2>1, <2>2 DEF vars, Respond
    <3>2. \A s \in Requests \ {r} : stage'[s] = stage[s] /\ response'[s] = response[s]
      BY <2>2 DEF Respond, To, ServiceTypeOK
    <3>3. stage'[r] = "responding" /\ response'[r].code = code
      BY <2>2 DEF Respond, To, ServiceTypeOK
    <3>4. Unhandled(r) /\ message[r] \in Message /\ seen[r] = "none"
      BY <2>2 DEF Linked
    <3>5. code \in Codes /\ Written(r, code)
      BY <2>2, <3>4 DEF Written, Codes
    <3> QED
      BY <3>1, <3>2, <3>3, <3>4, <3>5 DEF Linked, Unhandled, Handled, Written, Codes
  <2> QED
    BY <2>1, <2>3, <2>4, ProcessRests
<1>4. ASSUME NEW r \in Requests, HandOver(r) PROVE Goal
  <2> DEFINE q == [kind |-> message[r].kind, key |-> message[r].key]
  <2>1. message[r] \in Message /\ stage[r] = "arrived" /\ Receive(r, q) /\ UNCHANGED process
    BY <1>4 DEF HandOver, Linked
  <2>2. q \in Request
    BY <2>1, Asked
  <2>3. Next
    BY <2>1, <2>2 DEF Next
  <2>4. ServiceTypeOK'
    BY <1>4 DEF HandOver, To, ServiceTypeOK, process
  <2>5. \A s \in Requests \ {r} : request'[s] = request[s] /\ witnessed'[s] = witnessed[s]
    BY <2>1 DEF Receive, TypeOK
  <2>6. request'[r] = q /\ answer' = answer /\ answer[r] = "none"
    BY <2>1 DEF Receive, TypeOK, Linked, Unhandled
  <2>7. Linked'
    BY <1>4, <2>1, <2>5, <2>6
       DEF HandOver, To, ServiceTypeOK, Linked, Unhandled, Handled, Written, Codes
  <2> QED
    BY <2>1, <2>3, <2>4, <2>7, ProcessRests
<1>5. ASSUME NEW r \in Requests, NEW code \in Codes, HandlerAnswers(r, code) PROVE Goal
  <2>1. stage[r] = "handling" /\ Answer(r, code) /\ UNCHANGED process
    BY <1>5 DEF HandlerAnswers
  <2>2. Next
    BY <2>1 DEF Next
  <2>3. PICK body \in {"none", "OAuthApplication", "Error"} : Respond(r, code, body)
    BY <1>5 DEF HandlerAnswers
  <2>4. ServiceTypeOK'
    BY <2>1, <2>3 DEF Respond, To, ServiceTypeOK, process
  <2>5. request' = request /\ witnessed' = witnessed
    BY <2>1 DEF Answer
  <2>6. answer'[r] = code /\ \A s \in Requests \ {r} : answer'[s] = answer[s]
    BY <2>1 DEF Answer, TypeOK
  <2>7. \A s \in Requests \ {r} : stage'[s] = stage[s] /\ response'[s] = response[s]
    BY <2>3 DEF Respond, To, ServiceTypeOK
  <2>8. stage'[r] = "responding" /\ response'[r].code = code /\ UNCHANGED <<message, seen>>
    BY <2>3 DEF Respond, To, ServiceTypeOK
  <2>9. Handled(r) /\ message[r] \in Message /\ seen[r] = "none"
    BY <2>1 DEF Linked
  <2>10. Linked'
    BY <2>5, <2>6, <2>7, <2>8, <2>9 DEF Linked, Unhandled, Handled, Written, Codes
  <2> QED
    BY <2>1, <2>2, <2>4, <2>10, ProcessRests
<1>6. ASSUME NEW r \in Requests, Deliver(r) PROVE Goal
  <2>1. UNCHANGED vars /\ UNCHANGED process
    BY <1>6 DEF Deliver
  <2>2. ServiceTypeOK'
    BY <1>6 DEF Deliver, To, ServiceTypeOK, process, Linked
  <2>3. Linked'
    BY <1>6, <2>1 DEF Deliver, To, ServiceTypeOK, Linked, Unhandled, Handled, Written, vars, Codes
  <2> QED
    BY <2>1, <2>2, <2>3, ProcessRests
<1>7. ASSUME NEW r \in Requests, ConnectionLost(r) PROVE Goal
  <2>1. InFlight(r) /\ Lose({r}) /\ UNCHANGED process
    BY <1>7 DEF ConnectionLost
  <2>2. message' = message /\ response' = response
    BY <2>1 DEF Lose
  <2>3. ServiceTypeOK'
    BY <2>1, <2>2, Losing DEF ServiceTypeOK, process
  <2> QED
    BY <2>1, <2>3, Losing, ProcessRests
<1>8. ASSUME NEW r \in Requests, ProviderActs(r) PROVE Goal
  <2>1. PICK c \in Clients : Register(r, c) \/ Remove(r, c)
    BY <1>8 DEF ProviderActs
  <2>2. UNCHANGED process /\ UNCHANGED http
    BY <1>8 DEF ProviderActs
  <2>3. Next
    BY <2>1 DEF Next
  <2>4. UNCHANGED <<request, witnessed, answer>>
    BY <2>1 DEF Register, Remove
  <2>5. ServiceTypeOK' /\ Linked'
    BY <2>2, <2>4 DEF process, http, ServiceTypeOK, Linked, Unhandled, Handled, Written
  <2> QED
    BY <2>2, <2>3, <2>5, ProcessRests
<1>9. CASE ProcessKilled
  <2> DEFINE lost == {r \in Requests : InFlight(r)}
  <2>1. Process!Kill /\ Lose(lost)
    BY <1>9 DEF ProcessKilled
  <2>2. Settled'
    BY <2>1 DEF Process!Kill, Process!Exit, Settled
  <2>3. message' = message /\ response' = response
    BY <2>1 DEF Lose
  <2>4. ServiceTypeOK'
    BY <2>1, <2>3, Losing, ServiceAssumption
       DEF ServiceTypeOK, Process!Kill, Process!Exit, Process!Endpoints
  <2> QED
    BY <2>1, <2>2, <2>4, Losing
<1>10. CASE ProcessAdvances \/ WorldChanges
  <2>1. UNCHANGED vars /\ UNCHANGED http
    BY <1>10 DEF ProcessAdvances, WorldChanges
  <2>2. Linked'
    BY <2>1 DEF vars, http, Linked, Unhandled, Handled, Written
  <2>3. CASE ProcessAdvances
    <3>1. ServiceTypeOK'
      BY <2>1, <2>3, StartTypes DEF http, ServiceTypeOK, ProcessAdvances, Process!Endpoints
    <3> QED
      BY <2>1, <2>2, <2>3, <3>1, StartStep DEF ProcessAdvances
  <2>4. CASE WorldChanges
    <3>1. UNCHANGED <<deployment, phase, options, endpoints, kills>>
      BY <2>4 DEF WorldChanges, Process!WorldChanges
    <3>2. Settled'
      BY <3>1 DEF Settled, Process!Insisted, Process!Endpoints
    <3>3. ServiceTypeOK'
      BY <2>1, <3>1 DEF http, ServiceTypeOK, Process!Endpoints
    <3> QED
      BY <2>1, <2>2, <3>2, <3>3
  <2> QED
    BY <1>10, <2>3, <2>4
<1> QED
  BY <1>1, <1>2, <1>3, <1>4, <1>5, <1>6, <1>7, <1>8, <1>9, <1>10 DEF ServiceNext, Serve

LEMMA ServiceStart == ServiceInit => Init /\ ServiceInv
<1> SUFFICES ASSUME ServiceInit PROVE Init /\ ServiceInv
  OBVIOUS
<1>1. TypeOK
  BY RegistryAssumption DEF ServiceInit, Init, TypeOK
<1>2. ServiceTypeOK
  BY ServiceAssumption DEF ServiceInit, ServiceTypeOK, Process!Init, NoResponse
<1>3. Linked
  BY DEF ServiceInit, Init, Linked, Unhandled, Codes
<1>4. Settled
  BY DEF ServiceInit, Process!Init, Settled
<1> QED
  BY <1>1, <1>2, <1>3, <1>4 DEF ServiceInv, ServiceInit

LEMMA ServiceInvariant == ServiceSpec => []ServiceInv
  BY ServiceStart, ServiceStep, PTL DEF ServiceSpec

(* Every variable keeps its type. *)
THEOREM ServiceTypeCorrect == ServiceSpec => []ServiceTypeOK
  BY ServiceInvariant, PTL DEF ServiceInv

(* Whatever the HTTP layer does by itself, and however often connections and *)
(* processes are lost, the service keeps the promise of the API.             *)
THEOREM ServiceKeepsPromise == ServiceSpec => Spec
  BY ServiceStart, ServiceStep, ServiceInvariant, PTL DEF ServiceSpec, Spec

(* The status code the portal has seen stays true. *)
THEOREM SeenStaysTrue == ServiceSpec => []SeenIsTrue
<1>1. ServiceInv /\ RegistryInv => SeenIsTrue
  <2> SUFFICES ASSUME ServiceInv, RegistryInv, NEW r \in Requests
               PROVE  /\ seen[r] = "201" => \E c \in Clients :
                            effect[r] = {c} /\ message[r].key = NameOf[c]
                      /\ seen[r] = "204" => \E c \in Clients :
                            effect[r] = {c} /\ message[r].key \in KeysOf[c]
                      /\ seen[r] \in {"400", "404", "refused"} => effect[r] = {}
                      /\ seen[r] = "404" => /\ message[r].key = NoKey \/ r \in absent
                                            /\ witnessed[r] \cap registry = {}
    BY DEF SeenIsTrue
  <2>1. AnswersHold
    BY DEF RegistryInv, EffectAsAsked, AnswersVouched, AbsentOutlived, AnswersHold, Asks
  <2>2. seen[r] \in Codes => Written(r, seen[r])
    BY DEF ServiceInv, Linked
  <2>3. Unhandled(r) => effect[r] = {} /\ witnessed[r] = {}
    BY DEF Unhandled, RegistryInv, EffectAsAsked
  <2>4. seen[r] = "refused" => effect[r] = {}
    BY <2>3 DEF ServiceInv, Linked
  <2>5. seen[r] \in Codes /\ ~Unhandled(r) => answer[r] = seen[r] /\ request[r].key = message[r].key
    BY <2>2 DEF Written, Handled
  <2>6. Unhandled(r) => seen[r] \notin {"201", "204"}
    BY <2>2 DEF Written, Unhandled, Codes
  <2>7. Unhandled(r) /\ seen[r] = "404" => message[r].key = NoKey
    BY <2>2 DEF Written, Unhandled, Codes
  <2> QED
    BY <2>1, <2>3, <2>4, <2>5, <2>6, <2>7 DEF AnswersHold, Codes
<1> QED
  BY <1>1, ServiceInvariant, ServiceKeepsPromise, RegistryInvariant, PTL

(* No process serves without what it has to find at its start, however often *)
(* starts have failed and whatever the world was like meanwhile.             *)
THEOREM ServesWithWhatItFound == ServiceSpec => []ServesConfigured
<1>1. ServiceInv => ServesConfigured
  BY DEF ServiceInv, ServiceTypeOK, Settled, ServesConfigured, Process!ServesConfigured,
         Process!Running, Process!Insisted
<1> QED
  BY <1>1, ServiceInvariant, PTL
==============================================================================
