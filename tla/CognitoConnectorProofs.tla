------------------------ MODULE CognitoConnectorProofs ------------------------
(* Proofs about the Cognito connector, for any sets of requests and names    *)
(* and however often the SDK sends a call.                                   *)
EXTENDS CognitoConnector, FiniteSetTheorems, TLAPS

------------------------------------------------------------------------------
(* The inductive invariant. *)

Creates(r) == request[r].kind = "create"
Deletes(r) == request[r].kind = "delete"
\* The client that the n-th attempt of a create registers.
Client(r, n) == [uid |-> <<r, n>>, name |-> request[r].key]

PlaceTells ==
  \A r \in Requests :
    /\ pc[r] = "idle" <=> request[r] = NoRequest
    /\ pc[r] \in {"create", "creating"} => Creates(r)
    /\ pc[r] \in {"delete", "deleting"} => Deletes(r)
    /\ pc[r] \in {"idle", "create", "delete"} => attempt[r] = 0
    /\ Calling(r) => attempt[r] # 0
    /\ attempt[r] = 0 => reply[r] = "none"
    /\ attempt[r] # 0 /\ Creates(r) => request[r].key # NoKey
    /\ answer[r] = "none" <=> pc[r] # "over"

\* What the SDK has been told, and what the portal has.
ReplyTells ==
  \A r \in Requests :
    /\ reply[r] \in {"done", "missing", "refused"} => <<r, attempt[r]>> \notin wire
    /\ reply[r] = "done" => effect[<<r, attempt[r]>>] # {}
    /\ reply[r] = "missing" => Deletes(r) /\ effect[<<r, attempt[r]>>] = {}
    /\ answer[r] = "201" => Creates(r) /\ reply[r] = "done"
    /\ answer[r] = "204" => Deletes(r) /\ reply[r] = "done"
    /\ answer[r] = "404" => Deletes(r) /\ reply[r] = "missing"
    /\ answer[r] = "400" => Creates(r) /\ attempt[r] = 0

\* An attempt is carried out once at most, and not before it is made.
WireTells ==
  \A r \in Requests, n \in Attempts :
    /\ <<r, n>> \in wire => n <= attempt[r] /\ effect[<<r, n>>] = {}
    /\ n > attempt[r] => effect[<<r, n>>] = {}
    /\ n > attempt[r] /\ n # 1 => witnessed[<<r, n>>] = {}

EffectOf(r, n) ==
  /\ Creates(r) /\ effect[<<r, n>>] # {} => effect[<<r, n>>] = {Client(r, n)}
  /\ Deletes(r) => \A c \in effect[<<r, n>>] :
                     c.uid = request[r].key /\ effect[<<r, n>>] = {c}

EffectTells == \A r \in Requests, n \in Attempts : EffectOf(r, n)

\* A client with this id has been created, or was there before: no attempt will
\* create it again.
Known(c) ==
  \/ c.uid \in Others \ Calls
  \/ \E r \in Requests, n \in Attempts :
       c.uid = <<r, n>> /\ Creates(r) /\ effect[<<r, n>>] # {}

AllKnown ==
  /\ \A c \in pool : Known(c)
  /\ \A call \in Calls : \A c \in witnessed[call] : Known(c)

UniqueIds == \A c, d \in pool : c.uid = d.uid => c = d

\* Once an attempt of a delete was carried out, nothing of that id is left.
NoneLeft ==
  \A r \in Requests :
    Deletes(r) =>
      /\ \A n \in Attempts : \A c \in witnessed[<<r, n>>] : c.uid = request[r].key
      /\ reply[r] \in {"done", "missing"} =>
           \A n \in Attempts : witnessed[<<r, n>>] \cap pool = {}

StillThere ==
  \A r \in Requests, n \in Attempts :
    Creates(r) /\ effect[<<r, n>>] # {} =>
      \/ Client(r, n) \in pool
      \/ \E d \in Requests : request[d] = [kind |-> "delete", key |-> <<r, n>>]

ConnectorInv ==
  /\ PlaceTells
  /\ ReplyTells
  /\ WireTells
  /\ EffectTells
  /\ AllKnown
  /\ UniqueIds
  /\ NoneLeft
  /\ StillThere

------------------------------------------------------------------------------
\* The calls of a request, one by one.
LEMMA CallsOf ==
  /\ \A r \in Requests, n \in Attempts : <<r, n>> \in Calls
  /\ \A call \in Calls : call[1] \in Requests /\ call[2] \in Attempts /\ call = <<call[1], call[2]>>
  /\ 1 \in Attempts
  /\ \A n \in Attempts : n \in Nat /\ n # 0
  BY CognitoAssumption DEF Calls, Attempts

LEMMA TypeStep == TypeOK /\ PlaceTells /\ WireTells /\ [Next]_vars => TypeOK'
<1> SUFFICES ASSUME TypeOK, PlaceTells, WireTells, [Next]_vars PROVE TypeOK'
  OBVIOUS
<1> USE DEF TypeOK, Goto, Reply
<1>1. CASE UNCHANGED vars
  BY <1>1 DEF vars
<1>2. ASSUME NEW r \in Requests, NEW q \in Request, Receive(r, q) PROVE TypeOK'
  <2>1. absent' \subseteq Calls
    BY <1>2 DEF Receive, Observe
  <2> QED
    BY <1>2, <2>1 DEF Receive, WithId, Request
<1>3. ASSUME NEW r \in Requests, RefuseCreate(r) PROVE TypeOK'
  BY <1>3 DEF RefuseCreate
<1>4. ASSUME NEW r \in Requests, Call(r) PROVE TypeOK'
  BY <1>4, CallsOf, CognitoAssumption DEF Call, Attempts
<1>5. ASSUME NEW r \in Requests, FinishCreate(r) PROVE TypeOK'
  BY <1>5 DEF FinishCreate
<1>6. ASSUME NEW r \in Requests, FinishDelete(r) PROVE TypeOK'
  BY <1>6 DEF FinishDelete
<1>7. ASSUME NEW r \in Requests, AttemptFails(r) PROVE TypeOK'
  BY <1>7 DEF AttemptFails
<1>8. ASSUME NEW r \in Requests, Retry(r) PROVE TypeOK'
  <2>1. attempt[r] + 1 \in Attempts /\ attempt[r] + 1 \in 0 .. MaxAttempts
    BY <1>8, CognitoAssumption DEF Retry, Attempts
  <2>2. <<r, attempt[r] + 1>> \in Calls
    BY <2>1, CallsOf
  <2>3. absent' \subseteq Calls
    BY <1>8 DEF Retry, Observe
  <2> QED
    BY <1>8, <2>1, <2>2, <2>3 DEF Retry, WithId
<1>9. ASSUME NEW r \in Requests, CallFails(r) \/ Disconnect(r) PROVE TypeOK'
  BY <1>9 DEF CallFails, Disconnect
<1>10. ASSUME NEW r \in Requests, NEW n \in Attempts, PoolCreate(r, n) PROVE TypeOK'
  <2>1. attempt[r] # 0
    BY <1>10, CallsOf DEF PoolCreate, WireTells
  <2>2. request[r].key \in Names
    BY <1>10, <2>1 DEF PoolCreate, PlaceTells, Creates, Request, NoRequest
  <2>3. Client(r, n) \in Clients
    BY <2>2, CallsOf DEF Client, Clients, Uids
  <2>4. pool' \subseteq Clients /\ effect' \in [Calls -> SUBSET Clients]
    BY <1>10, <2>3 DEF PoolCreate, Client
  <2> QED
    BY <1>10, <2>4 DEF PoolCreate, Takes
<1>11. ASSUME NEW r \in Requests, NEW n \in Attempts, PoolDelete(r, n) PROVE TypeOK'
  <2>1. absent' \subseteq Calls
    BY <1>11 DEF PoolDelete, Observe
  <2> QED
    BY <1>11, <2>1 DEF PoolDelete, Takes, WithId
<1> QED
  BY <1>1, <1>2, <1>3, <1>4, <1>5, <1>6, <1>7, <1>8, <1>9, <1>10, <1>11
     DEF Next, Handle, CarryOut

\* A step that changes neither the pool nor what is known about requests.
LEMMA QuietStep ==
  ASSUME EffectTells, AllKnown, UniqueIds, StillThere,
         UNCHANGED <<pool, request, witnessed, effect>>
  PROVE  EffectTells' /\ AllKnown' /\ UniqueIds' /\ StillThere'
<1>1. EffectTells'
  BY DEF EffectTells, EffectOf, Creates, Deletes, Client
<1>2. AllKnown'
  <2>1. ASSUME NEW c, Known(c) PROVE Known(c)'
    BY <2>1 DEF Known, Creates
  <2> QED
    BY <2>1 DEF AllKnown
<1>3. UniqueIds'
  BY DEF UniqueIds
<1>4. StillThere'
  BY DEF StillThere, Creates, Client
<1> QED
  BY <1>1, <1>2, <1>3, <1>4

LEMMA EffectQuiet ==
  ASSUME EffectTells, UNCHANGED <<request, effect>>
  PROVE  EffectTells'
  BY DEF EffectTells, EffectOf, Creates, Deletes, Client

\* An attempt that does not change keeps what is known of it.
LEMMA EffectSame ==
  ASSUME NEW s, NEW n, EffectOf(s, n), request'[s] = request[s],
         effect'[<<s, n>>] = effect[<<s, n>>]
  PROVE  EffectOf(s, n)'
  BY DEF EffectOf, Creates, Deletes, Client

\* What is on the wire, and what it changes, is a matter of four variables only.
LEMMA WireQuiet ==
  ASSUME WireTells, UNCHANGED <<attempt, wire, witnessed, effect>>
  PROVE  WireTells'
  BY DEF WireTells

LEMMA NoneQuiet ==
  ASSUME NoneLeft, UNCHANGED <<pool, request, witnessed>>,
         \A r \in Requests : reply'[r] \in {"done", "missing"} => reply[r] \in {"done", "missing"}
  PROVE  NoneLeft'
  BY DEF NoneLeft, Deletes

LEMMA AttemptsCount ==
  ASSUME TypeOK
  PROVE  /\ \A r \in Requests : attempt[r] \in Nat
         /\ \A n \in Attempts : n \in Nat /\ n # 0
  BY CognitoAssumption DEF TypeOK, Attempts

LEMMA ConnectorStep == TypeOK /\ ConnectorInv /\ [Next]_vars => ConnectorInv'
<1> SUFFICES ASSUME TypeOK, ConnectorInv, [Next]_vars PROVE ConnectorInv'
  OBVIOUS
<1> USE DEF TypeOK, ConnectorInv, Goto, Reply
<1>1. CASE UNCHANGED vars
  <2>1. PlaceTells'
    BY <1>1 DEF vars, PlaceTells, Calling, Creates, Deletes
  <2>2. ReplyTells'
    BY <1>1 DEF vars, ReplyTells, Creates, Deletes
  <2>3. WireTells' /\ NoneLeft'
    BY <1>1, WireQuiet, NoneQuiet DEF vars
  <2> QED
    BY <1>1, <2>1, <2>2, <2>3, QuietStep DEF vars
<1>2. ASSUME NEW r \in Requests, NEW q \in Request, Receive(r, q) PROVE ConnectorInv'
  <2>1. q.kind \in {"create", "delete"} /\ q # NoRequest
    BY DEF Request, NoRequest
  <2>2. /\ request[r] = NoRequest /\ attempt[r] = 0 /\ reply[r] = "none" /\ answer[r] = "none"
        /\ ~Creates(r) /\ ~Deletes(r)
    BY <1>2 DEF Receive, PlaceTells, Creates, Deletes, NoRequest
  <2>3. \A n \in Attempts :
          /\ <<r, n>> \notin wire /\ effect[<<r, n>>] = {}
          /\ n # 1 => witnessed[<<r, n>>] = {}
    <3>1. \A n \in Attempts : n > attempt[r]
      BY <2>2, AttemptsCount
    <3> QED
      BY <3>1, AttemptsCount DEF WireTells
  <2>4. request'[r] = q /\ \A s \in Requests \ {r} : request'[s] = request[s]
    BY <1>2 DEF Receive
  <2>5. /\ witnessed'[<<r, 1>>] = WithId(q.key)
        /\ \A s \in Requests, n \in Attempts :
             <<s, n>> # <<r, 1>> => witnessed'[<<s, n>>] = witnessed[<<s, n>>]
    BY <1>2, CallsOf DEF Receive
  <2>6. UNCHANGED <<pool, attempt, wire, reply, effect, answer>>
    BY <1>2 DEF Receive
  <2>7. PlaceTells'
    BY <1>2, <2>1, <2>2, <2>4, <2>6 DEF Receive, PlaceTells, Calling, Creates, Deletes
  <2>8. ReplyTells'
    BY <2>1, <2>2, <2>4, <2>6 DEF ReplyTells, Creates, Deletes
  <2>9. WireTells'
    <3>1. \A s \in Requests, n \in Attempts : n # 1 => witnessed'[<<s, n>>] = witnessed[<<s, n>>]
      BY <2>5
    <3> QED
      BY <2>6, <3>1 DEF WireTells
  <2>10. EffectTells'
    <3>1. \A n \in Attempts : effect'[<<r, n>>] = {}
      BY <2>3, <2>6
    <3> SUFFICES ASSUME NEW s \in Requests, NEW n \in Attempts PROVE EffectOf(s, n)'
      BY DEF EffectTells
    <3>2. CASE s = r
      BY <3>1, <3>2 DEF EffectOf
    <3>3. CASE s # r
      BY <3>3, <2>4, <2>6, EffectSame DEF EffectTells
    <3> QED
      BY <3>2, <3>3
  <2>11. \A c : Known(c) => Known(c)'
    <3>1. \A s \in Requests : Creates(s) => Creates(s)'
      BY <2>2, <2>4 DEF Creates
    <3> QED
      BY <2>6, <3>1 DEF Known
  <2>12. AllKnown'
    <3>1. \A call \in Calls : witnessed'[call] = witnessed[call] \/ witnessed'[call] \subseteq pool
      <4> SUFFICES ASSUME NEW call \in Calls
                   PROVE  witnessed'[call] = witnessed[call] \/ witnessed'[call] \subseteq pool
        OBVIOUS
      <4>1. PICK s \in Requests, n \in Attempts : call = <<s, n>>
        BY CallsOf
      <4>2. WithId(q.key) \subseteq pool
        BY DEF WithId
      <4> QED
        BY <2>5, <4>1, <4>2
    <3> QED
      BY <2>6, <2>11, <3>1 DEF AllKnown
  <2>13. UniqueIds'
    BY <2>6 DEF UniqueIds
  <2>14. NoneLeft'
    BY <2>2, <2>3, <2>4, <2>5, <2>6 DEF NoneLeft, Deletes, WithId
  <2>15. StillThere'
    <3>1. \A d \in Requests : request[d].kind = "delete" => request'[d] = request[d]
      BY <2>2, <2>4 DEF Deletes
    <3> QED
      BY <2>2, <2>3, <2>4, <2>6, <3>1 DEF StillThere, Creates, Client
  <2> QED
    BY <2>7, <2>8, <2>9, <2>10, <2>12, <2>13, <2>14, <2>15
<1>3. ASSUME NEW r \in Requests, RefuseCreate(r) PROVE ConnectorInv'
  <2>1. PlaceTells'
    BY <1>3 DEF RefuseCreate, PlaceTells, Calling, Creates, Deletes
  <2>2. ReplyTells'
    BY <1>3 DEF RefuseCreate, PlaceTells, ReplyTells, Creates, Deletes
  <2>3. WireTells' /\ NoneLeft'
    BY <1>3, WireQuiet, NoneQuiet DEF RefuseCreate
  <2> QED
    BY <1>3, <2>1, <2>2, <2>3, QuietStep DEF RefuseCreate
<1>4. ASSUME NEW r \in Requests, Call(r) PROVE ConnectorInv'
  <2>1. attempt[r] = 0 /\ attempt'[r] = 1 /\ reply[r] = "none"
    BY <1>4 DEF Call, PlaceTells
  <2>2. PlaceTells'
    BY <1>4, <2>1 DEF Call, PlaceTells, Calling, Creates, Deletes
  <2>3. ReplyTells' /\ NoneLeft'
    <3>1. UNCHANGED <<pool, request, reply, witnessed, effect, answer>>
      BY <1>4 DEF Call
    <3>2. \A s \in Requests \ {r} : attempt'[s] = attempt[s]
      BY <1>4 DEF Call
    <3>3. wire' = wire \cup {<<r, 1>>}
      BY <1>4 DEF Call
    <3>4. answer[r] = "none"
      BY <1>4 DEF Call, PlaceTells
    <3>5. NoneLeft'
      BY <3>1 DEF NoneLeft, Deletes
    <3>6. ReplyTells'
      BY <2>1, <3>1, <3>2, <3>3, <3>4 DEF ReplyTells, Creates, Deletes
    <3> QED
      BY <3>5, <3>6
  <2>4. WireTells'
    <3>1. \A n \in Attempts : effect[<<r, n>>] = {} /\ (n # 1 => witnessed[<<r, n>>] = {})
      BY <2>1, AttemptsCount DEF WireTells
    <3>2. UNCHANGED <<effect, witnessed>> /\ wire' = wire \cup {<<r, 1>>}
      BY <1>4 DEF Call
    <3>3. \A s \in Requests \ {r} : attempt'[s] = attempt[s]
      BY <1>4 DEF Call
    <3> SUFFICES ASSUME NEW s \in Requests, NEW n \in Attempts
                 PROVE  /\ <<s, n>> \in wire' => n <= attempt'[s] /\ effect'[<<s, n>>] = {}
                        /\ n > attempt'[s] => effect'[<<s, n>>] = {}
                        /\ n > attempt'[s] /\ n # 1 => witnessed'[<<s, n>>] = {}
      BY DEF WireTells
    <3>4. CASE s = r
      <4>1. <<r, n>> \notin wire
        BY <2>1, AttemptsCount DEF WireTells
      <4>2. <<r, n>> \in wire' => n = 1
        BY <4>1, <3>2
      <4> QED
        BY <3>4, <4>2, <2>1, <3>1, <3>2
    <3>5. CASE s # r
      <4>1. <<s, n>> \in wire' => <<s, n>> \in wire
        BY <3>2, <3>5
      <4> QED
        BY <4>1, <3>2, <3>3, <3>5 DEF WireTells
    <3> QED
      BY <3>4, <3>5
  <2> QED
    BY <1>4, <2>2, <2>3, <2>4, QuietStep DEF Call
<1>5. ASSUME NEW r \in Requests, FinishCreate(r) \/ FinishDelete(r) PROVE ConnectorInv'
  <2>1. UNCHANGED <<pool, request, attempt, wire, reply, witnessed, effect>>
    BY <1>5 DEF FinishCreate, FinishDelete
  <2>2. PlaceTells'
    BY <1>5 DEF FinishCreate, FinishDelete, PlaceTells, Calling, Creates, Deletes
  <2>3. ReplyTells'
    BY <1>5 DEF FinishCreate, FinishDelete, PlaceTells, ReplyTells, Creates, Deletes
  <2>4. WireTells' /\ NoneLeft'
    BY <2>1 DEF WireTells, NoneLeft, Deletes
  <2> QED
    BY <2>1, <2>2, <2>3, <2>4, QuietStep
<1>6. ASSUME NEW r \in Requests, AttemptFails(r) PROVE ConnectorInv'
  <2>1. PlaceTells'
    BY <1>6 DEF AttemptFails, PlaceTells, Calling, Creates, Deletes
  <2>2. ReplyTells'
    BY <1>6 DEF AttemptFails, PlaceTells, ReplyTells, Calling, Creates, Deletes
  <2>3. WireTells' /\ NoneLeft'
    BY <1>6, WireQuiet, NoneQuiet DEF AttemptFails
  <2> QED
    BY <1>6, <2>1, <2>2, <2>3, QuietStep DEF AttemptFails
<1>7. ASSUME NEW r \in Requests, Retry(r) PROVE ConnectorInv'
  <2> DEFINE n0 == attempt[r] + 1
  <2>1. n0 \in Attempts /\ n0 # 0 /\ attempt'[r] = n0
    BY <1>7, CognitoAssumption DEF Retry, Attempts
  <2>2. /\ witnessed'[<<r, n0>>] = WithId(request[r].key)
        /\ \A s \in Requests, n \in Attempts :
             <<s, n>> # <<r, n0>> => witnessed'[<<s, n>>] = witnessed[<<s, n>>]
    BY <1>7, <2>1, CallsOf DEF Retry
  <2>3. UNCHANGED <<pool, request, pc, effect, answer>> /\ reply'[r] = "none"
    BY <1>7 DEF Retry
  <2>4. PlaceTells'
    BY <1>7, <2>1 DEF Retry, PlaceTells, Calling, Creates, Deletes
  <2>5. ReplyTells'
    BY <1>7, <2>1, CallsOf DEF Retry, PlaceTells, ReplyTells, Calling, Creates, Deletes
  <2>6. WireTells'
    <3>1. \A n \in Attempts : n >= n0 => n > attempt[r]
      BY AttemptsCount
    <3>2. \A n \in Attempts : n >= n0 => effect[<<r, n>>] = {} /\ (n # 1 => witnessed[<<r, n>>] = {})
      BY <3>1 DEF WireTells
    <3>3. wire' = wire \cup {<<r, n0>>} /\ \A s \in Requests \ {r} : attempt'[s] = attempt[s]
      BY <1>7 DEF Retry
    <3> SUFFICES ASSUME NEW s \in Requests, NEW n \in Attempts
                 PROVE  /\ <<s, n>> \in wire' => n <= attempt'[s] /\ effect'[<<s, n>>] = {}
                        /\ n > attempt'[s] => effect'[<<s, n>>] = {}
                        /\ n > attempt'[s] /\ n # 1 => witnessed'[<<s, n>>] = {}
      BY DEF WireTells
    <3>4. CASE s = r
      <4>1. n > n0 => effect'[<<r, n>>] = {} /\ (n # 1 => witnessed'[<<r, n>>] = {})
        <5>1. n > n0 => n >= n0 /\ <<r, n>> # <<r, n0>>
          BY AttemptsCount
        <5> QED
          BY <5>1, <3>2, <2>2, <2>3
      <4>2. <<r, n>> \in wire' => n <= n0 /\ effect'[<<r, n>>] = {}
        <5>1. <<r, n>> \in wire => n <= attempt[r] /\ effect[<<r, n>>] = {}
          BY DEF WireTells
        <5>2. n = n0 => effect[<<r, n>>] = {} /\ n <= n0
          BY <3>2, AttemptsCount
        <5>3. n <= attempt[r] => n <= n0
          BY AttemptsCount
        <5> QED
          BY <5>1, <5>2, <5>3, <3>3, <2>3
      <4> QED
        BY <3>4, <4>1, <4>2, <2>1
    <3>5. CASE s # r
      <4>1. <<s, n>> \in wire' => <<s, n>> \in wire
        BY <3>3, <3>5
      <4>2. witnessed'[<<s, n>>] = witnessed[<<s, n>>]
        BY <2>2, <3>5
      <4> QED
        BY <4>1, <4>2, <2>3, <3>3, <3>5 DEF WireTells
    <3> QED
      BY <3>4, <3>5
  <2>7. EffectTells' /\ UniqueIds' /\ StillThere'
    <3>1. EffectTells'
      BY <2>3, EffectQuiet
    <3>2. UniqueIds'
      BY <2>3 DEF UniqueIds
    <3>3. StillThere'
      BY <2>3 DEF StillThere, Creates, Client
    <3> QED
      BY <3>1, <3>2, <3>3
  <2>8. AllKnown'
    <3>1. \A call \in Calls : witnessed'[call] = witnessed[call] \/ witnessed'[call] \subseteq pool
      <4> SUFFICES ASSUME NEW call \in Calls
                   PROVE  witnessed'[call] = witnessed[call] \/ witnessed'[call] \subseteq pool
        OBVIOUS
      <4>1. PICK s \in Requests, n \in Attempts : call = <<s, n>>
        BY CallsOf
      <4>2. WithId(request[r].key) \subseteq pool
        BY DEF WithId
      <4> QED
        BY <2>2, <4>1, <4>2
    <3>2. \A c : Known(c) => Known(c)'
      BY <2>3 DEF Known, Creates
    <3> QED
      BY <2>3, <3>1, <3>2 DEF AllKnown
  <2>9. NoneLeft'
    BY <1>7, <2>2, <2>3 DEF Retry, NoneLeft, Deletes, WithId
  <2> QED
    BY <2>4, <2>5, <2>6, <2>7, <2>8, <2>9
<1>8. ASSUME NEW r \in Requests, CallFails(r) \/ Disconnect(r) PROVE ConnectorInv'
  <2>1. UNCHANGED <<pool, request, attempt, wire, reply, witnessed, effect>>
    BY <1>8 DEF CallFails, Disconnect
  <2>2. PlaceTells'
    BY <1>8 DEF CallFails, Disconnect, PlaceTells, Active, Calling, Creates, Deletes
  <2>3. ReplyTells'
    BY <1>8 DEF CallFails, Disconnect, ReplyTells, Creates, Deletes
  <2>4. WireTells' /\ NoneLeft'
    BY <2>1 DEF WireTells, NoneLeft, Deletes
  <2> QED
    BY <2>1, <2>2, <2>3, <2>4, QuietStep
<1>9. ASSUME NEW r \in Requests, NEW n \in Attempts, PoolCreate(r, n) PROVE ConnectorInv'
  <2> DEFINE client == Client(r, n)
  <2>1. Creates(r) /\ <<r, n>> \in wire /\ effect[<<r, n>>] = {} /\ n <= attempt[r] /\ ~Deletes(r)
    BY <1>9 DEF PoolCreate, WireTells, Creates, Deletes
  <2>2. pool' = pool \cup {client} /\ UNCHANGED <<request, pc, attempt, witnessed, answer>>
    BY <1>9 DEF PoolCreate, Client
  <2>3. /\ effect'[<<r, n>>] = {client}
        /\ \A s \in Requests, m \in Attempts :
             <<s, m>> # <<r, n>> => effect'[<<s, m>>] = effect[<<s, m>>]
    BY <1>9, CallsOf DEF PoolCreate, Client
  <2>4. wire' = wire \ {<<r, n>>} /\ \A s \in Requests \ {r} : reply'[s] = reply[s]
    BY <1>9 DEF PoolCreate, Takes
  <2>5. \/ reply'[r] = reply[r] /\ (n # attempt[r] \/ reply[r] # "none")
        \/ reply'[r] = "done" /\ n = attempt[r]
    BY <1>9 DEF PoolCreate, Takes
  <2>6. /\ \A s \in Requests : (Creates(s)' <=> Creates(s)) /\ (Deletes(s)' <=> Deletes(s))
        /\ \A s \in Requests, m \in Attempts : Client(s, m)' = Client(s, m)
    BY <2>2 DEF Creates, Deletes, Client
  <2>7. \A c : Known(c) => c.uid # <<r, n>>
    BY <2>1, CallsOf DEF Known
  <2>8. client.uid = <<r, n>>
    BY DEF Client
  <2>9. \A c : Known(c) => Known(c)'
    <3> SUFFICES ASSUME NEW c, Known(c) PROVE Known(c)'
      OBVIOUS
    <3>1. CASE c.uid \in Others \ Calls
      BY <3>1 DEF Known
    <3>2. ASSUME NEW s \in Requests, NEW m \in Attempts, c.uid = <<s, m>>, Creates(s), effect[<<s, m>>] # {}
          PROVE Known(c)'
      BY <3>2, <2>3, <2>6, <2>7 DEF Known
    <3> QED
      BY <3>1, <3>2 DEF Known
  <2>10. \A c : c = client => Known(c)'
    BY <2>1, <2>3, <2>6, <2>8 DEF Known
  <2>11. PlaceTells'
    BY <2>1, <2>2, <2>4, <2>5, AttemptsCount DEF PlaceTells, Calling, Creates, Deletes
  <2>12. ReplyTells'
    <3> SUFFICES ASSUME NEW s \in Requests
                 PROVE  /\ reply'[s] \in {"done", "missing", "refused"} => <<s, attempt[s]>> \notin wire'
                        /\ reply'[s] = "done" => effect'[<<s, attempt[s]>>] # {}
                        /\ reply'[s] = "missing" => Deletes(s) /\ effect'[<<s, attempt[s]>>] = {}
                        /\ answer[s] = "201" => Creates(s) /\ reply'[s] = "done"
                        /\ answer[s] = "204" => Deletes(s) /\ reply'[s] = "done"
                        /\ answer[s] = "404" => Deletes(s) /\ reply'[s] = "missing"
                        /\ answer[s] = "400" => Creates(s) /\ attempt[s] = 0
      BY <2>2, <2>6 DEF ReplyTells
    <3>1. CASE s # r
      <4>1. \A m \in Attempts : effect'[<<s, m>>] = effect[<<s, m>>]
        BY <2>3, <3>1
      <4>2. reply[s] # "none" => attempt[s] \in Attempts
        BY AttemptsCount, CognitoAssumption DEF PlaceTells, Attempts
      <4> QED
        BY <4>1, <4>2, <2>4, <3>1 DEF ReplyTells
    <3>2. CASE s = r /\ reply'[r] = reply[r] /\ (n # attempt[r] \/ reply[r] # "none")
      <4>1. reply[r] \in {"done", "missing", "refused"} => n # attempt[r]
        BY <2>1 DEF ReplyTells
      <4>2. reply[r] # "none" => attempt[r] \in Attempts
        BY AttemptsCount, CognitoAssumption DEF PlaceTells, Attempts
      <4>3. reply[r] \in {"done", "missing", "refused"} =>
              effect'[<<r, attempt[r]>>] = effect[<<r, attempt[r]>>]
        BY <4>1, <4>2, <2>3
      <4> QED
        BY <3>2, <4>3, <2>4 DEF ReplyTells
    <3>3. CASE s = r /\ reply'[r] = "done" /\ n = attempt[r]
      <4>1. reply[r] \notin {"done", "missing", "refused"} 
        BY <2>1, <3>3 DEF ReplyTells
      <4> QED
        BY <3>3, <4>1, <2>1, <2>3, <2>4 DEF ReplyTells
    <3> QED
      BY <2>5, <3>1, <3>2, <3>3
  <2>13. WireTells'
    <3> SUFFICES ASSUME NEW s \in Requests, NEW m \in Attempts
                 PROVE  /\ <<s, m>> \in wire' => m <= attempt[s] /\ effect'[<<s, m>>] = {}
                        /\ m > attempt[s] => effect'[<<s, m>>] = {}
                        /\ m > attempt[s] /\ m # 1 => witnessed[<<s, m>>] = {}
      BY <2>2 DEF WireTells
    <3>1. CASE <<s, m>> = <<r, n>>
      BY <3>1, <2>1, <2>4, AttemptsCount DEF WireTells
    <3>2. CASE <<s, m>> # <<r, n>>
      <4>1. effect'[<<s, m>>] = effect[<<s, m>>] /\ (<<s, m>> \in wire' => <<s, m>> \in wire)
        BY <3>2, <2>3, <2>4
      <4> QED
        BY <4>1 DEF WireTells
    <3> QED
      BY <3>1, <3>2
  <2>14. EffectTells'
    <3> SUFFICES ASSUME NEW s \in Requests, NEW m \in Attempts PROVE EffectOf(s, m)'
      BY DEF EffectTells
    <3>1. CASE s = r /\ m = n
      BY <3>1, <2>1, <2>3, <2>6 DEF EffectOf
    <3>2. CASE <<s, m>> # <<r, n>>
      BY <3>2, <2>2, <2>3, EffectSame DEF EffectTells
    <3> QED
      BY <3>1, <3>2
  <2>15. AllKnown'
    BY <2>2, <2>9, <2>10 DEF AllKnown
  <2>16. UniqueIds'
    BY <2>2, <2>7, <2>8 DEF UniqueIds, AllKnown
  <2>17. NoneLeft'
    <3>1. \A s \in Requests : Deletes(s) => reply'[s] = reply[s]
      BY <2>1, <2>4
    <3>2. \A call \in Calls : client \notin witnessed[call]
      BY <2>7, <2>8 DEF AllKnown
    <3> QED
      BY <3>1, <3>2, <2>2, <2>6, CallsOf DEF NoneLeft
  <2>18. StillThere'
    <3> SUFFICES ASSUME NEW s \in Requests, NEW m \in Attempts, Creates(s), effect'[<<s, m>>] # {}
                 PROVE  \/ Client(s, m) \in pool'
                        \/ \E d \in Requests : request'[d] = [kind |-> "delete", key |-> <<s, m>>]
      BY <2>6 DEF StillThere
    <3>1. CASE <<s, m>> = <<r, n>>
      BY <3>1, <2>2
    <3>2. CASE <<s, m>> # <<r, n>>
      BY <3>2, <2>2, <2>3 DEF StillThere
    <3> QED
      BY <3>1, <3>2
  <2> QED
    BY <2>11, <2>12, <2>13, <2>14, <2>15, <2>16, <2>17, <2>18
<1>10. ASSUME NEW r \in Requests, NEW n \in Attempts, PoolDelete(r, n) PROVE ConnectorInv'
  <2> DEFINE gone == WithId(request[r].key)
  <2>1. Deletes(r) /\ <<r, n>> \in wire /\ effect[<<r, n>>] = {} /\ n <= attempt[r] /\ ~Creates(r)
    BY <1>10 DEF PoolDelete, WireTells, Creates, Deletes
  <2>2. pool' = pool \ gone /\ UNCHANGED <<request, pc, attempt, witnessed, answer>>
    BY <1>10 DEF PoolDelete
  <2>3. /\ effect'[<<r, n>>] = gone
        /\ \A s \in Requests, m \in Attempts :
             <<s, m>> # <<r, n>> => effect'[<<s, m>>] = effect[<<s, m>>]
    BY <1>10, CallsOf DEF PoolDelete
  <2>4. wire' = wire \ {<<r, n>>} /\ \A s \in Requests \ {r} : reply'[s] = reply[s]
    BY <1>10 DEF PoolDelete, Takes
  <2>5. \/ reply'[r] = reply[r] /\ (n # attempt[r] \/ reply[r] # "none")
        \/ reply'[r] = "done" /\ gone # {} /\ n = attempt[r] /\ reply[r] = "none"
        \/ reply'[r] = "missing" /\ gone = {} /\ n = attempt[r] /\ reply[r] = "none"
        \/ reply'[r] = "refused" /\ n = attempt[r] /\ reply[r] = "none"
    <3>1. request[r].key = NoKey => gone = {}
      BY CognitoAssumption DEF WithId, Clients
    <3> QED
      BY <1>10, <3>1 DEF PoolDelete, Takes
  <2>6. /\ \A s \in Requests : (Creates(s)' <=> Creates(s)) /\ (Deletes(s)' <=> Deletes(s))
        /\ \A s \in Requests, m \in Attempts : Client(s, m)' = Client(s, m)
    BY <2>2 DEF Creates, Deletes, Client
  <2>7. \A c : Known(c) => Known(c)'
    <3> SUFFICES ASSUME NEW c, Known(c) PROVE Known(c)'
      OBVIOUS
    <3>1. CASE c.uid \in Others \ Calls
      BY <3>1 DEF Known
    <3>2. ASSUME NEW s \in Requests, NEW m \in Attempts, c.uid = <<s, m>>, Creates(s), effect[<<s, m>>] # {}
          PROVE Known(c)'
      <4>1. effect'[<<s, m>>] = effect[<<s, m>>]
        BY <3>2, <2>1, <2>3
      <4> QED
        BY <3>2, <4>1, <2>6 DEF Known
    <3> QED
      BY <3>1, <3>2 DEF Known
  <2>8. PlaceTells'
    BY <2>1, <2>2, <2>4, <2>5, AttemptsCount DEF PlaceTells, Calling, Creates, Deletes
  <2>9. ReplyTells'
    <3> SUFFICES ASSUME NEW s \in Requests
                 PROVE  /\ reply'[s] \in {"done", "missing", "refused"} => <<s, attempt[s]>> \notin wire'
                        /\ reply'[s] = "done" => effect'[<<s, attempt[s]>>] # {}
                        /\ reply'[s] = "missing" => Deletes(s) /\ effect'[<<s, attempt[s]>>] = {}
                        /\ answer[s] = "201" => Creates(s) /\ reply'[s] = "done"
                        /\ answer[s] = "204" => Deletes(s) /\ reply'[s] = "done"
                        /\ answer[s] = "404" => Deletes(s) /\ reply'[s] = "missing"
                        /\ answer[s] = "400" => Creates(s) /\ attempt[s] = 0
      BY <2>2, <2>6 DEF ReplyTells
    <3>1. CASE s # r
      <4>1. \A m \in Attempts : effect'[<<s, m>>] = effect[<<s, m>>]
        BY <2>3, <3>1
      <4>2. reply[s] # "none" => attempt[s] \in Attempts
        BY AttemptsCount, CognitoAssumption DEF PlaceTells, Attempts
      <4> QED
        BY <4>1, <4>2, <2>4, <3>1 DEF ReplyTells
    <3>2. CASE s = r /\ reply'[r] = reply[r] /\ (n # attempt[r] \/ reply[r] # "none")
      <4>1. reply[r] \in {"done", "missing", "refused"} => n # attempt[r]
        BY <2>1 DEF ReplyTells
      <4>2. reply[r] # "none" => attempt[r] \in Attempts
        BY AttemptsCount, CognitoAssumption DEF PlaceTells, Attempts
      <4>3. reply[r] \in {"done", "missing", "refused"} =>
              effect'[<<r, attempt[r]>>] = effect[<<r, attempt[r]>>]
        BY <4>1, <4>2, <2>3
      <4> QED
        BY <3>2, <4>3, <2>4 DEF ReplyTells
    <3>3. CASE s = r /\ n = attempt[r] /\ reply[r] = "none"
      BY <3>3, <2>1, <2>3, <2>4, <2>5 DEF ReplyTells
    <3> QED
      BY <2>5, <3>1, <3>2, <3>3
  <2>10. WireTells'
    <3> SUFFICES ASSUME NEW s \in Requests, NEW m \in Attempts
                 PROVE  /\ <<s, m>> \in wire' => m <= attempt[s] /\ effect'[<<s, m>>] = {}
                        /\ m > attempt[s] => effect'[<<s, m>>] = {}
                        /\ m > attempt[s] /\ m # 1 => witnessed[<<s, m>>] = {}
      BY <2>2 DEF WireTells
    <3>1. CASE <<s, m>> = <<r, n>>
      BY <3>1, <2>1, <2>4, AttemptsCount DEF WireTells
    <3>2. CASE <<s, m>> # <<r, n>>
      BY <3>2, <2>3, <2>4 DEF WireTells
    <3> QED
      BY <3>1, <3>2
  <2>11. EffectTells'
    <3> SUFFICES ASSUME NEW s \in Requests, NEW m \in Attempts PROVE EffectOf(s, m)'
      BY DEF EffectTells
    <3>1. CASE s = r /\ m = n
      <4>1. \A c \in gone : c.uid = request[r].key /\ gone = {c}
        BY DEF WithId, UniqueIds
      <4> QED
        BY <3>1, <4>1, <2>1, <2>2, <2>3, <2>6 DEF EffectOf
    <3>2. CASE <<s, m>> # <<r, n>>
      BY <3>2, <2>2, <2>3, EffectSame DEF EffectTells
    <3> QED
      BY <3>1, <3>2
  <2>12. AllKnown'
    BY <2>2, <2>7 DEF AllKnown
  <2>13. UniqueIds'
    BY <2>2 DEF UniqueIds
  <2>14. NoneLeft'
    <3> SUFFICES ASSUME NEW s \in Requests, Deletes(s)
                 PROVE  /\ \A m \in Attempts : \A c \in witnessed[<<s, m>>] : c.uid = request[s].key
                        /\ reply'[s] \in {"done", "missing"} =>
                             \A m \in Attempts : witnessed[<<s, m>>] \cap pool' = {}
      BY <2>2, <2>6 DEF NoneLeft
    <3>1. CASE s # r
      BY <3>1, <2>2, <2>4 DEF NoneLeft
    <3>2. CASE s = r
      <4>1. \A c \in pool' : c.uid # request[r].key
        BY <2>2 DEF WithId
      <4> QED
        BY <3>2, <4>1 DEF NoneLeft
    <3> QED
      BY <3>1, <3>2
  <2>15. StillThere'
    <3> SUFFICES ASSUME NEW s \in Requests, NEW m \in Attempts, Creates(s), effect'[<<s, m>>] # {}
                 PROVE  \/ Client(s, m) \in pool'
                        \/ \E d \in Requests : request[d] = [kind |-> "delete", key |-> <<s, m>>]
      BY <2>2, <2>6 DEF StillThere
    <3>1. effect[<<s, m>>] # {}
      BY <2>1, <2>3
    <3>2. CASE Client(s, m) \in gone
      <4>1. request[r].key = <<s, m>>
        BY <3>2 DEF WithId, Client
      <4>2. request[r] = [kind |-> "delete", key |-> <<s, m>>]
        BY <4>1, <2>1 DEF Deletes, Request, NoRequest
      <4> QED
        BY <4>2
    <3>3. CASE Client(s, m) \notin gone
      BY <3>1, <3>3, <2>2 DEF StillThere
    <3> QED
      BY <3>2, <3>3
  <2> QED
    BY <2>8, <2>9, <2>10, <2>11, <2>12, <2>13, <2>14, <2>15
<1> QED
  BY <1>1, <1>2, <1>3, <1>4, <1>5, <1>6, <1>7, <1>8, <1>9, <1>10 DEF Next, Handle, CarryOut

------------------------------------------------------------------------------
(* That an id was absent when it was not found. *)

\* An attempt for whose id there is no client has been recorded ...
Recorded == \A r \in Requests, n \in Attempts : Unmatched(r, n) => <<r, n>> \in absent

\* ... so that Cognito tells the SDK, and the portal is told, only what was true.
MissingWasTrue ==
  \A r \in Requests :
    reply[r] = "missing" /\ answer[r] \in {"none", "404"} => <<r, attempt[r]>> \in absent

AbsentInv == Recorded /\ MissingWasTrue

\* A step after which no new id can be unmatched.
LEMMA UnmatchedQuiet ==
  ASSUME TypeOK, UNCHANGED <<request, attempt>>, pool \subseteq pool',
         \A r \in Requests : /\ answer'[r] = "none" => answer[r] = "none"
                             /\ reply[r] = "lost" => reply'[r] = "lost"
  PROVE  \A r \in Requests, n \in Attempts : Unmatched(r, n)' => Unmatched(r, n)
  BY DEF Unmatched, Made, Superseded, WithId

LEMMA RecordedQuiet ==
  ASSUME TypeOK, Recorded, UNCHANGED <<request, attempt, absent>>, pool \subseteq pool',
         \A r \in Requests : /\ answer'[r] = "none" => answer[r] = "none"
                             /\ reply[r] = "lost" => reply'[r] = "lost"
  PROVE  Recorded'
  BY UnmatchedQuiet DEF Recorded

LEMMA RecordedObserved ==
  ASSUME Observe
  PROVE  Recorded' /\ absent \subseteq absent'
  BY CallsOf DEF Observe, Recorded

LEMMA AbsentStep == TypeOK /\ ConnectorInv /\ AbsentInv /\ [Next]_vars => AbsentInv'
<1> SUFFICES ASSUME TypeOK, ConnectorInv, AbsentInv, [Next]_vars PROVE AbsentInv'
  OBVIOUS
<1> USE DEF TypeOK, ConnectorInv, AbsentInv, Goto, Reply
<1>1. CASE UNCHANGED vars
  BY <1>1, RecordedQuiet DEF vars, MissingWasTrue
<1>2. ASSUME NEW r \in Requests, NEW q \in Request, Receive(r, q) PROVE AbsentInv'
  BY <1>2, RecordedObserved DEF Receive, MissingWasTrue
<1>3. ASSUME NEW r \in Requests, RefuseCreate(r) \/ FinishCreate(r) \/ CallFails(r) \/ Disconnect(r)
      PROVE  AbsentInv'
  <2>1. /\ UNCHANGED <<pool, request, attempt, reply, absent>>
        /\ \A s \in Requests : answer'[s] \in {"none", "404"} => answer'[s] = answer[s]
    BY <1>3 DEF RefuseCreate, FinishCreate, CallFails, Disconnect
  <2> QED
    BY <2>1, RecordedQuiet DEF MissingWasTrue
<1>4. ASSUME NEW r \in Requests, Call(r) PROVE AbsentInv'
  <2>1. /\ attempt[r] = 0 /\ attempt'[r] = 1 /\ reply[r] = "none"
        /\ \A s \in Requests \ {r} : attempt'[s] = attempt[s]
        /\ UNCHANGED <<pool, request, reply, answer, absent>>
    BY <1>4 DEF Call, PlaceTells
  <2>2. \A s \in Requests, n \in Attempts : Unmatched(s, n)' => Unmatched(s, n)
    BY <2>1, AttemptsCount DEF Unmatched, Made, Superseded, WithId
  <2> QED
    BY <2>1, <2>2 DEF Recorded, MissingWasTrue
<1>5. ASSUME NEW r \in Requests, FinishDelete(r) PROVE AbsentInv'
  <2>1. /\ UNCHANGED <<pool, request, attempt, reply, absent>> /\ answer[r] = "none"
        /\ \A s \in Requests \ {r} : answer'[s] = answer[s]
        /\ answer'[r] # "none"
    BY <1>5 DEF FinishDelete, PlaceTells
  <2> QED
    BY <2>1, RecordedQuiet DEF MissingWasTrue
<1>6. ASSUME NEW r \in Requests, AttemptFails(r) PROVE AbsentInv'
  BY <1>6, RecordedQuiet DEF AttemptFails, MissingWasTrue
<1>7. ASSUME NEW r \in Requests, Retry(r) PROVE AbsentInv'
  BY <1>7, RecordedObserved DEF Retry, MissingWasTrue
<1>8. ASSUME NEW r \in Requests, NEW n \in Attempts, PoolCreate(r, n) PROVE AbsentInv'
  <2>1. /\ UNCHANGED <<request, attempt, answer, absent>> /\ pool \subseteq pool'
        /\ \A s \in Requests : reply'[s] \in {reply[s], "done"} /\ (reply[s] = "lost" => reply'[s] = "lost")
    BY <1>8 DEF PoolCreate, Takes
  <2> QED
    BY <2>1, RecordedQuiet DEF MissingWasTrue
<1>9. ASSUME NEW r \in Requests, NEW n \in Attempts, PoolDelete(r, n) PROVE AbsentInv'
  <2>1. Observe /\ UNCHANGED <<request, attempt, answer>> /\ Deletes(r) /\ <<r, n>> \in wire
    BY <1>9 DEF PoolDelete, Deletes
  <2>2. \A s \in Requests \ {r} : reply'[s] = reply[s]
    BY <1>9 DEF PoolDelete, Takes
  <2>3. reply'[r] = "missing" =>
          \/ reply[r] = "missing"
          \/ n = attempt[r] /\ reply[r] = "none" /\ WithId(request[r].key) = {}
    BY <1>9 DEF PoolDelete, Takes
  <2>4. ASSUME reply'[r] = "missing", answer[r] \in {"none", "404"} PROVE <<r, attempt[r]>> \in absent
    <3>1. CASE reply[r] = "missing"
      BY <2>4, <3>1 DEF MissingWasTrue
    <3>2. CASE n = attempt[r] /\ reply[r] = "none" /\ WithId(request[r].key) = {}
      <4>1. answer[r] = "none"
        BY <2>4, <3>2 DEF ReplyTells
      <4>2. Unmatched(r, n)
        BY <2>1, <3>2, <4>1, AttemptsCount DEF Unmatched, Made, Superseded, Deletes
      <4> QED
        BY <3>2, <4>2 DEF Recorded
    <3> QED
      BY <2>3, <2>4, <3>1, <3>2
  <2> QED
    BY <2>1, <2>2, <2>4, RecordedObserved DEF MissingWasTrue
<1> QED
  BY <1>1, <1>2, <1>3, <1>4, <1>5, <1>6, <1>7, <1>8, <1>9 DEF Next, Handle, CarryOut

------------------------------------------------------------------------------
Inv == TypeOK /\ ConnectorInv /\ AbsentInv

LEMMA Initially == Init => Inv
<1> SUFFICES ASSUME Init PROVE Inv
  OBVIOUS
<1> USE DEF Init
<1>1. TypeOK
  BY CognitoAssumption DEF TypeOK, Clients, Uids
<1>2. PlaceTells /\ ReplyTells
  BY DEF PlaceTells, ReplyTells, NoRequest, Creates, Deletes, Calling
<1>3. WireTells /\ EffectTells /\ StillThere
  BY CallsOf DEF WireTells, EffectTells, EffectOf, StillThere, Creates, Deletes, NoRequest
<1>4. AllKnown /\ UniqueIds
  BY CognitoAssumption DEF AllKnown, UniqueIds, Known
<1>5. NoneLeft
  BY DEF NoneLeft, Deletes, NoRequest
<1>6. AbsentInv
  BY DEF AbsentInv, Recorded, MissingWasTrue, Unmatched, NoRequest
<1> QED
  BY <1>1, <1>2, <1>3, <1>4, <1>5, <1>6 DEF Inv, ConnectorInv

LEMMA Invariant == Spec => []Inv
<1>1. Inv /\ [Next]_vars => Inv'
  BY TypeStep, ConnectorStep, AbsentStep DEF Inv, ConnectorInv
<1> QED
  BY Initially, <1>1, PTL DEF Spec

(* Every variable keeps its type. *)
THEOREM TypeCorrect == Spec => []TypeOK
<1>1. Inv => TypeOK
  BY DEF Inv
<1> QED
  BY Invariant, <1>1, PTL

(* However often the SDK sends the call of a delete that is answered 204 or  *)
(* 404, no client of that id is left which was there when it came in.        *)
THEOREM DeletesLeaveNone == Spec => []DeleteLeavesNone
<1>1. Inv => DeleteLeavesNone
  BY CallsOf DEF Inv, ConnectorInv, ReplyTells, NoneLeft, DeleteLeavesNone, Deletes
<1> QED
  BY Invariant, <1>1, PTL

(* The client whose id and secret a 201 hands out is the one that its last   *)
(* attempt created, and it is there until a delete asks for that id.         *)
THEOREM CreatesHandOut == Spec => []HandsOutItsClient
<1>1. ASSUME Inv PROVE HandsOutItsClient
  <2> SUFFICES ASSUME NEW r \in Requests, answer[r] = "201"
               PROVE  /\ effect[<<r, attempt[r]>>] = {Client(r, attempt[r])}
                      /\ \/ Client(r, attempt[r]) \in pool
                         \/ \E d \in Requests :
                              request[d] = [kind |-> "delete", key |-> <<r, attempt[r]>>]
    BY DEF HandsOutItsClient, Client
  <2>1. Creates(r) /\ reply[r] = "done" /\ effect[<<r, attempt[r]>>] # {}
    BY <1>1 DEF Inv, ConnectorInv, ReplyTells
  <2>2. attempt[r] \in Attempts
    BY <1>1, <2>1, AttemptsCount, CognitoAssumption
       DEF Inv, TypeOK, ConnectorInv, PlaceTells, Attempts
  <2> QED
    BY <1>1, <2>1, <2>2 DEF Inv, ConnectorInv, EffectTells, EffectOf, StillThere
<1> QED
  BY Invariant, <1>1, PTL

(* A create answered 201 leaves at least one client and at most one for each  *)
(* attempt the SDK has made: the client handed out and no more than the       *)
(* retries can add.                                                           *)
CreatedBy(r) == UNION {effect[<<r, n>>] : n \in Attempts}

THEOREM CreatesAtMostAttempts ==
  Spec => [](\A r \in Requests :
               answer[r] = "201" => Cardinality(CreatedBy(r)) \in 1 .. attempt[r])
<1>1. ASSUME Inv, NEW r \in Requests, answer[r] = "201"
      PROVE  Cardinality(CreatedBy(r)) \in 1 .. attempt[r]
  <2> DEFINE Number == [c \in CreatedBy(r) |-> c.uid[2]]
             K == attempt[r]
  <2>1. Creates(r) /\ K \in 0 .. MaxAttempts /\ effect[<<r, K>>] # {}
    BY <1>1 DEF Inv, TypeOK, ConnectorInv, ReplyTells
  <2>2. K \in Attempts /\ K \in Int
    BY <1>1, <2>1, CognitoAssumption DEF Inv, ConnectorInv, PlaceTells, ReplyTells, Attempts
  <2>3. ASSUME NEW n \in Attempts, NEW c \in effect[<<r, n>>]
        PROVE  n \in 1 .. K /\ c = Client(r, n)
    <3>1. n > K => effect[<<r, n>>] = {}
      BY <1>1 DEF Inv, ConnectorInv, WireTells
    <3>2. c = Client(r, n)
      BY <1>1, <2>1, <2>3 DEF Inv, ConnectorInv, EffectTells, EffectOf
    <3> QED
      BY <2>2, <2>3, <3>1, <3>2 DEF Attempts
  <2>4. \A c \in CreatedBy(r) : \E n \in 1 .. K : c = Client(r, n)
    BY <2>3 DEF CreatedBy
  <2>5. Number \in Injection(CreatedBy(r), 1 .. K)
    BY <2>4 DEF Injection, IsInjective, Client
  <2>6. IsFiniteSet(1 .. K) /\ Cardinality(1 .. K) = K
    <3>1. 1 \in Int /\ ~(1 > K)
      BY <2>2 DEF Attempts
    <3> QED
      BY <2>2, <3>1, FS_Interval
  <2>7. IsFiniteSet(CreatedBy(r)) /\ Cardinality(CreatedBy(r)) <= K
    <3> HIDE DEF Number, K
    <3> QED
      BY <2>5, <2>6, FS_Injection
  <2>8. CreatedBy(r) # {}
    BY <2>1, <2>2 DEF CreatedBy
  <2>9. Cardinality(CreatedBy(r)) \in Nat /\ Cardinality(CreatedBy(r)) # 0
    BY <2>7, <2>8, FS_CardinalityType, FS_EmptySet
  <2> QED
    BY <2>2, <2>7, <2>9
<1>2. Inv => \A r \in Requests : answer[r] = "201" => Cardinality(CreatedBy(r)) \in 1 .. attempt[r]
  BY <1>1
<1> QED
  BY <1>2, Invariant, PTL

(* "Creates an OAuth2 client" is true in every run in which the SDK never     *)
(* sends a call a second time.                                                *)
THEOREM CreatesOneIfSentOnce ==
  Spec /\ [](\A r \in Requests : attempt[r] <= 1) => []CreatesOne
<1>1. /\ Inv
      /\ \A r \in Requests : attempt[r] <= 1
      /\ \A r \in Requests : answer[r] = "201" => Cardinality(CreatedBy(r)) \in 1 .. attempt[r]
      => CreatesOne
  <2> SUFFICES ASSUME NEW r \in Requests, TypeOK, attempt[r] <= 1,
                      Cardinality(CreatedBy(r)) \in 1 .. attempt[r]
               PROVE  Cardinality(CreatedBy(r)) = 1
    BY DEF CreatesOne, CreatedBy, Inv
  <2> QED
    BY DEF TypeOK
<1> QED
  BY <1>1, Invariant, CreatesAtMostAttempts, PTL

------------------------------------------------------------------------------
(* The refinement: each attempt of the SDK is a request of its own.  The     *)
(* assumptions of ClientRegistry hold of what replaces its constants.        *)
LEMMA PromiseAssumption ==
  LET Keys == Names \cup Uids \cup {NoKey}
  IN  /\ NoKey \in Keys
      /\ [c \in Clients |-> c.name] \in [Clients -> Keys \ {NoKey}]
      /\ [c \in Clients |-> {c.uid}] \in [Clients -> SUBSET (Keys \ {NoKey})]
      /\ Preexisting \subseteq Clients
  BY CognitoAssumption DEF Clients, Uids

LEMMA SelectedById ==
  ASSUME TypeOK, NEW key
  PROVE  Registry!Selected(key) = WithId(key)
  BY DEF TypeOK, Registry!Selected, WithId

(* What the abstract request and answer of an attempt are. *)
LEMMA Mapped ==
  ASSUME NEW r \in Requests, NEW n \in Attempts
  PROVE  /\ <<r, n>> \in Calls
         /\ CallRequest[<<r, n>>] = IF Made(r, n) THEN request[r] ELSE NoRequest
         /\ CallAnswer[<<r, n>>] = IF Superseded(r, n) THEN "dropped"
                                   ELSE IF Made(r, n) THEN answer[r] ELSE "none"
  BY CallsOf DEF CallRequest, CallAnswer

LEMMA MappedNext ==
  ASSUME NEW r \in Requests, NEW n \in Attempts
  PROVE  /\ CallRequest'[<<r, n>>] = IF Made(r, n)' THEN request'[r] ELSE NoRequest
         /\ CallAnswer'[<<r, n>>] = IF Superseded(r, n)' THEN "dropped"
                                    ELSE IF Made(r, n)' THEN answer'[r] ELSE "none"
  BY CallsOf DEF CallRequest, CallAnswer

(* So the two observe the same.                                              *)
LEMMA ObservesSame ==
  ASSUME TypeOK', Observe
  PROVE  Registry!Observe
<1>1. ASSUME NEW r \in Requests, NEW n \in Attempts
      PROVE  Registry!Unmatched(<<r, n>>)' <=> Unmatched(r, n)'
  <2>1. Registry!Selected(request[r].key)' = WithId(request[r].key)'
    BY DEF TypeOK, Registry!Selected, WithId
  <2>2. CASE Made(r, n)' /\ ~Superseded(r, n)'
    <3>1. CallRequest'[<<r, n>>] = request'[r] /\ CallAnswer'[<<r, n>>] = answer'[r]
      BY <2>2, MappedNext
    <3> QED
      BY <2>1, <2>2, <3>1 DEF Registry!Unmatched, Registry!Asks, Unmatched, Registry!Selected, WithId
  <2>3. CASE ~Made(r, n)'
    <3>1. CallRequest'[<<r, n>>] = NoRequest
      BY <2>3, MappedNext
    <3> QED
      BY <2>3, <3>1 DEF Registry!Unmatched, Registry!Asks, Unmatched, NoRequest
  <2>4. CASE Superseded(r, n)'
    <3>1. CallAnswer'[<<r, n>>] = "dropped"
      BY <2>4, MappedNext
    <3> QED
      BY <2>4, <3>1 DEF Registry!Unmatched, Unmatched
  <2> QED
    BY <2>2, <2>3, <2>4
<1>2. \A call \in Calls : Registry!Unmatched(call)' <=> Unmatched(call[1], call[2])'
  BY <1>1, CallsOf
<1> QED
  BY <1>2 DEF Observe, Registry!Observe

(* Functions of calls are equal, or differ in one place, by calls.           *)
LEMMA OneCall ==
  ASSUME NEW f, NEW g, DOMAIN f = Calls, DOMAIN g = Calls,
         f = [call \in DOMAIN f |-> f[call]], g = [call \in DOMAIN g |-> g[call]],
         NEW r \in Requests, NEW n \in Attempts,
         \A s \in Requests, m \in Attempts : <<s, m>> # <<r, n>> => g[<<s, m>>] = f[<<s, m>>]
  PROVE  g = [f EXCEPT ![<<r, n>>] = g[<<r, n>>]]
<1>1. \A call \in Calls : call # <<r, n>> => g[call] = f[call]
  BY CallsOf
<1> QED
  BY <1>1

LEMMA NoCall ==
  ASSUME NEW f, NEW g, DOMAIN f = Calls, DOMAIN g = Calls,
         f = [call \in DOMAIN f |-> f[call]], g = [call \in DOMAIN g |-> g[call]],
         \A s \in Requests, m \in Attempts : g[<<s, m>>] = f[<<s, m>>]
  PROVE  g = f
<1>1. \A call \in Calls : g[call] = f[call]
  BY CallsOf
<1> QED
  BY <1>1

LEMMA MappedFunctions ==
  /\ DOMAIN CallRequest = Calls /\ CallRequest = [call \in DOMAIN CallRequest |-> CallRequest[call]]
  /\ DOMAIN CallAnswer = Calls /\ CallAnswer = [call \in DOMAIN CallAnswer |-> CallAnswer[call]]
  /\ DOMAIN CallRequest' = Calls /\ CallRequest' = [call \in DOMAIN CallRequest' |-> CallRequest'[call]]
  /\ DOMAIN CallAnswer' = Calls /\ CallAnswer' = [call \in DOMAIN CallAnswer' |-> CallAnswer'[call]]
  BY DEF CallRequest, CallAnswer

(* A step that changes neither the attempts nor whether one is superseded    *)
(* changes the mapped request and answer only as far as the real ones.       *)
LEMMA MappedSame ==
  ASSUME UNCHANGED <<request, attempt, answer>>,
         \A r \in Requests : attempt[r] # 0 => (reply'[r] = "lost" <=> reply[r] = "lost"),
         TypeOK
  PROVE  UNCHANGED <<CallRequest, CallAnswer>>
<1>1. \A r \in Requests, n \in Attempts :
        (Made(r, n)' <=> Made(r, n)) /\ (Superseded(r, n)' <=> Superseded(r, n))
  BY AttemptsCount DEF Made, Superseded
<1>2. \A r \in Requests, n \in Attempts :
        CallRequest'[<<r, n>>] = CallRequest[<<r, n>>] /\ CallAnswer'[<<r, n>>] = CallAnswer[<<r, n>>]
  <2> TAKE r \in Requests, n \in Attempts
  <2>1. (Made(r, n)' <=> Made(r, n)) /\ (Superseded(r, n)' <=> Superseded(r, n))
    BY <1>1
  <2> QED
    BY <2>1, <1>1, Mapped, MappedNext
<1>3. CallRequest' = CallRequest
  BY <1>2, MappedFunctions, NoCall
<1>4. CallAnswer' = CallAnswer
  BY <1>2, MappedFunctions, NoCall
<1> QED
  BY <1>3, <1>4

(* The attempt that the portal's answer stands for.                          *)
Last(r) == IF attempt[r] = 0 THEN 1 ELSE attempt[r]

LEMMA LastOne ==
  ASSUME Inv, NEW r \in Requests, answer[r] = "none", request[r] # NoRequest
  PROVE  /\ Last(r) \in Attempts
         /\ CallRequest[<<r, Last(r)>>] = request[r]
         /\ reply[r] # "lost" => CallAnswer[<<r, Last(r)>>] = "none"
<1>1. Last(r) \in Attempts
  BY CognitoAssumption DEF Last, Inv, TypeOK, Attempts
<1>2. Made(r, Last(r)) /\ (reply[r] # "lost" => ~Superseded(r, Last(r)))
  BY AttemptsCount, <1>1 DEF Inv, Last, Made, Superseded
<1> QED
  BY <1>1, <1>2, Mapped

(* An answer to the portal answers that attempt, unless its own answer was   *)
(* lost already.                                                             *)
LEMMA AnswerMapped ==
  ASSUME Inv, NEW r \in Requests, NEW code, answer[r] = "none", request[r] # NoRequest,
         answer' = [answer EXCEPT ![r] = code], UNCHANGED <<request, attempt, reply>>
  PROVE  /\ CallRequest' = CallRequest
         /\ reply[r] = "lost" => CallAnswer' = CallAnswer
         /\ reply[r] # "lost" => CallAnswer' = [CallAnswer EXCEPT ![<<r, Last(r)>>] = code]
<1>1. \A s \in Requests, n \in Attempts :
        (Made(s, n)' <=> Made(s, n)) /\ (Superseded(s, n)' <=> Superseded(s, n))
  BY DEF Made, Superseded
<1>2. CallRequest' = CallRequest
  <2>1. \A s \in Requests, n \in Attempts : CallRequest'[<<s, n>>] = CallRequest[<<s, n>>]
    <3> TAKE s \in Requests, n \in Attempts
    <3> QED
      BY <1>1, Mapped, MappedNext
  <2> QED
    BY <2>1, MappedFunctions, NoCall
<1>3. \A n \in Attempts :
        n # Last(r) \/ reply[r] = "lost" => Superseded(r, n) \/ ~Made(r, n)
  <2>1. reply[r] = "lost" => attempt[r] # 0
    BY DEF Inv, ConnectorInv, PlaceTells
  <2> QED
    BY <2>1, AttemptsCount DEF Inv, Made, Superseded, Last
<1>4. answer'[r] = code /\ \A s \in Requests \ {r} : answer'[s] = answer[s]
  BY DEF Inv, TypeOK
<1>5. \A s \in Requests, n \in Attempts :
        s # r \/ n # Last(r) \/ reply[r] = "lost" => CallAnswer'[<<s, n>>] = CallAnswer[<<s, n>>]
  BY <1>1, <1>3, <1>4, Mapped, MappedNext
<1>6. Last(r) \in Attempts
  BY LastOne
<1>7. ASSUME reply[r] # "lost" PROVE CallAnswer'[<<r, Last(r)>>] = code
  <2>1. Made(r, Last(r)) /\ ~Superseded(r, Last(r))
    BY <1>6, <1>7, AttemptsCount DEF Inv, Last, Made, Superseded
  <2>2. PICK n \in Attempts : n = Last(r)
    BY <1>6
  <2>3. CallAnswer'[<<r, n>>] = code
    BY <2>1, <2>2, <1>1, <1>4, MappedNext
  <2> QED
    BY <2>2, <2>3
<1>8. reply[r] = "lost" => CallAnswer' = CallAnswer
  BY <1>5, MappedFunctions, NoCall
<1>9. ASSUME reply[r] # "lost" PROVE CallAnswer' = [CallAnswer EXCEPT ![<<r, Last(r)>>] = code]
  <2>1. PICK n \in Attempts : n = Last(r)
    BY <1>6
  <2>2. CallAnswer' = [CallAnswer EXCEPT ![<<r, n>>] = CallAnswer'[<<r, n>>]]
    <3>1. \A s \in Requests, m \in Attempts :
            <<s, m>> # <<r, n>> => CallAnswer'[<<s, m>>] = CallAnswer[<<s, m>>]
      BY <1>5, <2>1
    <3> QED
      BY <3>1, MappedFunctions, OneCall
  <2> QED
    BY <1>7, <1>9, <2>1, <2>2
<1> QED
  BY <1>2, <1>8, <1>9

LEMMA PromiseStep == Inv /\ Inv' /\ [Next]_vars => [Registry!Next]_Registry!vars
<1> SUFFICES ASSUME Inv, Inv', [Next]_vars PROVE Registry!Next \/ UNCHANGED Registry!vars
  OBVIOUS
<1> USE DEF Goto, Reply
<1>0. TypeOK /\ ConnectorInv
  BY DEF Inv
<1>0a. TypeOK'
  BY DEF Inv
<1>1. CASE UNCHANGED vars
  BY <1>1, <1>0, MappedSame DEF vars, Registry!vars
<1>2. ASSUME NEW r \in Requests, NEW code \in Registry!Codes,
             answer[r] = "none", request[r] # NoRequest,
             reply[r] # "lost" => Registry!Vouched(<<r, Last(r)>>, code),
             answer' = [answer EXCEPT ![r] = code],
             UNCHANGED <<pool, request, attempt, reply, witnessed, effect, absent>>
      PROVE  Registry!Next \/ UNCHANGED Registry!vars
  <2>1. CASE reply[r] = "lost"
    BY <1>2, <2>1, AnswerMapped DEF Registry!vars
  <2>2. CASE reply[r] # "lost"
    <3>1. /\ CallRequest' = CallRequest
          /\ CallAnswer' = [CallAnswer EXCEPT ![<<r, Last(r)>>] = code]
      BY <1>2, <2>2, AnswerMapped
    <3>2. /\ CallRequest[<<r, Last(r)>>] # NoRequest
          /\ CallAnswer[<<r, Last(r)>>] = "none"
          /\ <<r, Last(r)>> \in Calls
      BY <1>2, <2>2, LastOne, CallsOf
    <3>3. Registry!Answer(<<r, Last(r)>>, code)
      BY <1>2, <2>2, <3>1, <3>2
         DEF Registry!Answer, Registry!Pending, Registry!NoRequest, NoRequest
    <3> QED
      BY <3>2, <3>3 DEF Registry!Next
  <2> QED
    BY <2>1, <2>2
<1>3. ASSUME NEW r \in Requests, answer[r] = "none", request[r] # NoRequest
      PROVE  \A kind : Registry!Asks(<<r, Last(r)>>, kind) <=> request[r].kind = kind
  BY <1>3, LastOne DEF Registry!Asks
<1>4. ASSUME NEW r \in Requests, NEW q \in Request, Receive(r, q) PROVE Registry!Next
  <2>1. attempt[r] = 0 /\ request[r] = NoRequest /\ 1 \in Attempts /\ <<r, 1>> \in Calls
    BY <1>0, <1>4, CallsOf DEF Receive, ConnectorInv, PlaceTells
  <2>2. request'[r] = q /\ \A s \in Requests \ {r} : request'[s] = request[s]
    BY <1>0, <1>4 DEF Receive, TypeOK
  <2>3. UNCHANGED <<pool, attempt, reply, effect, answer>>
    BY <1>4 DEF Receive
  <2>4. \A s \in Requests, n \in Attempts :
          (Made(s, n)' <=> Made(s, n)) /\ (Superseded(s, n)' <=> Superseded(s, n))
    BY <2>3 DEF Made, Superseded
  <2>5. CallRequest[<<r, 1>>] = NoRequest
    BY <2>1, Mapped
  <2>6. CallRequest'[<<r, 1>>] = q
    BY <2>1, <2>2, MappedNext DEF Made
  <2>7. \A s \in Requests, n \in Attempts :
          <<s, n>> # <<r, 1>> => CallRequest'[<<s, n>>] = CallRequest[<<s, n>>]
    <3> TAKE s \in Requests, n \in Attempts
    <3>1. s = r /\ n # 1 => ~Made(s, n)
      BY <2>1, AttemptsCount, <1>0 DEF Made
    <3>2. Made(s, n)' <=> Made(s, n)
      BY <2>4
    <3>3. CASE s = r
      BY <3>1, <3>2, <3>3, Mapped, MappedNext
    <3>4. CASE s # r
      BY <3>2, <3>4, <2>2, Mapped, MappedNext
    <3> QED
      BY <3>3, <3>4
  <2>8. CallRequest' = [CallRequest EXCEPT ![<<r, 1>>] = q]
    <3>1. PICK n \in Attempts : n = 1
      BY <2>1
    <3>2. CallRequest' = [CallRequest EXCEPT ![<<r, n>>] = CallRequest'[<<r, n>>]]
      BY <2>7, <3>1, MappedFunctions, OneCall
    <3> QED
      BY <2>6, <3>1, <3>2
  <2>9. CallAnswer' = CallAnswer
    <3>1. \A s \in Requests, n \in Attempts : CallAnswer'[<<s, n>>] = CallAnswer[<<s, n>>]
      <4> TAKE s \in Requests, n \in Attempts
      <4> QED
        BY <2>3, <2>4, Mapped, MappedNext
    <3> QED
      BY <3>1, MappedFunctions, NoCall
  <2>10. Registry!Receive(<<r, 1>>, q)
    BY <1>0, <1>4, <2>3, <2>5, <2>8, <2>9, SelectedById, <1>0a, ObservesSame
       DEF Receive, Registry!Receive, Registry!NoRequest, NoRequest
  <2>11. q \in Registry!Request
    BY DEF Request, Registry!Request
  <2> QED
    BY <2>1, <2>10, <2>11 DEF Registry!Next
<1>5. ASSUME NEW r \in Requests, RefuseCreate(r) PROVE Registry!Next \/ UNCHANGED Registry!vars
  <2>1. /\ answer[r] = "none" /\ request[r] # NoRequest /\ attempt[r] = 0 /\ Last(r) = 1
        /\ request[r].kind = "create" /\ effect[<<r, 1>>] = {}
    BY <1>0, <1>5, CallsOf, AttemptsCount
       DEF RefuseCreate, ConnectorInv, PlaceTells, WireTells, Creates, Last
  <2>2. Registry!Vouched(<<r, Last(r)>>, "400")
    BY <2>1, <1>3 DEF Registry!Vouched
  <2> QED
    BY <1>2, <1>5, <2>1, <2>2 DEF RefuseCreate, Registry!Codes
<1>6. ASSUME NEW r \in Requests, Call(r) PROVE UNCHANGED Registry!vars
  <2>1. /\ attempt[r] = 0 /\ attempt'[r] = 1 /\ reply[r] = "none"
        /\ \A s \in Requests \ {r} : attempt'[s] = attempt[s]
        /\ UNCHANGED <<pool, request, reply, witnessed, effect, answer, absent>>
    BY <1>0, <1>6 DEF Call, ConnectorInv, PlaceTells, TypeOK
  <2>2. \A s \in Requests, n \in Attempts :
          (Made(s, n)' <=> Made(s, n)) /\ (Superseded(s, n)' <=> Superseded(s, n))
    BY <1>0, <2>1, AttemptsCount DEF Made, Superseded
  <2>3. \A s \in Requests, n \in Attempts :
          CallRequest'[<<s, n>>] = CallRequest[<<s, n>>] /\ CallAnswer'[<<s, n>>] = CallAnswer[<<s, n>>]
    <3> TAKE s \in Requests, n \in Attempts
    <3>1. (Made(s, n)' <=> Made(s, n)) /\ (Superseded(s, n)' <=> Superseded(s, n))
      BY <2>2
    <3> QED
      BY <2>1, <3>1, Mapped, MappedNext
  <2>4. CallRequest' = CallRequest /\ CallAnswer' = CallAnswer
    BY <2>3, MappedFunctions, NoCall
  <2> QED
    BY <2>1, <2>4 DEF Registry!vars
<1>7. ASSUME NEW r \in Requests, FinishCreate(r) PROVE Registry!Next \/ UNCHANGED Registry!vars
  <2>1. /\ answer[r] = "none" /\ request[r] # NoRequest /\ attempt[r] # 0 /\ Last(r) = attempt[r]
        /\ request[r].kind = "create" /\ effect[<<r, Last(r)>>] # {}
    BY <1>0, <1>7 DEF FinishCreate, ConnectorInv, PlaceTells, ReplyTells, Creates, Last
  <2>2. Registry!Vouched(<<r, Last(r)>>, "201")
    BY <2>1, <1>3 DEF Registry!Vouched
  <2> QED
    BY <1>2, <1>7, <2>1, <2>2 DEF FinishCreate, Registry!Codes
<1>8. ASSUME NEW r \in Requests, FinishDelete(r) PROVE Registry!Next \/ UNCHANGED Registry!vars
  <2>1. /\ answer[r] = "none" /\ request[r] # NoRequest /\ attempt[r] # 0 /\ Last(r) = attempt[r]
        /\ request[r].kind = "delete" /\ Last(r) \in Attempts
    BY <1>0, <1>8, LastOne DEF FinishDelete, ConnectorInv, PlaceTells, Deletes, Last
  <2>2. CASE reply[r] = "done"
    <3>1. Registry!Vouched(<<r, Last(r)>>, "204")
      BY <1>0, <2>1, <2>2, <1>3 DEF Registry!Vouched, ConnectorInv, ReplyTells
    <3> QED
      BY <1>2, <1>8, <2>1, <2>2, <3>1 DEF FinishDelete, Registry!Codes
  <2>3. CASE reply[r] = "missing"
    <3>1. effect[<<r, Last(r)>>] = {} /\ <<r, Last(r)>> \in absent
      BY <1>0, <2>1, <2>3 DEF Inv, ConnectorInv, ReplyTells, AbsentInv, MissingWasTrue
    <3>2. Registry!Vouched(<<r, Last(r)>>, "404")
      BY <2>1, <3>1, <1>3 DEF Registry!Vouched
    <3> QED
      BY <1>2, <1>8, <2>1, <2>3, <3>2 DEF FinishDelete, Registry!Codes
  <2>4. CASE reply[r] = "refused"
    BY <1>2, <1>8, <2>1, <2>4 DEF FinishDelete, Registry!Codes, Registry!Vouched
  <2> QED
    BY <1>8, <2>2, <2>3, <2>4 DEF FinishDelete
<1>9. ASSUME NEW r \in Requests, CallFails(r) PROVE Registry!Next \/ UNCHANGED Registry!vars
  <2>1. answer[r] = "none" /\ request[r] # NoRequest
    BY <1>0, <1>9 DEF CallFails, Calling, ConnectorInv, PlaceTells
  <2> QED
    BY <1>2, <1>9, <2>1 DEF CallFails, Registry!Codes, Registry!Vouched
<1>10. ASSUME NEW r \in Requests, NEW n \in Attempts, CallAnswer[<<r, n>>] = "none",
              CallRequest[<<r, n>>] # NoRequest, CallRequest' = CallRequest,
              CallAnswer' = [CallAnswer EXCEPT ![<<r, n>>] = "dropped"],
              UNCHANGED <<pool, witnessed, effect, absent>>
       PROVE  Registry!Next
  <2> DEFINE lost == {<<r, n>>}
  <2>1. CallAnswer' = [call \in Calls |-> IF call \in lost THEN "dropped" ELSE CallAnswer[call]]
    BY <1>10, CallsOf, MappedFunctions
  <2>2. Registry!Drop(lost)
    BY <1>10, <2>1 DEF Registry!Drop, Registry!Pending, Registry!NoRequest, NoRequest
  <2>3. lost \in SUBSET Calls
    BY CallsOf
  <2> QED
    BY <2>2, <2>3 DEF Registry!Next
<1>11. ASSUME NEW r \in Requests, Disconnect(r) PROVE Registry!Next \/ UNCHANGED Registry!vars
  <2>1. /\ answer[r] = "none" /\ request[r] # NoRequest
        /\ answer' = [answer EXCEPT ![r] = "dropped"]
        /\ UNCHANGED <<pool, request, attempt, reply, witnessed, effect, absent>>
    BY <1>0, <1>11 DEF Disconnect, Active, ConnectorInv, PlaceTells
  <2>2. CASE reply[r] = "lost"
    BY <2>1, <2>2, AnswerMapped DEF Registry!vars
  <2>3. CASE reply[r] # "lost"
    <3>1. PICK n \in Attempts : n = Last(r)
      BY <2>1, LastOne
    <3> QED
      BY <2>1, <2>3, <3>1, <1>10, AnswerMapped, LastOne
  <2> QED
    BY <2>2, <2>3
<1>12. ASSUME NEW r \in Requests, AttemptFails(r) PROVE Registry!Next \/ UNCHANGED Registry!vars
  <2>1. UNCHANGED <<pool, request, attempt, witnessed, effect, answer, absent>>
    BY <1>12 DEF AttemptFails
  <2>2. /\ answer[r] = "none" /\ request[r] # NoRequest /\ attempt[r] # 0
        /\ Last(r) = attempt[r] /\ Last(r) \in Attempts
        /\ reply'[r] = "lost" /\ \A s \in Requests \ {r} : reply'[s] = reply[s]
    BY <1>0, <1>12, LastOne DEF AttemptFails, Calling, ConnectorInv, PlaceTells, TypeOK, Last
  <2>3. CASE reply[r] = "lost"
    BY <1>0, <2>1, <2>2, <2>3, MappedSame DEF Registry!vars
  <2>4. CASE reply[r] # "lost"
    <3>1. PICK n \in Attempts : n = attempt[r]
      BY <2>2
    <3>2. \A s \in Requests, m \in Attempts : Made(s, m)' <=> Made(s, m)
      BY <2>1 DEF Made
    <3>3. Made(r, n) /\ Superseded(r, n)'
      BY <1>0, <2>1, <2>2, <3>1, AttemptsCount DEF Made, Superseded
    <3>4. \A s \in Requests, m \in Attempts :
            <<s, m>> # <<r, n>> => (Superseded(s, m)' <=> Superseded(s, m))
      BY <2>1, <2>2, <3>1 DEF Superseded
    <3>5. CallRequest' = CallRequest
      <4>1. \A s \in Requests, m \in Attempts : CallRequest'[<<s, m>>] = CallRequest[<<s, m>>]
        <5> TAKE s \in Requests, m \in Attempts
        <5> QED
          BY <2>1, <3>2, Mapped, MappedNext
      <4> QED
        BY <4>1, MappedFunctions, NoCall
    <3>6. \A s \in Requests, m \in Attempts :
            <<s, m>> # <<r, n>> => CallAnswer'[<<s, m>>] = CallAnswer[<<s, m>>]
      <4> TAKE s \in Requests, m \in Attempts
      <4> QED
        BY <2>1, <3>2, <3>4, Mapped, MappedNext
    <3>7. CallAnswer'[<<r, n>>] = "dropped"
      BY <3>3, MappedNext
    <3>8. CallAnswer' = [CallAnswer EXCEPT ![<<r, n>>] = "dropped"]
      BY <3>6, <3>7, MappedFunctions, OneCall
    <3>9. CallAnswer[<<r, n>>] = "none" /\ CallRequest[<<r, n>>] # NoRequest
      BY <2>2, <2>4, <3>1, LastOne
    <3> QED
      BY <1>10, <2>1, <3>5, <3>8, <3>9
  <2> QED
    BY <2>3, <2>4
<1>13. ASSUME NEW r \in Requests, Retry(r) PROVE Registry!Next
  <2>1. PICK n \in Attempts : n = attempt[r] + 1
    BY <1>0, <1>13, CognitoAssumption DEF Retry, TypeOK, Attempts
  <2>2. /\ answer[r] = "none" /\ request[r] # NoRequest /\ attempt[r] # 0 /\ reply[r] = "lost"
        /\ request[r] \in Request
    BY <1>0, <1>13 DEF Retry, Calling, ConnectorInv, PlaceTells, TypeOK
  <2>3. /\ attempt'[r] = n /\ reply'[r] = "none"
        /\ \A s \in Requests \ {r} : attempt'[s] = attempt[s] /\ reply'[s] = reply[s]
        /\ witnessed' = [witnessed EXCEPT ![<<r, n>>] = WithId(request[r].key)]
        /\ UNCHANGED <<pool, request, effect, answer>>
    BY <1>0, <1>13, <2>1 DEF Retry, TypeOK
  <2>4. \A s \in Requests \ {r}, m \in Attempts :
          (Made(s, m)' <=> Made(s, m)) /\ (Superseded(s, m)' <=> Superseded(s, m))
    BY <2>3 DEF Made, Superseded
  <2>5. \A m \in Attempts \ {n} :
          (Made(r, m)' <=> Made(r, m)) /\ (Superseded(r, m)' <=> Superseded(r, m))
    BY <1>0, <2>1, <2>2, <2>3, AttemptsCount DEF Made, Superseded
  <2>6. ~Made(r, n) /\ ~Superseded(r, n) /\ Made(r, n)' /\ ~Superseded(r, n)'
    BY <1>0, <2>1, <2>2, <2>3, AttemptsCount DEF Made, Superseded
  <2>7. \A s \in Requests, m \in Attempts :
          <<s, m>> # <<r, n>> => /\ CallRequest'[<<s, m>>] = CallRequest[<<s, m>>]
                                 /\ CallAnswer'[<<s, m>>] = CallAnswer[<<s, m>>]
    <3> TAKE s \in Requests, m \in Attempts
    <3>1. <<s, m>> # <<r, n>> =>
            (Made(s, m)' <=> Made(s, m)) /\ (Superseded(s, m)' <=> Superseded(s, m))
      BY <2>4, <2>5
    <3> QED
      BY <2>3, <3>1, Mapped, MappedNext
  <2>8. /\ CallRequest[<<r, n>>] = NoRequest /\ CallRequest'[<<r, n>>] = request[r]
        /\ CallAnswer'[<<r, n>>] = CallAnswer[<<r, n>>]
    BY <2>2, <2>3, <2>6, Mapped, MappedNext
  <2>9. CallRequest' = [CallRequest EXCEPT ![<<r, n>>] = request[r]]
    BY <2>7, <2>8, MappedFunctions, OneCall
  <2>10. CallAnswer' = CallAnswer
    <3>1. \A s \in Requests, m \in Attempts : CallAnswer'[<<s, m>>] = CallAnswer[<<s, m>>]
      BY <2>7, <2>8
    <3> QED
      BY <3>1, MappedFunctions, NoCall
  <2>11. Registry!Receive(<<r, n>>, request[r])
    BY <1>0, <1>13, <2>3, <2>8, <2>9, <2>10, SelectedById, <1>0a, ObservesSame
       DEF Retry, Registry!Receive, Registry!NoRequest, NoRequest
  <2>12. request[r] \in Registry!Request /\ <<r, n>> \in Calls
    BY <2>2, CallsOf DEF Request, Registry!Request
  <2> QED
    BY <2>11, <2>12 DEF Registry!Next
<1>14. ASSUME NEW r \in Requests, NEW n \in Attempts, <<r, n>> \in wire, CarryOut(r, n)
       PROVE  /\ CallRequest' = CallRequest /\ CallAnswer' = CallAnswer
              /\ CallRequest[<<r, n>>] = request[r] /\ Registry!Open(<<r, n>>)
              /\ UNCHANGED witnessed
  <2>1. UNCHANGED <<request, attempt, answer, witnessed>>
    BY <1>14 DEF CarryOut, PoolCreate, PoolDelete
  <2>2. \A s \in Requests : reply'[s] = "lost" <=> reply[s] = "lost"
    BY <1>0, <1>14 DEF CarryOut, PoolCreate, PoolDelete, Takes, TypeOK
  <2>3. n <= attempt[r] /\ effect[<<r, n>>] = {} /\ attempt[r] # 0
    BY <1>0, <1>14, AttemptsCount DEF ConnectorInv, WireTells
  <2>4. Made(r, n)
    BY <2>3 DEF Made
  <2>5. ~Superseded(r, n) => answer[r] \in {"none", "500", "dropped"}
    <3>1. ~Superseded(r, n) => n = attempt[r]
      BY <1>0, <2>3, AttemptsCount DEF Superseded
    <3>2. n = attempt[r] => reply[r] \notin {"done", "missing", "refused"}
      BY <1>0, <1>14 DEF ConnectorInv, ReplyTells
    <3>3. answer[r] \notin {"201", "204", "404"} \/ reply[r] \in {"done", "missing"}
      BY <1>0 DEF ConnectorInv, ReplyTells
    <3>4. answer[r] # "400"
      BY <1>0, <2>3 DEF ConnectorInv, ReplyTells
    <3> QED
      BY <1>0, <3>1, <3>2, <3>3, <3>4 DEF TypeOK
  <2>6. CallAnswer[<<r, n>>] \in {"none", "500", "dropped"}
    BY <2>4, <2>5, Mapped
  <2> QED
    BY <1>0, <2>1, <2>2, <2>3, <2>4, <2>6, Mapped, MappedSame DEF Registry!Open
<1>15. ASSUME NEW r \in Requests, NEW n \in Attempts, PoolCreate(r, n) PROVE Registry!Next
  <2>1. PICK client : client = Client(r, n)
    OBVIOUS
  <2>2. /\ <<r, n>> \in wire /\ request[r].kind = "create"
        /\ pool' = pool \cup {client} /\ effect' = [effect EXCEPT ![<<r, n>>] = {client}]
        /\ UNCHANGED absent
    BY <1>15, <2>1 DEF PoolCreate, Client
  <2>3. attempt[r] # 0 /\ effect[<<r, n>>] = {}
    BY <1>0, <2>2, AttemptsCount DEF ConnectorInv, WireTells
  <2>4. client \in Clients /\ client.name = request[r].key /\ client.uid = <<r, n>>
    <3>1. request[r].key \in Names
      BY <1>0, <2>2, <2>3 DEF ConnectorInv, PlaceTells, Creates, TypeOK, Request, NoRequest
    <3> QED
      BY <2>1, <3>1, CallsOf DEF Client, Clients, Uids
  <2>5. client \notin Preexisting \cup Registry!Created
    <3>1. client \notin Preexisting
      BY <2>4, CognitoAssumption, CallsOf
    <3>2. ASSUME NEW s \in Requests, NEW m \in Attempts, CallRequest[<<s, m>>].kind = "create"
          PROVE  client \notin effect[<<s, m>>]
      <4>1. Creates(s)
        BY <3>2, Mapped DEF Creates, NoRequest
      <4>2. effect[<<s, m>>] \in {{}, {Client(s, m)}}
        BY <1>0, <4>1 DEF ConnectorInv, EffectTells, EffectOf
      <4>3. Client(s, m).uid = <<s, m>>
        BY DEF Client
      <4> QED
        BY <2>3, <2>4, <4>2, <4>3
    <3> QED
      BY <3>1, <3>2, CallsOf DEF Registry!Created, Registry!Asks
  <2>6. /\ CallRequest' = CallRequest /\ CallAnswer' = CallAnswer
        /\ CallRequest[<<r, n>>] = request[r] /\ Registry!Open(<<r, n>>)
        /\ UNCHANGED witnessed
    BY <1>14, <1>15, <2>2 DEF CarryOut
  <2>7. Registry!Register(<<r, n>>, client)
    BY <2>2, <2>4, <2>5, <2>6 DEF Registry!Register, Registry!Asks
  <2> QED
    BY <2>4, <2>7, CallsOf DEF Registry!Next
<1>16. ASSUME NEW r \in Requests, NEW n \in Attempts, PoolDelete(r, n)
       PROVE  Registry!Next \/ UNCHANGED Registry!vars
  <2>1. /\ <<r, n>> \in wire /\ request[r].kind = "delete"
        /\ pool' = pool \ WithId(request[r].key)
        /\ effect' = [effect EXCEPT ![<<r, n>>] = WithId(request[r].key)]
        /\ Observe
    BY <1>16 DEF PoolDelete
  <2>2. /\ CallRequest' = CallRequest /\ CallAnswer' = CallAnswer
        /\ CallRequest[<<r, n>>] = request[r] /\ Registry!Open(<<r, n>>)
        /\ UNCHANGED witnessed
    BY <1>14, <1>16, <2>1 DEF CarryOut
  <2>3. CASE WithId(request[r].key) = {}
    <3>1. effect[<<r, n>>] = {}
      BY <1>0, <2>1 DEF ConnectorInv, WireTells
    <3>2. effect' = effect /\ pool' = pool
      BY <1>0, <2>1, <2>3, <3>1, CallsOf DEF TypeOK
    <3>3. absent' = absent  \* what is unmatched now was so before
      <4>1. UNCHANGED <<request, attempt, answer>>
        BY <1>16 DEF PoolDelete
      <4>2. \A s \in Requests : reply[s] = "lost" => reply'[s] = "lost"
        BY <1>0, <1>16 DEF PoolDelete, Takes, TypeOK
      <4>3. \A s \in Requests, m \in Attempts : Unmatched(s, m)' => <<s, m>> \in absent
        BY <1>0, <3>2, <4>1, <4>2, UnmatchedQuiet DEF Inv, AbsentInv, Recorded
      <4> QED
        BY <2>1, <4>3, CallsOf DEF Observe
    <3> QED
      BY <2>2, <3>2, <3>3 DEF Registry!vars
  <2>4. ASSUME NEW c \in pool, c.uid = request[r].key PROVE Registry!Next
    <3>1. WithId(request[r].key) = {c} /\ c \in Clients
      BY <1>0, <2>4 DEF WithId, ConnectorInv, UniqueIds, TypeOK
    <3>2. Registry!Remove(<<r, n>>, c)
      BY <1>0, <2>1, <2>2, <3>1, SelectedById, <1>0a, ObservesSame DEF Registry!Remove, Registry!Asks
    <3> QED
      BY <3>1, <3>2, CallsOf DEF Registry!Next
  <2> QED
    BY <2>3, <2>4 DEF WithId
<1> QED
  BY <1>1, <1>4, <1>5, <1>6, <1>7, <1>8, <1>9, <1>11, <1>12, <1>13, <1>15, <1>16
     DEF Next, Handle, CarryOut

(* The Cognito connector keeps the promise of the API however often the SDK  *)
(* sends a call, if every attempt is taken for a request of its own: each of *)
(* its steps is a step of ClientRegistry or none of it.                      *)
THEOREM KeepsPromise == Spec => Promise
<1>1. ASSUME Init PROVE Registry!Init
  <2>1. \A s \in Requests, m \in Attempts :
          CallRequest[<<s, m>>] = NoRequest /\ CallAnswer[<<s, m>>] = "none"
    <3> TAKE s \in Requests, m \in Attempts
    <3>1. ~Superseded(s, m)
      BY <1>1, AttemptsCount, CognitoAssumption DEF Init, Superseded, Attempts
    <3> QED
      BY <1>1, <3>1, Mapped DEF Init
  <2>2. \A call \in Calls : CallRequest[call] = NoRequest /\ CallAnswer[call] = "none"
    BY <2>1, CallsOf
  <2>3. CallRequest = [call \in Calls |-> NoRequest] /\ CallAnswer = [call \in Calls |-> "none"]
    BY <2>2, MappedFunctions
  <2> QED
    BY <1>1, <2>3 DEF Init, Registry!Init, Registry!NoRequest, NoRequest
<1> QED
  BY <1>1, Invariant, PromiseStep, PTL DEF Spec, Promise, Registry!Spec
------------------------------------------------------------------------------
(* What is proved of ClientRegistry, for any clients, ids and requests, holds  *)
(* of the connector by its promise: the theorems are read with the clients     *)
(* and ids of the connector in place of the constants.                         *)
Abstract == INSTANCE ClientRegistryProofs WITH
  Requests <- Calls,
  Keys <- Names \cup Uids \cup {NoKey},
  NameOf <- [c \in Clients |-> c.name],
  KeysOf <- [c \in Clients |-> {c.uid}],
  registry <- pool,
  request <- CallRequest,
  answer <- CallAnswer

\* The module of the theorems states the same specification.
LEMMA SameSpec == Promise => Abstract!Spec
<1> USE DEF Registry!NoRequest, Abstract!NoRequest,
            Registry!Request, Abstract!Request, Registry!Codes, Abstract!Codes,
            Registry!Asks, Abstract!Asks, Registry!Created, Abstract!Created,
            Registry!Removed, Abstract!Removed, Registry!Selected, Abstract!Selected,
            Registry!Pending, Abstract!Pending,
            Registry!Unmatched, Abstract!Unmatched,
            Registry!Observe, Abstract!Observe, Registry!Open, Abstract!Open,
            Registry!Receive, Abstract!Receive, Registry!Register, Abstract!Register,
            Registry!Remove, Abstract!Remove, Registry!Vouched, Abstract!Vouched,
            Registry!Answer, Abstract!Answer, Registry!Drop, Abstract!Drop,
            Registry!Next, Abstract!Next, Registry!vars, Abstract!vars,
            Registry!Init, Abstract!Init
<1>1. Registry!Init = Abstract!Init
  OBVIOUS
<1>2. Registry!Next = Abstract!Next
  OBVIOUS
<1>3. Registry!vars = Abstract!vars
  OBVIOUS
<1>4. [Registry!Next]_Registry!vars => [Abstract!Next]_Abstract!vars
  OBVIOUS
<1> QED
  BY <1>1, <1>2, <1>3, <1>4, PTL DEF Promise, Registry!Spec, Abstract!Spec

(* The pool holds what it held at the start and what the attempts to create  *)
(* added, less what the attempts to delete removed; no two attempts, of one  *)
(* request or of two, share a client; and what the answered attempt vouches  *)
(* for stays true whatever other attempts do later.                          *)
THEOREM PromisedEffects ==
  Spec => [](/\ Registry!Accounted /\ Registry!LossesAskedFor
             /\ Registry!EffectsDistinct /\ Registry!AnswersHold)
<1>1. Abstract!Spec => [](/\ Abstract!Accounted /\ Abstract!LossesAskedFor
                          /\ Abstract!EffectsDistinct /\ Abstract!AnswersHold)
  BY PromiseAssumption, Abstract!EveryClientAccounted, Abstract!NoLossUnasked,
     Abstract!NoSharedEffect, Abstract!AnswersStayTrue, PTL
<1>2. Abstract!Accounted => Registry!Accounted
  BY DEF Abstract!Accounted, Registry!Accounted, Abstract!Created, Registry!Created,
         Abstract!Removed, Registry!Removed, Abstract!Asks, Registry!Asks
<1>3. Abstract!EffectsDistinct => Registry!EffectsDistinct
  BY DEF Abstract!EffectsDistinct, Registry!EffectsDistinct
<1>4. Abstract!AnswersHold => Registry!AnswersHold
  BY DEF Abstract!AnswersHold, Registry!AnswersHold
<1>5. Abstract!LossesAskedFor => Registry!LossesAskedFor
  BY DEF Abstract!LossesAskedFor, Registry!LossesAskedFor, Abstract!Created, Registry!Created,
         Abstract!Asks, Registry!Asks
<1> QED
  BY KeepsPromise, SameSpec, <1>1, <1>2, <1>3, <1>4, <1>5, PTL
==============================================================================
