------------------------ MODULE KeycloakConnectorProofs ------------------------
(* Proofs about the Keycloak connector, for any number of requests and names *)
(* and any realm to start with.                                              *)
EXTENDS KeycloakConnector, FiniteSetTheorems, TLAPS

(* The parts of the inductive invariant. *)

\* Where a handler is tells what its request asked for and what it has done.
PlaceTells ==
  \A r \in Requests :
    /\ pc[r] = "idle" => request[r] = NoRequest /\ found[r] = {}
    /\ pc[r] # "idle" => request[r] # NoRequest
    /\ pc[r] \in {"create", "posting"} => request[r].kind = "create"
    /\ pc[r] \in {"delete", "found", "deleting"} => request[r].kind = "delete"
    /\ pc[r] = "found" => request[r].key # NoName
    /\ pc[r] \in {"idle", "create", "delete", "found"} => call[r] = "none"
    /\ pc[r] # "over" <=> answer[r] = "none"
    /\ r \in misread => pc[r] \in {"found", "over"}
    /\ r \in misread /\ pc[r] = "found" => found[r] = {}

\* What became of the call is what the request did, and a call can only be on
\* the way when the answer does not vouch for anything.
CallTells ==
  \A r \in Requests :
    /\ call[r] = "done" <=> effect[r] # {}
    /\ call[r] # "none" => request[r].key # NoName
    /\ call[r] = "refused" => request[r].kind = "create"
    /\ call[r] = "missing" => request[r].kind = "delete"
    /\ call[r] = "sent" => r \in misread \/ answer[r] \in {"none", "500", "dropped"}

\* A client that was registered by a request is known by its internal id.
OwnClients ==
  \A r \in Requests :
    request[r].kind = "create" => effect[r] \subseteq {[uid |-> r, name |-> request[r].key]}

\* Any client that is or was there.
Known(c) == c \in Preexisting \/ (c.uid \in Requests /\ effect[c.uid] # {})

AllKnown ==
  /\ \A c \in realm : Known(c)
  /\ \A r \in Requests : \A c \in witnessed[r] \cup found[r] : Known(c)

UniqueNames == \A c, d \in realm : c.name = d.name => c = d

\* A lookup finds at most one client, of the name asked for.
FoundOne ==
  \A r \in Requests :
    /\ \A c, d \in found[r] : c = d
    /\ \A c \in found[r] : c.name = request[r].key

\* A call to delete is about the one client found.
DeletesOne ==
  \A r \in Requests :
    request[r].kind = "delete" /\ call[r] # "none" => \E c \in Clients : found[r] = {c}

\* Between the lookup and the deletion only the client found can be left of
\* those that were there at the start; afterwards none is.  A delete that has
\* misread a reply knows nothing of them.
Gone(r) == witnessed[r] \cap realm = {}

NoneLeft ==
  \A r \in Requests :
    request[r].kind = "delete" /\ r \notin misread =>
      /\ \A c \in witnessed[r] : c.name = request[r].key
      /\ request[r].key = NoName => Gone(r)
      /\ pc[r] \in {"found", "deleting"} => witnessed[r] \cap realm \subseteq found[r]
      /\ pc[r] = "deleting" /\ call[r] \in {"done", "missing"} => Gone(r)
      /\ answer[r] \in {"204", "404"} => Gone(r)

ConnectorInv ==
  /\ PlaceTells
  /\ CallTells
  /\ OwnClients
  /\ AllKnown
  /\ UniqueNames
  /\ FoundOne
  /\ DeletesOne
  /\ NoneLeft

\* A delete for whose name there is no client has been recorded.
AbsentNow == \A r \in Requests : Unmatched(r) => r \in absent

\* What a delete has found is there, unless its name has been absent.
FoundOrAbsent ==
  \A r \in Requests :
    pc[r] \in {"found", "deleting"} /\ call[r] \in {"none", "sent"} /\ r \notin absent \cup misread =>
      found[r] # {} /\ found[r] \subseteq realm

\* That a delete does not find its client is told only when that was true.
MissingWasTrue ==
  \A r \in Requests \ misread :
    /\ pc[r] = "deleting" /\ call[r] = "missing" => r \in absent
    /\ answer[r] = "404" => r \in absent

AbsentInv ==
  /\ AbsentNow
  /\ FoundOrAbsent
  /\ MissingWasTrue

------------------------------------------------------------------------------
(* A step keeps the types; only that a call is never about the empty name    *)
(* has to be known besides.                                                  *)
LEMMA TypeStep == TypeOK /\ CallTells /\ [Next]_vars => TypeOK'
<1> SUFFICES ASSUME TypeOK, CallTells, [Next]_vars PROVE TypeOK'
  OBVIOUS
<1> USE DEF TypeOK, Goto, Reply, Send
<1>1. CASE UNCHANGED vars
  BY <1>1 DEF vars
<1>2. ASSUME NEW r \in Requests, NEW q \in Request, Receive(r, q) PROVE TypeOK'
  BY <1>2 DEF Receive, Named, Request, Observe
<1>3. ASSUME NEW r \in Requests, RefuseCreate(r) PROVE TypeOK'
  BY <1>3 DEF RefuseCreate
<1>4. ASSUME NEW r \in Requests, PostClient(r) PROVE TypeOK'
  BY <1>4 DEF PostClient
<1>5. ASSUME NEW r \in Requests, FinishCreate(r) PROVE TypeOK'
  BY <1>5 DEF FinishCreate
<1>6. ASSUME NEW r \in Requests, RefuseDelete(r) PROVE TypeOK'
  BY <1>6 DEF RefuseDelete
<1>7. ASSUME NEW r \in Requests, LookUp(r) PROVE TypeOK'
  BY <1>7 DEF LookUp, Named
<1>8. ASSUME NEW r \in Requests, Resolve(r) PROVE TypeOK'
  BY <1>8 DEF Resolve
<1>9. ASSUME NEW r \in Requests, FinishDelete(r) PROVE TypeOK'
  BY <1>9 DEF FinishDelete
<1>10. ASSUME NEW r \in Requests, CallFails(r) PROVE TypeOK'
  BY <1>10 DEF CallFails
<1>11. ASSUME NEW r \in Requests, RealmCreate(r) PROVE TypeOK'
  <2>1. request[r].key \in Names
    BY <1>11 DEF RealmCreate, CallTells, Request, NoRequest
  <2>2. [uid |-> r, name |-> request[r].key] \in Clients
    BY <2>1 DEF Clients
  <2> QED
    BY <1>11, <2>2 DEF RealmCreate
<1>12. ASSUME NEW r \in Requests, RealmDelete(r) PROVE TypeOK'
  BY <1>12 DEF RealmDelete, Observe
<1>13. ASSUME NEW lost \in SUBSET Requests, Restart(lost) PROVE TypeOK'
  BY <1>13 DEF Restart
<1>14. ASSUME NEW r \in Requests, Misread(r) PROVE TypeOK'
  BY <1>14 DEF Misread
<1> QED
  BY <1>1, <1>2, <1>3, <1>4, <1>5, <1>6, <1>7, <1>8, <1>9, <1>10, <1>11, <1>12, <1>13, <1>14
     DEF Next, Handle, CarryOut

(* Counting the clients of a lookup that found none ... *)
LEMMA NoneCounted == Cardinality({}) = 0
  BY FS_EmptySet

(* ... and of one that found some. *)
LEMMA Counting ==
  ASSUME NEW S, \A c, d \in S : c = d
  PROVE  /\ Cardinality(S) \in {0, 1}
         /\ Cardinality(S) = 1 => \E c \in S : S = {c}
<1>1. CASE S = {}
  <2>1. Cardinality(S) = 0
    BY <1>1, FS_EmptySet
  <2> QED
    BY <2>1
<1>2. CASE S # {}
  <2>1. PICK c \in S : S = {c}
    BY <1>2
  <2>2. Cardinality(S) = 1
    BY <2>1, FS_Singleton
  <2> QED
    BY <2>1, <2>2
<1> QED
  BY <1>1, <1>2

LEMMA ConnectorStep == TypeOK /\ ConnectorInv /\ [Next]_vars => ConnectorInv'
<1> SUFFICES ASSUME TypeOK, ConnectorInv, [Next]_vars PROVE ConnectorInv'
  OBVIOUS
<1> USE DEF TypeOK, ConnectorInv, Goto, Reply, Send
<1>1. CASE UNCHANGED vars
  BY <1>1 DEF vars,
     PlaceTells, CallTells, OwnClients, AllKnown, Known, UniqueNames, FoundOne, DeletesOne, NoneLeft, Gone
<1>2. ASSUME NEW r \in Requests, NEW q \in Request, Receive(r, q) PROVE ConnectorInv'
  <2>1. q.kind \in {"create", "delete"} /\ q # NoRequest /\ q.key \in Names \cup {NoName}
    BY DEF Request, NoRequest
  <2>2. call[r] = "none" /\ effect[r] = {} /\ answer[r] = "none" /\ found[r] = {}
    BY <1>2 DEF Receive, PlaceTells, CallTells
  <2>3. Named(q.key) \subseteq realm /\ Named(NoName) = {}
    BY KeycloakAssumption DEF Named, Clients
  <2>4. PlaceTells'
    BY <1>2, <2>1, <2>2, <2>3 DEF Receive, PlaceTells
  <2>5. CallTells'
    BY <1>2, <2>1, <2>2, <2>3 DEF Receive, CallTells, PlaceTells
  <2>6. OwnClients'
    BY <1>2, <2>1, <2>2, <2>3 DEF Receive, OwnClients
  <2>7. AllKnown'
    BY <1>2, <2>1, <2>2, <2>3 DEF Receive, AllKnown, Known
  <2>8. UniqueNames'
    BY <1>2, <2>1, <2>2, <2>3 DEF Receive, UniqueNames
  <2>9. FoundOne'
    BY <1>2, <2>1, <2>2, <2>3 DEF Receive, FoundOne
  <2>10. DeletesOne'
    BY <1>2, <2>1, <2>2, <2>3 DEF Receive, DeletesOne
  <2>11. NoneLeft'
    BY <1>2, <2>1, <2>2, <2>3 DEF Receive, NoneLeft, Gone, Named
  <2> QED
    BY <2>4, <2>5, <2>6, <2>7, <2>8, <2>9, <2>10, <2>11
<1>3. ASSUME NEW r \in Requests, RefuseCreate(r) PROVE ConnectorInv'
  BY <1>3 DEF RefuseCreate,
     PlaceTells, CallTells, OwnClients, AllKnown, Known, UniqueNames, FoundOne, DeletesOne, NoneLeft, Gone
<1>4. ASSUME NEW r \in Requests, PostClient(r) PROVE ConnectorInv'
  BY <1>4 DEF PostClient,
     PlaceTells, CallTells, OwnClients, AllKnown, Known, UniqueNames, FoundOne, DeletesOne, NoneLeft, Gone
<1>5. ASSUME NEW r \in Requests, FinishCreate(r) PROVE ConnectorInv'
  BY <1>5 DEF FinishCreate,
     PlaceTells, CallTells, OwnClients, AllKnown, Known, UniqueNames, FoundOne, DeletesOne, NoneLeft, Gone
<1>6. ASSUME NEW r \in Requests, RefuseDelete(r) PROVE ConnectorInv'
  BY <1>6 DEF RefuseDelete,
     PlaceTells, CallTells, OwnClients, AllKnown, Known, UniqueNames, FoundOne, DeletesOne, NoneLeft, Gone
<1>7. ASSUME NEW r \in Requests, LookUp(r) PROVE ConnectorInv'
  <2>1. PlaceTells'
    BY <1>7 DEF LookUp, PlaceTells
  <2>2. CallTells'
    BY <1>7 DEF LookUp, CallTells, PlaceTells
  <2>3. OwnClients'
    BY <1>7 DEF LookUp, OwnClients
  <2>4. AllKnown'
    BY <1>7 DEF LookUp, AllKnown, Known, Named
  <2>5. UniqueNames'
    BY <1>7 DEF LookUp, UniqueNames
  <2>6. FoundOne'
    BY <1>7 DEF LookUp, FoundOne, Named, UniqueNames
  <2>7. DeletesOne'
    BY <1>7 DEF LookUp, DeletesOne, PlaceTells
  <2>8. NoneLeft'
    BY <1>7 DEF LookUp, NoneLeft, Gone, Named, PlaceTells
  <2> QED
    BY <2>1, <2>2, <2>3, <2>4, <2>5, <2>6, <2>7, <2>8
<1>8. ASSUME NEW r \in Requests, Resolve(r) PROVE ConnectorInv'
  <2>1. PlaceTells'
    <3>1. found[r] = {} => Reply(r, "404")
      BY <1>8, NoneCounted DEF Resolve
    <3> QED
      BY <1>8, <3>1 DEF Resolve, PlaceTells
  <2>2. CallTells'
    BY <1>8 DEF Resolve, CallTells, PlaceTells
  <2>3. OwnClients'
    BY <1>8 DEF Resolve, OwnClients
  <2>4. AllKnown'
    BY <1>8 DEF Resolve, AllKnown, Known
  <2>5. UniqueNames'
    BY <1>8 DEF Resolve, UniqueNames
  <2>6. FoundOne'
    BY <1>8 DEF Resolve, FoundOne
  <2>7. DeletesOne'
    BY <1>8, Counting DEF Resolve, DeletesOne, FoundOne
  <2>8. NoneLeft'
    BY <1>8 DEF Resolve, NoneLeft, Gone, PlaceTells, FoundOne
  <2> QED
    BY <2>1, <2>2, <2>3, <2>4, <2>5, <2>6, <2>7, <2>8
<1>9. ASSUME NEW r \in Requests, FinishDelete(r) PROVE ConnectorInv'
  BY <1>9 DEF FinishDelete,
     PlaceTells, CallTells, OwnClients, AllKnown, Known, UniqueNames, FoundOne, DeletesOne, NoneLeft, Gone
<1>10. ASSUME NEW r \in Requests, CallFails(r) PROVE ConnectorInv'
  BY <1>10 DEF CallFails,
     PlaceTells, CallTells, OwnClients, AllKnown, Known, UniqueNames, FoundOne, DeletesOne, NoneLeft, Gone
<1>11. ASSUME NEW r \in Requests, RealmCreate(r) PROVE ConnectorInv'
  <2>0. PICK client : client = [uid |-> r, name |-> request[r].key]
    OBVIOUS
  <2>1. /\ UNCHANGED <<request, pc, found, witnessed, answer, misread>>
        /\ request[r].kind = "create" /\ call[r] = "sent" /\ effect[r] = {}
        /\ client.uid = r /\ client.name = request[r].key
        /\ \A s \in Requests \ {r} : call'[s] = call[s]
    BY <1>11, <2>0 DEF RealmCreate, CallTells
  <2>2. CASE Named(client.name) = {}
    <3>1. /\ realm' = realm \cup {client} /\ \A d \in realm : d.name # client.name
          /\ effect'[r] = {client} /\ effect'[r] # {} /\ call'[r] = "done"
          /\ \A s \in Requests \ {r} : effect'[s] = effect[s]
      BY <1>11, <2>0, <2>2 DEF RealmCreate, Named
    <3>2. PlaceTells' /\ CallTells'
      <4>1. PlaceTells'
        BY <2>1, <3>1 DEF PlaceTells
      <4>2. CallTells'
        <5> SUFFICES ASSUME NEW s \in Requests
                     PROVE  /\ call'[s] = "done" <=> effect'[s] # {}
                            /\ call'[s] # "none" => request[s].key # NoName
                            /\ call'[s] = "refused" => request[s].kind = "create"
                            /\ call'[s] = "missing" => request[s].kind = "delete"
                            /\ call'[s] = "sent" => s \in misread \/ answer[s] \in {"none", "500", "dropped"}
          BY <2>1 DEF CallTells
        <5>1. CASE s = r
          BY <5>1, <2>1, <3>1 DEF CallTells
        <5>2. CASE s # r
          BY <5>2, <2>1, <3>1 DEF CallTells
        <5> QED
          BY <5>1, <5>2
      <4> QED
        BY <4>1, <4>2
    <3>3. OwnClients'
      BY <2>0, <2>1, <3>1 DEF OwnClients
    <3>4. AllKnown'  \* r has had no effect before, and now it has
      <4>1. ASSUME NEW d, Known(d) PROVE Known(d)'
        BY <2>1, <3>1, <4>1 DEF Known
      <4>2. Known(client)'
        BY <2>1, <3>1 DEF Known
      <4> QED
        BY <2>1, <3>1, <4>1, <4>2 DEF AllKnown
    <3>5. UniqueNames'
      BY <3>1 DEF UniqueNames
    <3>6. FoundOne' /\ DeletesOne'
      BY <2>1 DEF FoundOne, DeletesOne
    <3>7. \A s \in Requests : client \notin witnessed[s]  \* the client is new
      BY KeycloakAssumption, <2>1 DEF AllKnown, Known
    <3>8. NoneLeft'
      BY <2>1, <3>1, <3>7 DEF NoneLeft, Gone
    <3> QED
      BY <3>2, <3>3, <3>4, <3>5, <3>6, <3>8
  <2>3. CASE Named(client.name) # {}
    <3>1. UNCHANGED <<realm, effect>> /\ call'[r] = "refused"
      BY <1>11, <2>0, <2>3 DEF RealmCreate
    <3> QED
      BY <2>1, <3>1 DEF PlaceTells, CallTells, OwnClients, AllKnown, Known, UniqueNames, FoundOne, DeletesOne,
           NoneLeft, Gone
  <2> QED
    BY <2>2, <2>3
<1>12. ASSUME NEW r \in Requests, RealmDelete(r) PROVE ConnectorInv'
  <2>1. /\ UNCHANGED <<request, pc, found, witnessed, answer, misread>>
        /\ request[r].kind = "delete" /\ call[r] = "sent" /\ effect[r] = {}
        /\ \A s \in Requests \ {r} : call'[s] = call[s]
    BY <1>12 DEF RealmDelete, CallTells
  <2>2. PICK c \in Clients : found[r] = {c}
    BY <2>1 DEF DeletesOne
  <2>3. CASE c \in realm
    <3>1. /\ realm' = realm \ {c} /\ effect'[r] = {c} /\ call'[r] = "done"
          /\ effect'[r] # {} /\ \A s \in Requests \ {r} : effect'[s] = effect[s]
      BY <1>12, <2>2, <2>3 DEF RealmDelete
    <3>2. PlaceTells' /\ CallTells' /\ OwnClients'
      <4>1. PlaceTells'
        BY <2>1, <3>1 DEF PlaceTells
      <4>2. CallTells'
        <5> SUFFICES ASSUME NEW s \in Requests PROVE CallTells!(s)'
          BY DEF CallTells
        <5>1. CASE s = r
          BY <2>1, <3>1, <5>1 DEF CallTells
        <5>2. CASE s # r
          BY <2>1, <3>1, <5>2 DEF CallTells
        <5> QED
          BY <5>1, <5>2
      <4>3. OwnClients'
        BY <2>1, <3>1 DEF OwnClients
      <4> QED
        BY <4>1, <4>2, <4>3
    <3>3. AllKnown' /\ UniqueNames'
      <4>1. AllKnown'
        <5>1. \A s \in Requests : effect[s] # {} => effect'[s] # {}
          BY <3>1
        <5>2. ASSUME NEW d, Known(d) PROVE Known(d)'
          BY <5>1, <5>2 DEF Known
        <5>3. \A d \in realm' : Known(d)'
          BY <2>1, <3>1, <5>2 DEF AllKnown
        <5>4. \A s \in Requests : \A d \in (witnessed[s] \cup found[s])' : Known(d)'
          BY <2>1, <5>2 DEF AllKnown
        <5> QED
          BY <5>3, <5>4 DEF AllKnown
      <4>2. UniqueNames'
        BY <2>1, <3>1 DEF UniqueNames
      <4> QED
        BY <4>1, <4>2
    <3>4. FoundOne' /\ DeletesOne'
      BY <2>1, <2>2, <3>1 DEF FoundOne, DeletesOne
    <3>5. NoneLeft'
      BY <2>1, <2>2, <3>1 DEF NoneLeft, Gone
    <3> QED
      BY <3>2, <3>3, <3>4, <3>5
  <2>4. CASE c \notin realm
    <3>1. UNCHANGED <<realm, effect>> /\ call'[r] = "missing"
      BY <1>12, <2>2, <2>4 DEF RealmDelete
    <3>2. NoneLeft'  \* only c could be left, and it is not there
      BY <2>1, <2>2, <2>4, <3>1 DEF NoneLeft, Gone
    <3> QED
      BY <2>1, <2>2, <3>1, <3>2 DEF PlaceTells, CallTells, OwnClients, AllKnown, Known,
           UniqueNames, FoundOne, DeletesOne
  <2> QED
    BY <2>3, <2>4
<1>13. ASSUME NEW lost \in SUBSET Requests, Restart(lost) PROVE ConnectorInv'
  BY <1>13 DEF Restart, Active,
     PlaceTells, CallTells, OwnClients, AllKnown, Known, UniqueNames, FoundOne, DeletesOne, NoneLeft, Gone
<1>14. ASSUME NEW r \in Requests, Misread(r) PROVE ConnectorInv'
  <2>1. /\ UNCHANGED <<realm, request, call, witnessed, effect>> /\ misread' = misread \cup {r}
        /\ pc'[r] \in {"found", "over"} /\ found'[r] \subseteq found[r]
        /\ \A s \in Requests \ {r} :
             pc'[s] = pc[s] /\ answer'[s] = answer[s] /\ found'[s] = found[s]
    BY <1>14 DEF Misread
  <2>2. PlaceTells'
    <3>1. Named(NoName) = {}
      BY KeycloakAssumption DEF Named, Clients
    <3> QED
      BY <1>14, <3>1 DEF Misread, PlaceTells
  <2>3. CallTells' /\ OwnClients' /\ AllKnown' /\ UniqueNames'
    BY <2>1 DEF CallTells, OwnClients, AllKnown, Known, UniqueNames
  <2>4. FoundOne'
    BY <2>1 DEF FoundOne
  <2>5. DeletesOne'  \* a lookup comes before any call
    BY <1>14 DEF Misread, PlaceTells, DeletesOne
  <2>6. NoneLeft'
    BY <2>1 DEF NoneLeft, Gone
  <2> QED
    BY <2>2, <2>3, <2>4, <2>5, <2>6
<1> QED
  BY <1>1, <1>2, <1>3, <1>4, <1>5, <1>6, <1>7, <1>8, <1>9, <1>10, <1>11, <1>12, <1>13, <1>14
     DEF Next, Handle, CarryOut

\* A delete that is about to be answered 404 for want of a client has been
\* recorded, and a step after which no new id can be unmatched keeps the rest.
LEMMA AbsentKept ==
  ASSUME TypeOK, AbsentNow, UNCHANGED <<request, absent>>, realm \subseteq realm',
         \A r \in Requests : answer'[r] = "none" => answer[r] = "none"
  PROVE  AbsentNow'
  BY DEF AbsentNow, Unmatched, Named

LEMMA AbsentStep == TypeOK /\ ConnectorInv /\ AbsentInv /\ [Next]_vars => AbsentInv'
<1> SUFFICES ASSUME TypeOK, ConnectorInv, AbsentInv, [Next]_vars PROVE AbsentInv'
  OBVIOUS
<1> USE DEF TypeOK, ConnectorInv, AbsentInv, Goto, Reply, Send
<1>1. CASE UNCHANGED vars
  BY <1>1, AbsentKept DEF vars, FoundOrAbsent, MissingWasTrue
<1>2. ASSUME NEW r \in Requests, NEW q \in Request, Receive(r, q) PROVE AbsentInv'
  <2>1. q.kind \in {"create", "delete"} /\ answer[r] = "none"
    BY <1>2 DEF Request, Receive, PlaceTells
  <2> QED
    BY <1>2, <2>1 DEF Receive, Observe, AbsentNow, FoundOrAbsent, MissingWasTrue
<1>3. ASSUME NEW r \in Requests, RefuseCreate(r) PROVE AbsentInv'
  BY <1>3, AbsentKept DEF RefuseCreate, FoundOrAbsent, MissingWasTrue
<1>4. ASSUME NEW r \in Requests, PostClient(r) PROVE AbsentInv'
  BY <1>4, AbsentKept DEF PostClient, FoundOrAbsent, MissingWasTrue
<1>5. ASSUME NEW r \in Requests, FinishCreate(r) PROVE AbsentInv'
  BY <1>5, AbsentKept DEF FinishCreate, FoundOrAbsent, MissingWasTrue
<1>6. ASSUME NEW r \in Requests, RefuseDelete(r) PROVE AbsentInv'
  <2>1. Unmatched(r)
    BY <1>6, KeycloakAssumption DEF RefuseDelete, PlaceTells, Unmatched, Named, Clients
  <2> QED
    BY <1>6, <2>1, AbsentKept DEF RefuseDelete, AbsentNow, FoundOrAbsent, MissingWasTrue
<1>7. ASSUME NEW r \in Requests, LookUp(r) PROVE AbsentInv'
  <2>1. Named(request[r].key) = {} => r \in absent
    BY <1>7 DEF LookUp, PlaceTells, AbsentNow, Unmatched
  <2> QED
    BY <1>7, <2>1, AbsentKept DEF LookUp, Named, FoundOrAbsent, MissingWasTrue
<1>8. ASSUME NEW r \in Requests, Resolve(r) PROVE AbsentInv'
  BY <1>8, AbsentKept DEF Resolve, PlaceTells, FoundOrAbsent, MissingWasTrue
<1>9. ASSUME NEW r \in Requests, FinishDelete(r) PROVE AbsentInv'
  BY <1>9, AbsentKept DEF FinishDelete, FoundOrAbsent, MissingWasTrue
<1>10. ASSUME NEW r \in Requests, CallFails(r) PROVE AbsentInv'
  BY <1>10, AbsentKept DEF CallFails, FoundOrAbsent, MissingWasTrue
<1>11. ASSUME NEW r \in Requests, RealmCreate(r) PROVE AbsentInv'
  <2>1. /\ UNCHANGED <<request, pc, found, answer, absent, misread>> /\ realm \subseteq realm'
        /\ pc[r] \notin {"found", "deleting"}
        /\ \A s \in Requests \ {r} : call'[s] = call[s]
    BY <1>11 DEF RealmCreate, PlaceTells
  <2> QED
    BY <2>1, AbsentKept DEF FoundOrAbsent, MissingWasTrue
<1>12. ASSUME NEW r \in Requests, RealmDelete(r) PROVE AbsentInv'
  <2>1. PICK c \in Clients : found[r] = {c}
    BY <1>12 DEF RealmDelete, DeletesOne
  <2>2. /\ UNCHANGED <<request, pc, found, answer, misread>> /\ call[r] = "sent"
        /\ \A s \in Requests \ {r} : call'[s] = call[s]
    BY <1>12 DEF RealmDelete
  <2>3. CASE c \in realm
    <3>1. realm' = realm \ {c} /\ call'[r] = "done" /\ Observe
      BY <1>12, <2>1, <2>3 DEF RealmDelete
    <3>2. AbsentNow' /\ absent \subseteq absent'
      BY <3>1 DEF Observe, AbsentNow
    <3>3. ASSUME NEW s \in Requests, pc[s] \in {"found", "deleting"}, c \in found[s]
          PROVE  s \in absent'  \* it was the only client of that name
      <4>1. Named(request[s].key)' = {}
        BY <2>2, <2>3, <3>1, <3>3 DEF FoundOne, UniqueNames, Named
      <4> QED
        BY <2>2, <3>2, <3>3, <4>1 DEF PlaceTells, AbsentNow, Unmatched
    <3>4. FoundOrAbsent'
      BY <2>2, <3>1, <3>2, <3>3 DEF FoundOrAbsent
    <3> QED
      BY <2>2, <3>1, <3>2, <3>4 DEF MissingWasTrue
  <2>4. CASE c \notin realm
    <3>1. UNCHANGED <<realm, absent>> /\ call'[r] = "missing"
      BY <1>12, <2>1, <2>4 DEF RealmDelete
    <3>2. pc[r] = "deleting" => r \in absent \cup misread
      BY <2>1, <2>2, <2>4 DEF FoundOrAbsent
    <3> QED
      BY <2>2, <3>1, <3>2, AbsentKept DEF FoundOrAbsent, MissingWasTrue
  <2> QED
    BY <2>3, <2>4
<1>13. ASSUME NEW lost \in SUBSET Requests, Restart(lost) PROVE AbsentInv'
  BY <1>13, AbsentKept DEF Restart, FoundOrAbsent, MissingWasTrue
<1>14. ASSUME NEW r \in Requests, Misread(r) PROVE AbsentInv'
  <2>1. /\ UNCHANGED <<realm, request, call, absent>> /\ misread' = misread \cup {r}
        /\ answer[r] = "none"
        /\ \A s \in Requests \ {r} :
             pc'[s] = pc[s] /\ answer'[s] = answer[s] /\ found'[s] = found[s]
    BY <1>14 DEF Misread, PlaceTells
  <2> QED
    BY <2>1, AbsentKept DEF FoundOrAbsent, MissingWasTrue
<1> QED
  BY <1>1, <1>2, <1>3, <1>4, <1>5, <1>6, <1>7, <1>8, <1>9, <1>10, <1>11, <1>12, <1>13, <1>14
     DEF Next, Handle, CarryOut

LEMMA Invariant == Spec => [](TypeOK /\ ConnectorInv /\ AbsentInv)
<1>1. Init => TypeOK /\ ConnectorInv /\ AbsentInv
  <2> SUFFICES ASSUME Init PROVE TypeOK /\ ConnectorInv /\ AbsentInv
    OBVIOUS
  <2>1. TypeOK
    BY KeycloakAssumption DEF Init, TypeOK, Clients
  <2>2. PlaceTells /\ CallTells /\ OwnClients
    BY DEF Init, PlaceTells, CallTells, OwnClients, NoRequest
  <2>3. AllKnown /\ UniqueNames
    BY KeycloakAssumption DEF Init, AllKnown, Known, UniqueNames
  <2>4. FoundOne /\ DeletesOne /\ NoneLeft
    BY DEF Init, FoundOne, DeletesOne, NoneLeft, NoRequest
  <2>5. AbsentInv
    BY DEF Init, AbsentInv, AbsentNow, Unmatched, FoundOrAbsent, MissingWasTrue, NoRequest
  <2> QED
    BY <2>1, <2>2, <2>3, <2>4, <2>5 DEF ConnectorInv
<1>2. TypeOK /\ ConnectorInv /\ AbsentInv /\ [Next]_vars => (TypeOK /\ ConnectorInv /\ AbsentInv)'
  <2>1. ConnectorInv => CallTells
    BY DEF ConnectorInv
  <2> QED
    BY <2>1, TypeStep, ConnectorStep, AbsentStep
<1> QED
  BY <1>1, <1>2, PTL DEF Spec

(* Every variable keeps its type. *)
THEOREM TypeCorrect == Spec => []TypeOK
  BY Invariant, PTL

(* The answer to an ambiguous lookup is never given. *)
THEOREM LookupsUnambiguous == Spec => []LookupUnambiguous
<1>1. ConnectorInv => LookupUnambiguous
  BY Counting DEF ConnectorInv, FoundOne, LookupUnambiguous
<1> QED
  BY <1>1, Invariant, PTL

(* However lookups, deletions, late effects and restarts interleave, and     *)
(* whatever replies other requests misread, a delete that misread none and   *)
(* is answered 204 or 404 leaves none of the clients of its name that were   *)
(* there when it was received.                                               *)
THEOREM DeletesLeaveNone == Spec => []DeleteLeavesNone
<1>1. ConnectorInv => DeleteLeavesNone
  BY DEF ConnectorInv, NoneLeft, Gone, DeleteLeavesNone
<1> QED
  BY <1>1, Invariant, PTL

(* A delete that misread no reply is answered 404 only if at one moment      *)
(* since it was received the realm held no client of its name, so that it    *)
(* can be taken for a single step: the lookup that finds nothing, and the    *)
(* deletion that comes too late, never report the absence of one client      *)
(* while another of that name has been there all along.                      *)
THEOREM NotFoundTrue == Spec => []NotFoundWasTrue
<1>1. AbsentInv => NotFoundWasTrue
  BY DEF AbsentInv, MissingWasTrue, NotFoundWasTrue
<1> QED
  BY <1>1, Invariant, PTL

------------------------------------------------------------------------------
(* The refinement.  The assumptions of ClientRegistry hold of what replaces  *)
(* its constants.                                                            *)
LEMMA PromiseAssumption ==
  /\ NoName \in Names \cup {NoName}
  /\ [c \in Clients |-> c.name] \in [Clients -> (Names \cup {NoName}) \ {NoName}]
  /\ [c \in Clients |-> {c.name}] \in [Clients -> SUBSET ((Names \cup {NoName}) \ {NoName})]
  /\ Preexisting \subseteq Clients
  BY KeycloakAssumption DEF Clients

(* Clients selected by an id are those of that name. *)
LEMMA SelectedNamed ==
  ASSUME TypeOK, NEW name
  PROVE  Registry!Selected(name) = Named(name)
  BY DEF TypeOK, Registry!Selected, Named

(* Requests that are open are open in both readings. *)
LEMMA VouchedOpen ==
  \A r \in Requests : VouchedAnswer[r] = "none" <=> answer[r] = "none"
  BY DEF VouchedAnswer

(* An answer vouches for what it says, unless its request misread a reply. *)
LEMMA ReplyVouches ==
  ASSUME TypeOK, NEW r \in Requests, NEW code \in Registry!Codes, Reply(r, code),
         answer[r] = "none", misread' \in {misread, misread \cup {r}}
  PROVE  VouchedAnswer' = [VouchedAnswer EXCEPT ![r] = IF r \in misread' THEN "500" ELSE code]
  BY DEF TypeOK, Reply, VouchedAnswer, Registry!Codes

(* What is not answered does not show. *)
LEMMA SilentVouches ==
  ASSUME answer' = answer, NEW r \in Requests, answer[r] = "none",
         misread' \in {misread, misread \cup {r}}
  PROVE  VouchedAnswer' = VouchedAnswer
  BY DEF VouchedAnswer

\* So the two observe the same.
LEMMA ObservesSame ==
  ASSUME TypeOK', Observe
  PROVE  Registry!Observe
  BY DEF TypeOK, Observe, Unmatched, Named, VouchedAnswer,
     Registry!Observe, Registry!Unmatched, Registry!Asks, Registry!Selected

LEMMA PromiseStep ==
  TypeOK /\ ConnectorInv /\ AbsentInv /\ [Next]_vars => [Registry!Next]_Registry!vars
<1> SUFFICES ASSUME TypeOK, ConnectorInv, AbsentInv, [Next]_vars
             PROVE  Registry!Next \/ UNCHANGED Registry!vars
  OBVIOUS
<1> USE DEF TypeOK, ConnectorInv, Goto, Reply, Send
<1>0. TypeOK' /\ MissingWasTrue'
  BY TypeStep, AbsentStep DEF AbsentInv
<1>1. CASE UNCHANGED vars
  BY <1>1 DEF vars, VouchedAnswer, Registry!vars
<1>2. ASSUME NEW r \in Requests, NEW code \in Registry!Codes,
             request[r] # NoRequest, answer[r] = "none",
             r \in misread' \/ (r \in absent \/ code # "404" => Registry!Vouched(r, code)),
             Reply(r, code), misread' \in {misread, misread \cup {r}},
             UNCHANGED <<realm, request, witnessed, effect, absent>>
      PROVE  Registry!Next
  <2>1. CASE r \in misread'
    <3>1. VouchedAnswer' = [VouchedAnswer EXCEPT ![r] = "500"]
      BY <1>2, <2>1, ReplyVouches
    <3>2. Registry!Answer(r, "500")
      BY <1>2, <3>1, VouchedOpen
         DEF Registry!Answer, Registry!Vouched, Registry!Pending, Registry!NoRequest, NoRequest
    <3> QED
      BY <3>2 DEF Registry!Next, Registry!Codes
  <2>2. CASE r \notin misread'
    <3>1. code = "404" => r \in absent
      BY <1>0, <1>2, <2>2 DEF MissingWasTrue
    <3>2. VouchedAnswer' = [VouchedAnswer EXCEPT ![r] = code]
      BY <1>2, <2>2, ReplyVouches
    <3>3. Registry!Answer(r, code)
      BY <1>2, <2>2, <3>1, <3>2, VouchedOpen
         DEF Registry!Answer, Registry!Pending, Registry!NoRequest, NoRequest
    <3> QED
      BY <3>3 DEF Registry!Next
  <2> QED
    BY <2>1, <2>2
<1>3. ASSUME NEW r \in Requests, NEW q \in Request, Receive(r, q) PROVE Registry!Next
  <2>1. Registry!Receive(r, q)
    <3>1. UNCHANGED VouchedAnswer
      BY <1>3 DEF Receive, VouchedAnswer
    <3>2. Registry!Observe
      BY <1>0, <1>3, ObservesSame DEF Receive
    <3> QED
      BY <1>3, <3>1, <3>2, SelectedNamed
         DEF Receive, PlaceTells, Registry!Receive, Registry!NoRequest, NoRequest
  <2> QED
    BY <2>1 DEF Registry!Next, Registry!Request, Request
<1>4. ASSUME NEW r \in Requests, RefuseCreate(r) PROVE Registry!Next
  BY <1>2, <1>4
     DEF RefuseCreate, PlaceTells, CallTells, Registry!Vouched, Registry!Asks, Registry!Codes
<1>5. ASSUME NEW r \in Requests, PostClient(r) PROVE UNCHANGED Registry!vars
  BY <1>5 DEF PostClient, VouchedAnswer, Registry!vars
<1>6. ASSUME NEW r \in Requests, FinishCreate(r) PROVE Registry!Next
  BY <1>2, <1>6
     DEF FinishCreate, PlaceTells, CallTells, Registry!Vouched, Registry!Asks, Registry!Codes
<1>7. ASSUME NEW r \in Requests, RefuseDelete(r) PROVE Registry!Next
  BY <1>2, <1>7
     DEF RefuseDelete, PlaceTells, CallTells,
         Registry!Vouched, Registry!Asks, Registry!Codes
<1>8. ASSUME NEW r \in Requests, LookUp(r) PROVE UNCHANGED Registry!vars
  BY <1>8 DEF LookUp, VouchedAnswer, Registry!vars
<1>9. ASSUME NEW r \in Requests, Resolve(r) PROVE Registry!Next \/ UNCHANGED Registry!vars
  <2>1. CASE found[r] = {}
    BY <1>2, <1>9, <2>1, FS_EmptySet
       DEF Resolve, PlaceTells, CallTells,
           Registry!Vouched, Registry!Asks, Registry!Codes
  <2>2. CASE Cardinality(found[r]) = 1
    <3>1. found[r] # {}
      BY <2>2, NoneCounted
    <3>2. UNCHANGED <<realm, request, witnessed, effect, answer, absent, misread>>
      BY <1>9, <2>2, <3>1 DEF Resolve
    <3> QED
      BY <3>2 DEF VouchedAnswer, Registry!vars
  <2>3. Cardinality(found[r]) \in {0, 1}
    BY Counting DEF FoundOne
  <2> QED
    BY <1>9, <2>1, <2>2, <2>3 DEF Resolve
<1>10. ASSUME NEW r \in Requests, FinishDelete(r) PROVE Registry!Next
  BY <1>2, <1>10
     DEF FinishDelete, PlaceTells, CallTells,
         Registry!Vouched, Registry!Asks, Registry!Codes
<1>11. ASSUME NEW r \in Requests, CallFails(r) PROVE Registry!Next
  BY <1>2, <1>11 DEF CallFails, PlaceTells, Registry!Vouched, Registry!Codes
<1>12. ASSUME NEW r \in Requests, RealmCreate(r)
       PROVE  Registry!Next \/ UNCHANGED Registry!vars
  <2>1. PICK client : client = [uid |-> r, name |-> request[r].key]
    OBVIOUS
  <2>2. CASE Named(client.name) = {}
    <3>1. client \in Clients
      <4>1. request[r].key \in Names
        BY <1>12 DEF RealmCreate, CallTells, Request, NoRequest
      <4> QED
        BY <2>1, <4>1 DEF Clients
    <3>2. client \notin Preexisting \cup Registry!Created
      <4>1. client \notin Preexisting
        BY <2>1, KeycloakAssumption
      <4>2. ASSUME NEW s \in Requests, request[s].kind = "create" PROVE client \notin effect[s]
        BY <1>12, <2>1, <4>2 DEF RealmCreate, CallTells, OwnClients
      <4> QED
        BY <4>1, <4>2 DEF Registry!Created, Registry!Asks
    <3>3. Registry!Register(r, client)
      BY <1>12, <2>1, <2>2, <3>1, <3>2
         DEF RealmCreate, CallTells, VouchedAnswer, Registry!Register, Registry!Asks, Registry!Open
    <3> QED
      BY <3>1, <3>3 DEF Registry!Next
  <2>3. CASE Named(client.name) # {}
    BY <1>12, <2>1, <2>3 DEF RealmCreate, VouchedAnswer, Registry!vars
  <2> QED
    BY <2>2, <2>3
<1>13. ASSUME NEW r \in Requests, RealmDelete(r)
       PROVE  Registry!Next \/ UNCHANGED Registry!vars
  <2>1. PICK c \in Clients : found[r] = {c}
    BY <1>13 DEF RealmDelete, DeletesOne
  <2>2. CASE c \in realm
    <3>1. Registry!Remove(r, c)
      BY <1>0, <1>13, <2>1, <2>2, SelectedNamed, ObservesSame
         DEF RealmDelete, CallTells, FoundOne, Named, VouchedAnswer,
             Registry!Remove, Registry!Asks, Registry!Open
    <3> QED
      BY <3>1 DEF Registry!Next
  <2>3. CASE c \notin realm
    BY <1>13, <2>1, <2>3 DEF RealmDelete, VouchedAnswer, Registry!vars
  <2> QED
    BY <2>2, <2>3
<1>14. ASSUME NEW lost \in SUBSET Requests, Restart(lost) PROVE [Registry!Next]_Registry!vars
  <2>1. \A r \in Requests : Active(r) <=> Registry!Pending(r)
    BY VouchedOpen DEF Active, PlaceTells, Registry!Pending, Registry!NoRequest, NoRequest
  <2>2. Registry!Drop(lost)
    BY <1>14, <2>1 DEF Restart, VouchedAnswer, Registry!Drop
  <2> QED
    BY <2>2 DEF Registry!Next
<1>15. ASSUME NEW r \in Requests, Misread(r) PROVE Registry!Next \/ UNCHANGED Registry!vars
  <2>1. /\ UNCHANGED <<realm, request, witnessed, effect, absent>>
        /\ misread' = misread \cup {r}
        /\ request[r] # NoRequest /\ answer[r] = "none"
    BY <1>15 DEF Misread, PlaceTells
  <2>2. CASE pc[r] = "delete"
    <3>1. VouchedAnswer' = VouchedAnswer
      BY <1>15, <2>1, <2>2, SilentVouches DEF Misread
    <3> QED
      BY <2>1, <3>1 DEF Registry!vars
  <2>3. CASE pc[r] # "delete"
    <3>1. PICK code \in {"201", "204", "404"} : Reply(r, code)
      BY <1>15, <2>3 DEF Misread
    <3> QED
      BY <1>2, <2>1, <3>1 DEF Registry!Codes
  <2> QED
    BY <2>2, <2>3
<1> QED
  BY <1>1, <1>3, <1>4, <1>5, <1>6, <1>7, <1>8, <1>9, <1>10, <1>11, <1>12, <1>13, <1>14, <1>15
     DEF Next, Handle, CarryOut

(* The Keycloak connector keeps the promise of the API, whatever the number  *)
(* of requests: each of its steps is a step of ClientRegistry or none of it, *)
(* when an answer that rests on a misread reply is taken for the 500 that    *)
(* the handler would give if it looked at the reply.                         *)
THEOREM KeepsPromise == Spec => Promise
<1>1. Init => Registry!Init
  BY DEF Init, VouchedAnswer, Registry!Init, Registry!NoRequest, NoRequest
<1> QED
  BY <1>1, Invariant, PromiseStep, PTL DEF Spec, Promise, Registry!Spec

\* The promise to the letter: answers as they are sent.
Letter == INSTANCE ClientRegistry WITH
  Keys <- Names \cup {NoName},
  NoKey <- NoName,
  NameOf <- [c \in Clients |-> c.name],
  KeysOf <- [c \in Clients |-> {c.name}],
  registry <- realm

LEMMA LetterStep ==
  ASSUME VouchedAnswer = answer, VouchedAnswer' = answer', [Registry!Next]_Registry!vars
  PROVE  [Letter!Next]_Letter!vars
<1> USE DEF Registry!NoRequest, Letter!NoRequest,
            Registry!Request, Letter!Request, Registry!Codes, Letter!Codes,
            Registry!Asks, Letter!Asks, Registry!Created, Letter!Created,
            Registry!Selected, Letter!Selected, Registry!Pending, Letter!Pending,
            Registry!Unmatched, Letter!Unmatched, Registry!Observe, Letter!Observe,
            Registry!Open, Letter!Open, Registry!Receive, Letter!Receive,
            Registry!Register, Letter!Register, Registry!Remove, Letter!Remove,
            Registry!Vouched, Letter!Vouched, Registry!Answer, Letter!Answer,
            Registry!Drop, Letter!Drop, Registry!vars, Letter!vars
<1>1. CASE UNCHANGED Registry!vars
  BY <1>1
<1>2. ASSUME NEW r \in Requests, NEW q \in Registry!Request, Registry!Receive(r, q)
      PROVE  Letter!Receive(r, q)
  BY <1>2
<1>3. ASSUME NEW r \in Requests, NEW c \in Clients, Registry!Register(r, c)
      PROVE  Letter!Register(r, c)
  BY <1>3
<1>4. ASSUME NEW r \in Requests, NEW c \in Clients, Registry!Remove(r, c)
      PROVE  Letter!Remove(r, c)
  BY <1>4
<1>5. ASSUME NEW r \in Requests, NEW code \in Registry!Codes, Registry!Answer(r, code)
      PROVE  Letter!Answer(r, code)
  BY <1>5
<1>6. ASSUME NEW lost \in SUBSET Requests, Registry!Drop(lost)
      PROVE  Letter!Drop(lost)
  BY <1>6
<1>7. Registry!Request = Letter!Request /\ Registry!Codes = Letter!Codes
  OBVIOUS
<1> HIDE DEF Registry!Request, Letter!Request, Registry!Codes, Letter!Codes,
             Registry!Receive, Letter!Receive, Registry!Register, Letter!Register,
             Registry!Remove, Letter!Remove, Registry!Answer, Letter!Answer,
             Registry!Drop, Letter!Drop, Registry!vars, Letter!vars
<1> QED
  BY <1>1, <1>2, <1>3, <1>4, <1>5, <1>6, <1>7 DEF Registry!Next, Letter!Next

(* While no handler misreads a reply of Keycloak the promise is kept to the  *)
(* letter: each code that is sent is one ClientRegistry allows.              *)
THEOREM KeepsPromiseToTheLetter == Spec /\ [](misread = {}) => Letter!Spec
<1>1. TypeOK /\ misread = {} => VouchedAnswer = answer
  BY DEF TypeOK, VouchedAnswer
<1>2. Init => Letter!Init
  BY DEF Init, Letter!Init, Letter!NoRequest, NoRequest
<1>3. /\ TypeOK /\ misread = {} /\ (TypeOK /\ misread = {})'
      /\ [Registry!Next]_Registry!vars
      => [Letter!Next]_Letter!vars
  <2>1. (TypeOK /\ misread = {})' => VouchedAnswer' = answer'
    BY DEF TypeOK, VouchedAnswer
  <2> QED
    BY <1>1, <2>1, LetterStep
<1> QED
  BY <1>2, <1>3, Invariant, PromiseStep, PTL DEF Spec, Letter!Spec
------------------------------------------------------------------------------
(* What is proved of ClientRegistry, for any clients, ids and requests, holds  *)
(* of the connector by its promise: the theorems are read with the clients     *)
(* and ids of the connector in place of the constants.                         *)
Abstract == INSTANCE ClientRegistryProofs WITH
  Keys <- Names \cup {NoName},
  NoKey <- NoName,
  NameOf <- [c \in Clients |-> c.name],
  KeysOf <- [c \in Clients |-> {c.name}],
  registry <- realm,
  answer <- VouchedAnswer

\* The module of the theorems states the same specification.
LEMMA SameSpec == Promise => Abstract!Spec
<1> USE DEF Registry!NoRequest, Abstract!NoRequest,
            Registry!Request, Abstract!Request, Registry!Codes, Abstract!Codes,
            Registry!Asks, Abstract!Asks, Registry!Created, Abstract!Created,
            Registry!Removed, Abstract!Removed, Registry!Selected, Abstract!Selected,
            Registry!Pending, Abstract!Pending,
            Registry!Unmatched, Abstract!Unmatched,
            Registry!Observe, Abstract!Observe, Registry!Open, Abstract!Open,
            Registry!Receive, Abstract!Receive, Registry!Register, Abstract!Register,
            Registry!Remove, Abstract!Remove, Registry!Vouched, Abstract!Vouched,
            Registry!Answer, Abstract!Answer, Registry!Drop, Abstract!Drop,
            Registry!Next, Abstract!Next, Registry!vars, Abstract!vars,
            Registry!Init, Abstract!Init
<1>1. Registry!Init = Abstract!Init
  OBVIOUS
<1>2. Registry!Next = Abstract!Next
  OBVIOUS
<1>3. Registry!vars = Abstract!vars
  OBVIOUS
<1>4. [Registry!Next]_Registry!vars => [Abstract!Next]_Abstract!vars
  OBVIOUS
<1> QED
  BY <1>1, <1>2, <1>3, <1>4, PTL DEF Promise, Registry!Spec, Abstract!Spec

(* The realm holds what it held at the start and what the creates of the     *)
(* connector added, less what its deletes removed; no two requests share a   *)
(* client; and its status codes, other than those that rest on a misread     *)
(* reply, stay true whatever other requests do later.                        *)
THEOREM PromisedEffects ==
  Spec => [](/\ Registry!Accounted /\ Registry!LossesAskedFor
             /\ Registry!EffectsDistinct /\ Registry!AnswersHold)
<1>1. Abstract!Spec => [](/\ Abstract!Accounted /\ Abstract!LossesAskedFor
                          /\ Abstract!EffectsDistinct /\ Abstract!AnswersHold)
  BY PromiseAssumption, Abstract!EveryClientAccounted, Abstract!NoLossUnasked,
     Abstract!NoSharedEffect, Abstract!AnswersStayTrue, PTL
<1>2. Abstract!Accounted => Registry!Accounted
  BY DEF Abstract!Accounted, Registry!Accounted, Abstract!Created, Registry!Created,
         Abstract!Removed, Registry!Removed, Abstract!Asks, Registry!Asks
<1>3. Abstract!EffectsDistinct => Registry!EffectsDistinct
  BY DEF Abstract!EffectsDistinct, Registry!EffectsDistinct
<1>4. Abstract!AnswersHold => Registry!AnswersHold
  BY DEF Abstract!AnswersHold, Registry!AnswersHold
<1>5. Abstract!LossesAskedFor => Registry!LossesAskedFor
  BY DEF Abstract!LossesAskedFor, Registry!LossesAskedFor, Abstract!Created, Registry!Created,
         Abstract!Asks, Registry!Asks
<1> QED
  BY KeepsPromise, SameSpec, <1>1, <1>2, <1>3, <1>4, <1>5, PTL
==============================================================================
