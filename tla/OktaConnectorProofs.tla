-------------------------- MODULE OktaConnectorProofs --------------------------
(* Proofs about the Okta connector, for any sets of requests, applications   *)
(* and ids.                                                                  *)
EXTENDS OktaConnector, FiniteSetTheorems, TLAPS

------------------------------------------------------------------------------
(* The inductive invariant. *)

Creates(r) == request[r].kind = "create"
Deletes(r) == request[r].kind = "delete"

\* Where a handler is tells what it asks for and what was sent.
Place(r) ==
  /\ pc[r] = "idle" <=> request[r] = NoRequest
  /\ pc[r] \in {"create", "creating"} => Creates(r)
  /\ pc[r] \in {"delete", "listed", "deactivating", "deleting"} => Deletes(r)
  /\ pc[r] \in {"idle", "create", "delete", "listed"} => wire[r] = "none"
  /\ pc[r] = "deactivating" => wire[r] \in {"deactivate", "done", "refused"}
  /\ pc[r] = "deleting" => wire[r] \in {"delete", "done", "refused"}
  /\ answer[r] = "none" <=> pc[r] # "over"

\* What a delete has found, and what is under way for it.
Sent(r) ==
  /\ wire[r] = "create" => Creates(r)
  /\ wire[r] \in {"deactivate", "delete", "refused"} => Deletes(r)
  /\ pc[r] \in {"idle", "delete"} \/ Creates(r) => found[r] = {}
  /\ wire[r] # "none" => request[r].key # NoKey
  /\ wire[r] # "none" /\ Deletes(r) => \E c \in found[r] : found[r] = {c}
  /\ \A c \in found[r] \cup witnessed[r] : request[r].key \in KeysOf[c]

\* What was carried out, and what the portal has been told.
Told(r) ==
  /\ effect[r] # {} => wire[r] = "done"
  /\ Creates(r) /\ wire[r] = "done" => effect[r] = {[uid |-> r, label |-> request[r].key]}
  /\ Deletes(r) => effect[r] \in {{}, found[r]}
  /\ pc[r] = "deactivating" => effect[r] = {}
  /\ pc[r] = "deleting" /\ wire[r] = "done" => effect[r] = found[r]
  /\ answer[r] = "201" => Creates(r) /\ wire[r] = "done"
  /\ answer[r] = "204" => Deletes(r) /\ wire[r] = "done" /\ effect[r] = found[r]
  /\ answer[r] = "400" => Creates(r) /\ wire[r] = "none"
  /\ answer[r] = "404" => Deletes(r) /\ wire[r] = "none" /\ found[r] = {}

Local(r) == Place(r) /\ Sent(r) /\ Told(r)

\* An application a delete has deactivated stays so until it is gone; what was
\* deleted, or refused as gone, stays gone.
Org(r) ==
  /\ wire[r] = "delete" \/ (pc[r] = "deactivating" /\ wire[r] = "done")
       => found[r] \subseteq inactive \/ found[r] \cap org = {}
  /\ wire[r] = "refused" => found[r] \cap org = {}
  /\ Deletes(r) => effect[r] \cap org = {}

\* The create that made this application is through: it will not make it again.
Known(c) == c.uid \in Requests => Creates(c.uid) /\ effect[c.uid] # {}

AllKnown ==
  /\ \A c \in org : Known(c)
  /\ \A r \in Requests : \A c \in found[r] \cup witnessed[r] : Known(c)

\* Every deactivated application is one a delete has settled on.
Owed == \A c \in inactive : \E r \in Requests : Deletes(r) /\ found[r] = {c} /\ wire[r] # "none"

ConnectorInv ==
  /\ \A r \in Requests : Local(r)
  /\ \A r \in Requests : Org(r)
  /\ AllKnown
  /\ Owed

------------------------------------------------------------------------------
(* Steps on one request leave the others as they are. *)
Unmoved(s) ==
  /\ request'[s] = request[s] /\ pc'[s] = pc[s] /\ found'[s] = found[s]
  /\ wire'[s] = wire[s] /\ witnessed'[s] = witnessed[s]
  /\ effect'[s] = effect[s] /\ answer'[s] = answer[s]

Step(r) ==
  \/ \E q \in Request : Receive(r, q)
  \/ Handle(r) \/ CallFails(r) \/ Disconnect(r) \/ CarryOut(r)

LEMMA TypeStep ==
  ASSUME TypeOK, \A r \in Requests : Sent(r), [Next]_vars
  PROVE  TypeOK'
<1> USE DEF TypeOK, Goto, Reply, Wire
<1>1. CASE UNCHANGED vars
  BY <1>1 DEF vars
<1>2. ASSUME NEW r \in Requests, NEW q \in Request, Receive(r, q) PROVE TypeOK'
  <2>1. Matching(org, q.key) \subseteq Clients
    BY DEF Matching
  <2>2. witnessed' \in [Requests -> SUBSET Clients]
    BY <1>2, <2>1 DEF Receive
  <2>3. q.kind \in {"create", "delete"}
    BY DEF Request
  <2> QED
    BY <1>2, <2>2, <2>3 DEF Receive, Observe
<1>3. ASSUME NEW r \in Requests, RefuseCreate(r) \/ CreateApplication(r) \/ FinishCreate(r)
      PROVE TypeOK'
  BY <1>3 DEF RefuseCreate, CreateApplication, FinishCreate
<1>4. ASSUME NEW r \in Requests, RefuseDelete(r) \/ DeactivationEnds(r) \/ FinishDelete(r)
      PROVE TypeOK'
  BY <1>4 DEF RefuseDelete, DeactivationEnds, FinishDelete
<1>5. ASSUME NEW r \in Requests, ListApplications(r) PROVE TypeOK'
  <2>1. \A page \in Pages : Matching(page, request[r].key) \subseteq Clients
    BY DEF Pages, Matching
  <2> QED
    BY <1>5, <2>1 DEF ListApplications
<1>6. ASSUME NEW r \in Requests, TakeFirst(r) PROVE TypeOK'
  BY <1>6 DEF TakeFirst
<1>7. ASSUME NEW r \in Requests, CallFails(r) \/ Disconnect(r) PROVE TypeOK'
  BY <1>7 DEF CallFails, Disconnect
<1>8. ASSUME NEW r \in Requests, OrgCreate(r) PROVE TypeOK'
  <2>1. request[r].key \in Keys \ {NoKey}
    BY <1>8, OktaAssumption DEF OrgCreate, Sent, Request, NoRequest
  <2>2. [uid |-> r, label |-> request[r].key] \in Clients
    BY <2>1 DEF Clients
  <2>3. org' \subseteq Clients /\ effect' \in [Requests -> SUBSET Clients] /\ inactive' \subseteq org'
    BY <1>8, <2>2 DEF OrgCreate
  <2> QED
    BY <1>8, <2>3 DEF OrgCreate
<1>9. ASSUME NEW r \in Requests, OrgDeactivate(r) PROVE TypeOK'
  BY <1>9 DEF OrgDeactivate
<1>10. ASSUME NEW r \in Requests, OrgDelete(r) PROVE TypeOK'
  BY <1>10 DEF OrgDelete, Observe
<1> QED
  BY <1>1, <1>2, <1>3, <1>4, <1>5, <1>6, <1>7, <1>8, <1>9, <1>10 DEF Next, Handle, CarryOut

LEMMA OneMoves ==
  ASSUME TypeOK, NEW r \in Requests, Step(r), NEW s \in Requests, s # r
  PROVE  Unmoved(s)
<1> USE DEF TypeOK, Unmoved, Goto, Reply, Wire
<1>1. ASSUME NEW q \in Request, Receive(r, q) PROVE Unmoved(s)
  BY <1>1 DEF Receive
<1>2. CASE RefuseCreate(r) \/ CreateApplication(r) \/ FinishCreate(r)
  BY <1>2 DEF RefuseCreate, CreateApplication, FinishCreate
<1>3. CASE RefuseDelete(r) \/ ListApplications(r)
  BY <1>3 DEF RefuseDelete, ListApplications
<1>4. CASE TakeFirst(r)
  BY <1>4 DEF TakeFirst
<1>5. CASE DeactivationEnds(r) \/ FinishDelete(r)
  BY <1>5 DEF DeactivationEnds, FinishDelete
<1>6. CASE CallFails(r) \/ Disconnect(r)
  BY <1>6 DEF CallFails, Disconnect
<1>7. CASE OrgCreate(r) \/ OrgDeactivate(r) \/ OrgDelete(r)
  BY <1>7 DEF OrgCreate, OrgDeactivate, OrgDelete
<1> QED
  BY <1>1, <1>2, <1>3, <1>4, <1>5, <1>6, <1>7 DEF Step, Handle, CarryOut

LEMMA LocalSame ==
  ASSUME NEW s \in Requests, Unmoved(s), Local(s)
  PROVE  Local(s)'
<1> USE DEF Local, Unmoved, Creates, Deletes
<1>1. Place(s)'
  BY DEF Place
<1>2. Sent(s)'
  BY DEF Sent, KeysOf
<1>3. Told(s)'
  BY DEF Told
<1> QED
  BY <1>1, <1>2, <1>3

LEMMA Matches ==
  ASSUME NEW apps, NEW key, NEW c \in Matching(apps, key)
  PROVE  c \in apps /\ key \in KeysOf[c]
  BY DEF Matching

\* The request that moves keeps what is known of it.
LEMMA LocalMoves ==
  ASSUME TypeOK, NEW r \in Requests, Local(r), Step(r)
  PROVE  Local(r)'
<1> USE DEF TypeOK, Goto, Reply, Wire, Local, Creates, Deletes
<1>1. ASSUME NEW q \in Request, Receive(r, q) PROVE Local(r)'
  <2>1. q.kind \in {"create", "delete"} /\ q # NoRequest
    BY DEF Request, NoRequest
  <2>2. /\ request'[r] = q /\ pc'[r] = q.kind /\ found'[r] = {} /\ wire'[r] = "none"
        /\ effect'[r] = {} /\ answer'[r] = "none" /\ witnessed'[r] = Matching(org, q.key)
    BY <1>1 DEF Receive, Place, Sent, Told, NoRequest
  <2>3. Place(r)'
    BY <2>1, <2>2 DEF Place
  <2>4. Sent(r)'
    <3>1. \A c \in found'[r] \cup witnessed'[r] : request'[r].key \in KeysOf[c]
      BY <2>2, Matches
    <3> QED
      BY <2>1, <2>2, <3>1 DEF Sent, KeysOf
  <2>5. Told(r)'
    BY <2>1, <2>2 DEF Told
  <2> QED
    BY <2>3, <2>4, <2>5
<1>2. CASE RefuseCreate(r) \/ RefuseDelete(r) \/ CallFails(r) \/ Disconnect(r)
  <2>1. /\ \E code \in {"400", "500", "dropped"} : Reply(r, code) /\ (code = "400" => pc[r] = "create")
        /\ pc[r] \notin {"idle", "over"}
        /\ UNCHANGED <<request, found, wire, witnessed, effect>>
    BY <1>2 DEF RefuseCreate, RefuseDelete, CallFails, Waiting, Disconnect, Active
  <2>2. Place(r)'
    BY <2>1 DEF Place
  <2>3. Sent(r)'
    BY <2>1 DEF Sent, KeysOf, Place
  <2>4. Told(r)'
    BY <2>1 DEF Told, Place
  <2> QED
    BY <2>2, <2>3, <2>4
<1>3. CASE CreateApplication(r)
  <2>1. Place(r)'
    BY <1>3 DEF CreateApplication, Place
  <2>2. Sent(r)'
    BY <1>3 DEF CreateApplication, Place, Sent, KeysOf
  <2>3. Told(r)'
    BY <1>3 DEF CreateApplication, Place, Told
  <2> QED
    BY <2>1, <2>2, <2>3
<1>4. CASE FinishCreate(r)
  <2>1. Place(r)'
    BY <1>4 DEF FinishCreate, Place
  <2>2. Sent(r)'
    BY <1>4 DEF FinishCreate, Place, Sent, KeysOf
  <2>3. Told(r)'
    BY <1>4 DEF FinishCreate, Place, Told
  <2> QED
    BY <2>1, <2>2, <2>3
<1>5. CASE ListApplications(r)
  <2>1. Place(r)'
    BY <1>5 DEF ListApplications, Place
  <2>2. \A c \in found'[r] : request[r].key \in KeysOf[c]
    BY <1>5, Matches DEF ListApplications
  <2>3. Sent(r)'
    BY <1>5, <2>2 DEF ListApplications, Place, Sent, KeysOf
  <2>4. Told(r)'
    BY <1>5 DEF ListApplications, Place, Told
  <2> QED
    BY <2>1, <2>3, <2>4
<1>6. CASE TakeFirst(r)
  <2>1. Place(r)'
    BY <1>6 DEF TakeFirst, Place
  <2>2. Sent(r)'
    <3>1. CASE found[r] = {} /\ UNCHANGED <<found, wire>>
      BY <1>6, <3>1 DEF TakeFirst, Place, Sent, KeysOf
    <3>2. ASSUME NEW c \in found[r], found' = [found EXCEPT ![r] = {c}], pc'[r] = "deactivating",
                 wire'[r] = "deactivate"
          PROVE  Sent(r)'
      <4>1. found'[r] = {c} /\ request[r].key \in KeysOf[c] /\ request[r].key # NoKey
        BY <3>2 DEF Sent, KeysOf
      <4>2. Deletes(r) /\ UNCHANGED <<request, witnessed>>
        BY <1>6 DEF TakeFirst, Place
      <4> QED
        BY <3>2, <4>1, <4>2 DEF Sent, KeysOf
    <3> QED
      BY <1>6, <3>1, <3>2 DEF TakeFirst
  <2>3. Told(r)'
    BY <1>6 DEF TakeFirst, Place, Told
  <2> QED
    BY <2>1, <2>2, <2>3
<1>7. CASE DeactivationEnds(r)
  <2>1. Place(r)'
    BY <1>7 DEF DeactivationEnds, Place
  <2>2. Sent(r)'
    BY <1>7 DEF DeactivationEnds, Place, Sent, KeysOf
  <2>3. Told(r)'
    BY <1>7 DEF DeactivationEnds, Place, Told
  <2> QED
    BY <2>1, <2>2, <2>3
<1>8. CASE FinishDelete(r)
  <2>1. Place(r)'
    BY <1>8 DEF FinishDelete, Place
  <2>2. Sent(r)'
    BY <1>8 DEF FinishDelete, Place, Sent, KeysOf
  <2>3. Told(r)'
    BY <1>8 DEF FinishDelete, Place, Told
  <2> QED
    BY <2>1, <2>2, <2>3
<1>9. CASE OrgCreate(r)
  <2>1. Place(r)'
    BY <1>9 DEF OrgCreate, Place, Sent
  <2>2. Sent(r)'
    BY <1>9 DEF OrgCreate, Place, Sent, KeysOf
  <2>3. Told(r)'
    BY <1>9 DEF OrgCreate, Place, Sent, Told
  <2> QED
    BY <2>1, <2>2, <2>3
<1>10. CASE OrgDeactivate(r)
  <2>1. Place(r)'
    BY <1>10 DEF OrgDeactivate, Place, Sent
  <2>2. Sent(r)'
    BY <1>10 DEF OrgDeactivate, Place, Sent, KeysOf
  <2>3. Told(r)'
    BY <1>10 DEF OrgDeactivate, Place, Sent, Told
  <2> QED
    BY <2>1, <2>2, <2>3
<1>11. CASE OrgDelete(r)
  <2>1. Place(r)'
    BY <1>11 DEF OrgDelete, Place, Sent
  <2>2. Sent(r)'
    BY <1>11 DEF OrgDelete, Place, Sent, KeysOf
  <2>3. Told(r)'
    BY <1>11 DEF OrgDelete, Place, Sent, Told
  <2> QED
    BY <2>1, <2>2, <2>3
<1> QED
  BY <1>1, <1>2, <1>3, <1>4, <1>5, <1>6, <1>7, <1>8, <1>9, <1>10, <1>11 DEF Step, Handle, CarryOut

LEMMA KnownStays ==
  ASSUME TypeOK, NEW r \in Requests, Local(r), Step(r), NEW c, Known(c)
  PROVE  Known(c)'
<1> USE DEF Known, Creates
<1>1. CASE c.uid \notin Requests
  BY <1>1
<1>2. CASE c.uid \in Requests /\ c.uid # r
  BY <1>2, OneMoves DEF Unmoved
<1>3. CASE c.uid = r
  <2>1. Creates(r) /\ effect[r] # {} /\ wire[r] = "done" /\ pc[r] # "idle"
    BY <1>3 DEF Local, Told, Place, NoRequest
  <2>2. request'[r] = request[r] /\ effect'[r] = effect[r]
    BY <2>1 DEF Step, Handle, CarryOut, Receive, RefuseCreate, CreateApplication, FinishCreate,
                RefuseDelete, ListApplications, TakeFirst, DeactivationEnds, FinishDelete,
                CallFails, Disconnect, OrgCreate, OrgDeactivate, OrgDelete
  <2> QED
    BY <1>3, <2>1, <2>2
<1> QED
  BY <1>1, <1>2, <1>3

\* What a request settled on, it keeps.
LEMMA OwedStays ==
  ASSUME TypeOK, NEW r \in Requests, Local(r), Local(r)', Step(r),
         NEW s \in Requests, NEW c, Deletes(s), found[s] = {c}, wire[s] # "none"
  PROVE  Deletes(s)' /\ found'[s] = {c} /\ wire'[s] # "none"
<1>1. CASE s # r
  BY <1>1, OneMoves DEF Unmoved, Deletes
<1>2. CASE s = r
  <2>1. pc[r] \notin {"idle", "create", "delete", "listed"}
    BY <1>2 DEF Local, Place
  <2>2. request'[r] = request[r] /\ found'[r] = found[r]
    BY <2>1 DEF Step, Handle, CarryOut, Receive, RefuseCreate, CreateApplication, FinishCreate,
                RefuseDelete, ListApplications, TakeFirst, DeactivationEnds, FinishDelete,
                CallFails, Disconnect, OrgCreate, OrgDeactivate, OrgDelete
  <2>3. wire'[r] # "none"
    BY <1>2, <2>1 DEF TypeOK, Wire, Step, Handle, CarryOut, Receive, RefuseCreate, CreateApplication,
                FinishCreate, RefuseDelete, ListApplications, TakeFirst, DeactivationEnds,
                FinishDelete, CallFails, Disconnect, OrgCreate, OrgDeactivate, OrgDelete
  <2> QED
    BY <1>2, <2>2, <2>3 DEF Deletes
<1> QED
  BY <1>1, <1>2

LEMMA KnownStep ==
  ASSUME TypeOK, AllKnown, NEW r \in Requests, Local(r), Step(r)
  PROVE  AllKnown'
<1>1. \A c : Known(c) => Known(c)'
  BY KnownStays
<1>2. ASSUME NEW s \in Requests, s # r, NEW c \in found'[s] \cup witnessed'[s] PROVE Known(c)'
  BY <1>1, <1>2, OneMoves DEF Unmoved, AllKnown
<1>3. ASSUME NEW c \in found'[r] \cup witnessed'[r] PROVE Known(c)
  <2> USE DEF TypeOK, Goto, Reply, Wire
  <2>1. ASSUME NEW q \in Request, Receive(r, q) PROVE Known(c)
    BY <1>3, <2>1 DEF Receive, Matching, AllKnown
  <2>2. CASE ListApplications(r)
    <3>1. c \in org \cup witnessed[r]
      BY <1>3, <2>2 DEF ListApplications, Pages, Matching
    <3> QED
      BY <3>1 DEF AllKnown
  <2>3. CASE TakeFirst(r)
    BY <1>3, <2>3 DEF TakeFirst, AllKnown
  <2>4. CASE RefuseCreate(r) \/ CreateApplication(r) \/ FinishCreate(r) \/ RefuseDelete(r)
    BY <1>3, <2>4 DEF RefuseCreate, CreateApplication, FinishCreate, RefuseDelete, AllKnown
  <2>5. CASE DeactivationEnds(r) \/ FinishDelete(r) \/ CallFails(r) \/ Disconnect(r) \/ CarryOut(r)
    BY <1>3, <2>5 DEF DeactivationEnds, FinishDelete, CallFails, Disconnect, CarryOut,
                      OrgCreate, OrgDeactivate, OrgDelete, AllKnown
  <2> QED
    BY <2>1, <2>2, <2>3, <2>4, <2>5 DEF Step, Handle
<1>4. ASSUME NEW c \in org' PROVE Known(c)'
  <2>1. CASE c \in org
    BY <1>1, <2>1 DEF AllKnown
  <2>2. CASE c \notin org
    <3>1. OrgCreate(r)
      BY <1>4, <2>2 DEF Step, Handle, CarryOut, Receive, RefuseCreate, CreateApplication,
                FinishCreate, RefuseDelete, ListApplications, TakeFirst, DeactivationEnds,
                FinishDelete, CallFails, Disconnect, OrgDeactivate, OrgDelete
    <3>2. c.uid = r /\ effect'[r] # {}
      BY <1>4, <2>2, <3>1 DEF OrgCreate, TypeOK
    <3>3. Creates(r)'
      BY <3>1 DEF OrgCreate, Local, Sent, Creates
    <3> QED
      BY <3>2, <3>3 DEF Known, Creates
  <2> QED
    BY <2>1, <2>2
<1> QED
  BY <1>1, <1>2, <1>3, <1>4 DEF AllKnown

LEMMA OwedStep ==
  ASSUME TypeOK, Owed, NEW r \in Requests, Local(r), Local(r)', Step(r)
  PROVE  Owed'
<1> SUFFICES ASSUME NEW c \in inactive'
             PROVE  \E s \in Requests : Deletes(s)' /\ found'[s] = {c} /\ wire'[s] # "none"
  BY DEF Owed
<1>1. CASE c \in inactive
  <2>1. PICK s \in Requests : Deletes(s) /\ found[s] = {c} /\ wire[s] # "none"
    BY <1>1 DEF Owed
  <2> QED
    BY <2>1, OwedStays
<1>2. CASE c \notin inactive
  <2>1. OrgDeactivate(r) /\ c \in found[r]
    BY <1>2 DEF Step, Handle, CarryOut, Receive, RefuseCreate, CreateApplication,
                FinishCreate, RefuseDelete, ListApplications, TakeFirst, DeactivationEnds,
                FinishDelete, CallFails, Disconnect, OrgCreate, OrgDeactivate, OrgDelete
  <2>2. Deletes(r) /\ found[r] = {c} /\ wire[r] # "none"
    BY <2>1 DEF OrgDeactivate, Local, Sent
  <2> QED
    BY <2>2, OwedStays
<1> QED
  BY <1>1, <1>2

\* What is gone does not come back, and what is deactivated is not activated.
LEMMA OrgForward ==
  ASSUME TypeOK, NEW r \in Requests, Local(r), Step(r), NEW c, Known(c)
  PROVE  (c \notin org => c \notin org') /\ (c \in inactive => c \in inactive' \/ c \notin org')
<1>1. CASE OrgCreate(r)
  <2>1. effect[r] = {} /\ c.uid # r
    BY <1>1 DEF OrgCreate, Local, Told, Known
  <2> QED
    BY <1>1, <2>1 DEF OrgCreate
<1>2. CASE OrgDeactivate(r) \/ OrgDelete(r)
  BY <1>2 DEF OrgDeactivate, OrgDelete
<1>3. CASE ~CarryOut(r)
  <2>1. UNCHANGED <<org, inactive>>
    BY <1>3 DEF Step, Handle, Receive, RefuseCreate, CreateApplication, FinishCreate, RefuseDelete,
                ListApplications, TakeFirst, DeactivationEnds, FinishDelete, CallFails, Disconnect
  <2> QED
    BY <2>1
<1> QED
  BY <1>1, <1>2, <1>3 DEF CarryOut

LEMMA OrgSame ==
  ASSUME TypeOK, AllKnown, NEW r \in Requests, Local(r), Step(r),
         NEW s \in Requests, Local(s), Org(s),
         request'[s] = request[s], pc'[s] = pc[s], found'[s] = found[s],
         wire'[s] = wire[s], effect'[s] = effect[s]
  PROVE  Org(s)'
<1>1. \A c \in found[s] :
        (c \notin org => c \notin org') /\ (c \in inactive => c \in inactive' \/ c \notin org')
  BY OrgForward DEF AllKnown
<1>2. ASSUME wire[s] = "delete" \/ (pc[s] = "deactivating" /\ wire[s] = "done")
      PROVE  found[s] \subseteq inactive' \/ found[s] \cap org' = {}
  <2>1. PICK c \in found[s] : found[s] = {c}
    BY <1>2 DEF Local, Place, Sent
  <2>2. {c} \subseteq inactive \/ {c} \cap org = {}
    BY <1>2, <2>1 DEF Org
  <2>3. c \in inactive' \/ c \notin org'
    BY <1>1, <2>1, <2>2
  <2> QED
    BY <2>1, <2>3
<1>3. wire[s] = "refused" => found[s] \cap org' = {}
  BY <1>1 DEF Org
<1>4. Deletes(s) => effect[s] \cap org' = {}
  BY <1>1 DEF Org, Local, Told
<1> QED
  BY <1>2, <1>3, <1>4 DEF Org, Deletes

LEMMA OrgMoves ==
  ASSUME TypeOK, AllKnown, NEW r \in Requests, Local(r), Local(r)', Org(r), Step(r)
  PROVE  Org(r)'
<1> USE DEF TypeOK, Goto, Reply, Wire
<1>1. CASE pc'[r] \in {"idle", "create", "delete", "listed", "creating"}
  BY <1>1 DEF Local, Place, Sent, Told, Org, Creates, Deletes
<1>2. CASE TakeFirst(r)
  <2>1. effect'[r] = {} /\ wire'[r] \in {"none", "deactivate"}
    BY <1>2 DEF TakeFirst, Local, Place, Told
  <2> QED
    BY <2>1 DEF Org
<1>3. CASE DeactivationEnds(r)
  <2>1. /\ UNCHANGED <<org, inactive, found, effect>> /\ effect[r] = {}
        /\ \/ wire[r] = "done" /\ pc[r] = "deactivating" /\ wire'[r] = "delete"
           \/ wire[r] = "refused" /\ wire'[r] = "refused" /\ pc'[r] = "over"
    BY <1>3 DEF DeactivationEnds, Local, Told
  <2> QED
    BY <2>1 DEF Org
<1>4. CASE RefuseCreate(r) \/ RefuseDelete(r) \/ FinishCreate(r) \/ FinishDelete(r)
           \/ CallFails(r) \/ Disconnect(r)
  <2>1. UNCHANGED <<org, inactive, request, found, wire, effect>> /\ pc'[r] = "over"
    BY <1>4 DEF RefuseCreate, RefuseDelete, FinishCreate, FinishDelete, CallFails, Disconnect
  <2> QED
    BY <2>1 DEF Org, Deletes
<1>5. CASE OrgCreate(r)
  <2>1. wire'[r] = "done" /\ ~Deletes(r)' /\ pc'[r] # "deactivating"
    BY <1>5 DEF OrgCreate, Local, Place, Sent, Creates, Deletes
  <2> QED
    BY <2>1 DEF Org
<1>6. CASE OrgDeactivate(r)
  <2>1. PICK c \in found[r] : found[r] = {c}
    BY <1>6 DEF OrgDeactivate, Local, Sent
  <2>2. effect[r] = {} /\ UNCHANGED <<org, found, effect>>
    BY <1>6 DEF OrgDeactivate, Local, Told
  <2>3. CASE c \in org
    BY <1>6, <2>1, <2>2, <2>3 DEF OrgDeactivate, Org
  <2>4. CASE c \notin org
    BY <1>6, <2>1, <2>2, <2>4 DEF OrgDeactivate, Org
  <2> QED
    BY <2>3, <2>4
<1>7. CASE OrgDelete(r)
  <2>1. CASE found[r] \subseteq inactive
    BY <1>7, <2>1 DEF OrgDelete, Org
  <2>2. CASE ~(found[r] \subseteq inactive)
    <3>1. found[r] \cap org = {}
      BY <1>7, <2>2 DEF OrgDelete, Org
    <3>2. effect[r] = {} /\ UNCHANGED <<org, inactive, found, effect>> /\ wire'[r] = "refused"
      BY <1>7, <2>2 DEF OrgDelete, Local, Told
    <3> QED
      BY <3>1, <3>2 DEF Org
  <2> QED
    BY <2>1, <2>2
<1>8. ASSUME NEW q \in Request, Receive(r, q) PROVE Org(r)'
  <2>1. pc'[r] \in {"create", "delete"}
    BY <1>8 DEF Receive, Request
  <2> QED
    BY <1>1, <2>1
<1>9. CASE CreateApplication(r) \/ ListApplications(r)
  BY <1>1, <1>9 DEF CreateApplication, ListApplications
<1> QED
  BY <1>2, <1>3, <1>4, <1>5, <1>6, <1>7, <1>8, <1>9 DEF Step, Handle, CarryOut

LEMMA ConnectorStep == TypeOK /\ ConnectorInv /\ [Next]_vars => ConnectorInv'
<1> SUFFICES ASSUME TypeOK, ConnectorInv, [Next]_vars PROVE ConnectorInv'
  OBVIOUS
<1>1. CASE UNCHANGED vars
  BY <1>1 DEF vars, ConnectorInv, Local, Place, Sent, Told, Org, AllKnown, Known, Owed, Creates, Deletes
<1>2. ASSUME NEW r \in Requests, Step(r) PROVE ConnectorInv'
  <2>1. Local(r) /\ Local(r)'
    BY <1>2, LocalMoves DEF ConnectorInv
  <2>2. \A s \in Requests : Local(s)'
    BY <1>2, <2>1, OneMoves, LocalSame DEF ConnectorInv
  <2>3. AllKnown' /\ Owed'
    BY <1>2, <2>1, KnownStep, OwedStep DEF ConnectorInv
  <2>4. ASSUME NEW s \in Requests PROVE Org(s)'
    <3>1. CASE s = r
      BY <1>2, <2>1, <3>1, OrgMoves DEF ConnectorInv
    <3>2. CASE s # r
      <4>1. Unmoved(s)
        BY <1>2, <3>2, OneMoves
      <4> QED
        BY <1>2, <2>1, <4>1, OrgSame DEF ConnectorInv, Unmoved
    <3> QED
      BY <3>1, <3>2
  <2> QED
    BY <2>2, <2>3, <2>4 DEF ConnectorInv
<1> QED
  BY <1>1, <1>2 DEF Next, Step

------------------------------------------------------------------------------
Inv == TypeOK /\ ConnectorInv

LEMMA Initially == Init => Inv
<1> SUFFICES ASSUME Init PROVE Inv
  OBVIOUS
<1> USE DEF Init
<1>1. TypeOK
  BY OktaAssumption DEF TypeOK, Clients
<1>2. \A r \in Requests : Local(r) /\ Org(r)
  BY DEF Local, Place, Sent, Told, Org, Creates, Deletes, NoRequest
<1>3. AllKnown /\ Owed
  BY OktaAssumption DEF AllKnown, Known, Owed
<1> QED
  BY <1>1, <1>2, <1>3 DEF Inv, ConnectorInv

LEMMA Invariant == Spec => []Inv
<1>1. Inv /\ [Next]_vars => Inv'
  BY TypeStep, ConnectorStep DEF Inv, ConnectorInv, Local
<1> QED
  BY Initially, <1>1, PTL DEF Spec

(* Every variable keeps its type. *)
THEOREM TypeCorrect == Spec => []TypeOK
<1>1. Inv => TypeOK
  BY DEF Inv
<1> QED
  BY Invariant, <1>1, PTL

(* Okta refuses a step of a delete only when the application is gone: no     *)
(* interleaving of deletes activates it again or deletes it active.          *)
THEOREM RefusalsAreLate == Spec => []RefusedOnlyIfGone
<1>1. Inv => RefusedOnlyIfGone
  BY DEF Inv, ConnectorInv, Org, RefusedOnlyIfGone
<1> QED
  BY Invariant, <1>1, PTL

(* Every application that is left deactivated is one that some delete has    *)
(* taken, and that delete was not answered 204 or 404.                       *)
THEOREM InactiveAreOwed == Spec => []InactiveIsOwed
<1>1. ASSUME Inv, NEW c \in inactive
      PROVE  \E r \in Requests : /\ request[r].kind = "delete" /\ found[r] = {c}
                                 /\ answer[r] \in {"none", "500", "dropped"}
  <2>1. PICK r \in Requests : Deletes(r) /\ found[r] = {c} /\ wire[r] # "none"
    BY <1>1 DEF Inv, ConnectorInv, Owed
  <2>2. c \in org /\ Local(r) /\ Org(r)
    BY <1>1 DEF Inv, ConnectorInv, TypeOK
  <2>3. answer[r] \notin {"201", "204", "400", "404"}
    BY <2>1, <2>2 DEF Local, Told, Org, Creates, Deletes
  <2> QED
    BY <1>1, <2>1, <2>3 DEF Inv, TypeOK, Deletes
<1>2. Inv => InactiveIsOwed
  BY <1>1 DEF InactiveIsOwed
<1> QED
  BY Invariant, <1>2, PTL

------------------------------------------------------------------------------
(* The refinement, as long as the applications fit in one response.  The     *)
(* assumptions of ClientRegistry hold of what replaces its constants.        *)
OnePage == Cardinality(org) <= PageSize

LEMMA PromiseAssumption ==
  /\ [c \in Clients |-> c.label] \in [Clients -> Keys \ {NoKey}]
  /\ KeysOf \in [Clients -> SUBSET (Keys \ {NoKey})]
  /\ NoKey \in Keys /\ Preexisting \subseteq Clients
  BY OktaAssumption DEF Clients, KeysOf

\* A delete that has listed the applications and found none was without a
\* match at that moment, as every pending delete that is now.
Recorded(r) ==
  /\ Unmatched(r) => r \in absent
  /\ pc[r] = "listed" /\ found[r] = {} => r \in absent
  /\ answer[r] = "404" => r \in absent

LEMMA Observes ==
  ASSUME TypeOK, NEW r \in Requests, Local(r), Step(r)
  PROVE  \/ Observe
         \/ /\ UNCHANGED <<request, absent>> /\ org \subseteq org'
            /\ \A s \in Requests : answer'[s] = "none" => answer[s] = "none"
<1> USE DEF TypeOK, Goto, Reply, Wire
<1>1. ASSUME NEW q \in Request, Receive(r, q) PROVE Observe
  BY <1>1 DEF Receive
<1>2. CASE Handle(r) \/ CallFails(r) \/ Disconnect(r)
  <2>1. UNCHANGED <<request, absent, org>>
    BY <1>2 DEF Handle, RefuseCreate, CreateApplication, FinishCreate, RefuseDelete, TakeFirst,
       ListApplications, DeactivationEnds, FinishDelete, CallFails, Disconnect
  <2>2. UNCHANGED answer \/ \E code \in {"201", "204", "400", "404", "500", "dropped"} : Reply(r, code)
    BY <1>2 DEF Handle, RefuseCreate, CreateApplication, FinishCreate, RefuseDelete, TakeFirst,
       ListApplications, DeactivationEnds, FinishDelete, CallFails, Disconnect
  <2> QED
    BY <2>1, <2>2
<1>3. CASE CarryOut(r)
  BY <1>3 DEF CarryOut, OrgCreate, OrgDeactivate, OrgDelete
<1> QED
  BY <1>1, <1>2, <1>3 DEF Step

LEMMA RecordedStep ==
  ASSUME OnePage, Inv, NEW r \in Requests, Step(r), NEW s \in Requests, Recorded(s)
  PROVE  Recorded(s)'
<1>1. TypeOK /\ Local(s) /\ Local(r)
  BY DEF Inv, ConnectorInv
<1>2. absent \subseteq absent' /\ (Unmatched(s)' => s \in absent')
  BY <1>1, Observes DEF Observe, Recorded, Unmatched, Matching
<1>3. CASE s # r
  BY <1>1, <1>2, <1>3, OneMoves DEF Unmoved, Recorded
<1>4. CASE s = r
  <2> USE DEF TypeOK, Goto, Reply, Wire
  <2>1. ASSUME NEW q \in Request, Receive(r, q) PROVE Recorded(r)'
    BY <1>1, <1>2, <1>4, <2>1 DEF Receive, Request, Recorded, Local, Place
  <2>2. CASE ListApplications(r)
    <3>1. Pages = {org}
      BY <1>1 DEF OnePage, Pages
    <3>2. found'[r] = Matching(org, request[r].key) /\ UNCHANGED answer
      BY <1>1, <2>2, <3>1 DEF ListApplications
    <3>3. answer[r] = "none" /\ Deletes(r)
      BY <1>1, <1>4, <2>2 DEF ListApplications, Local, Place
    <3> QED
      BY <1>2, <1>4, <3>2, <3>3 DEF Recorded, Unmatched, Deletes
  <2>3. CASE TakeFirst(r)
    BY <1>1, <1>2, <1>4, <2>3 DEF TakeFirst, Recorded
  <2>4. CASE RefuseCreate(r) \/ CreateApplication(r) \/ FinishCreate(r) \/ RefuseDelete(r)
             \/ DeactivationEnds(r) \/ FinishDelete(r) \/ CallFails(r) \/ Disconnect(r)
    <3>1. pc'[r] # "listed" /\ (answer'[r] = "404" => answer[r] = "404")
      BY <1>1, <2>4
         DEF RefuseCreate, CreateApplication, FinishCreate, RefuseDelete, DeactivationEnds,
             FinishDelete, CallFails, Disconnect
    <3> QED
      BY <1>2, <1>4, <3>1 DEF Recorded
  <2>5. CASE CarryOut(r)
    <3>1. UNCHANGED <<pc, found, answer>>
      BY <2>5 DEF CarryOut, OrgCreate, OrgDeactivate, OrgDelete
    <3> QED
      BY <1>2, <1>4, <3>1 DEF Recorded
  <2> QED
    BY <1>4, <2>1, <2>2, <2>3, <2>4, <2>5 DEF Step, Handle
<1> QED
  BY <1>3, <1>4

LEMMA PageInvariant == Spec /\ []OnePage => [](Inv /\ \A r \in Requests : Recorded(r))
<1>1. Init => \A r \in Requests : Recorded(r)
  BY DEF Init, Recorded, Unmatched, NoRequest
<1>2. Inv /\ OnePage /\ (\A r \in Requests : Recorded(r)) /\ [Next]_vars
        => (\A r \in Requests : Recorded(r))'
  <2> SUFFICES ASSUME Inv, OnePage, \A s \in Requests : Recorded(s), [Next]_vars, NEW s \in Requests
               PROVE  Recorded(s)'
    OBVIOUS
  <2>1. CASE UNCHANGED vars
    BY <2>1 DEF vars, Recorded, Unmatched, Matching
  <2>2. ASSUME NEW r \in Requests, Step(r) PROVE Recorded(s)'
    BY <2>2, RecordedStep
  <2> QED
    BY <2>1, <2>2 DEF Next, Step
<1> QED
  BY <1>1, <1>2, Invariant, PTL DEF Spec

LEMMA SelectedMatching ==
  ASSUME TypeOK, NEW key
  PROVE  Registry!Selected(key) = Matching(org, key)
  BY DEF TypeOK, Registry!Selected, Matching

LEMMA ObservesSame ==
  ASSUME TypeOK', Observe
  PROVE  Registry!Observe
  BY DEF TypeOK, Observe, Unmatched, Matching,
     Registry!Observe, Registry!Unmatched, Registry!Asks, Registry!Selected

\* A delete whose listing holds no match is answered 404.
NotFound(r) ==
  /\ pc[r] = "listed" /\ found[r] = {}
  /\ Registry!Pending(r) /\ Registry!Asks(r, "delete") /\ effect[r] = {}
  /\ answer' = [answer EXCEPT ![r] = "404"]
  /\ UNCHANGED <<org, request, witnessed, effect, absent>>

LEMMA PromiseStep ==
  Inv /\ Inv' /\ [Next]_vars => [Registry!Next \/ \E r \in Requests : NotFound(r)]_Registry!vars
<1> SUFFICES ASSUME Inv, Inv', [Next]_vars
             PROVE  Registry!Next \/ (\E r \in Requests : NotFound(r)) \/ UNCHANGED Registry!vars
  OBVIOUS
<1> USE DEF Goto, Reply, Wire
<1>0. TypeOK /\ TypeOK' /\ ConnectorInv /\ \A r \in Requests : Local(r) /\ Org(r)
  BY DEF Inv, ConnectorInv
<1>1. CASE UNCHANGED vars
  BY <1>1 DEF vars, Registry!vars
<1>2. ASSUME NEW r \in Requests, NEW code \in Registry!Codes, pc[r] \notin {"idle", "over"},
             Registry!Vouched(r, code), Reply(r, code),
             UNCHANGED <<org, request, witnessed, effect, absent>>
      PROVE  Registry!Next
  <2>1. Registry!Pending(r)
    BY <1>0, <1>2 DEF Local, Place, Registry!Pending, Registry!NoRequest, NoRequest
  <2>2. Registry!Answer(r, code)
    BY <1>2, <2>1 DEF Registry!Answer
  <2> QED
    BY <2>2 DEF Registry!Next
<1>3. ASSUME NEW r \in Requests, NEW q \in Request, Receive(r, q) PROVE Registry!Next
  <2>1. Registry!Receive(r, q)
    BY <1>0, <1>3, SelectedMatching, ObservesSame
       DEF Receive, Local, Place, Registry!Receive, Registry!NoRequest, NoRequest
  <2> QED
    BY <2>1 DEF Registry!Next, Registry!Request, Request
<1>4. ASSUME NEW r \in Requests, RefuseCreate(r) PROVE Registry!Next
  <2>1. Registry!Vouched(r, "400")
    BY <1>0, <1>4 DEF RefuseCreate, Local, Place, Told, Creates, Registry!Vouched, Registry!Asks
  <2> QED
    BY <1>2, <1>4, <2>1 DEF RefuseCreate, Registry!Codes
<1>5. ASSUME NEW r \in Requests, CreateApplication(r) \/ ListApplications(r)
      PROVE  UNCHANGED Registry!vars
  BY <1>5 DEF CreateApplication, ListApplications, Registry!vars
<1>6. ASSUME NEW r \in Requests, FinishCreate(r) PROVE Registry!Next
  <2>1. Registry!Vouched(r, "201")
    BY <1>0, <1>6 DEF FinishCreate, Local, Place, Told, Creates, Registry!Vouched, Registry!Asks
  <2> QED
    BY <1>2, <1>6, <2>1 DEF FinishCreate, Registry!Codes
<1>7. ASSUME NEW r \in Requests, RefuseDelete(r) \/ CallFails(r) PROVE Registry!Next
  BY <1>2, <1>7 DEF RefuseDelete, CallFails, Waiting, Registry!Codes, Registry!Vouched
<1>8. ASSUME NEW r \in Requests, TakeFirst(r) PROVE NotFound(r) \/ UNCHANGED Registry!vars
  <2>1. CASE found[r] = {} /\ Reply(r, "404")
    <3>1. Registry!Pending(r) /\ Registry!Asks(r, "delete") /\ effect[r] = {}
      BY <1>0, <1>8, <2>1
         DEF TakeFirst, Local, Place, Told, Deletes, NoRequest, Registry!NoRequest,
             Registry!Pending, Registry!Asks
    <3> QED
      BY <1>8, <2>1, <3>1 DEF TakeFirst, NotFound
  <2>2. CASE UNCHANGED answer
    BY <1>8, <2>2 DEF TakeFirst, Registry!vars
  <2> QED
    BY <1>8, <2>1, <2>2 DEF TakeFirst
<1>9. ASSUME NEW r \in Requests, DeactivationEnds(r) PROVE Registry!Next \/ UNCHANGED Registry!vars
  <2>1. CASE Reply(r, "500")
    BY <1>2, <1>9, <2>1 DEF DeactivationEnds, Registry!Codes, Registry!Vouched
  <2>2. CASE UNCHANGED answer
    BY <1>9, <2>2 DEF DeactivationEnds, Registry!vars
  <2> QED
    BY <1>9, <2>1, <2>2 DEF DeactivationEnds
<1>10. ASSUME NEW r \in Requests, FinishDelete(r) PROVE Registry!Next
  <2>1. wire[r] = "done" => Registry!Vouched(r, "204")
    BY <1>0, <1>10
       DEF FinishDelete, Local, Place, Sent, Told, Deletes, Registry!Vouched, Registry!Asks
  <2>2. Registry!Vouched(r, "500")
    BY DEF Registry!Vouched
  <2> QED
    BY <1>2, <1>10, <2>1, <2>2 DEF FinishDelete, Registry!Codes
<1>11. ASSUME NEW r \in Requests, Disconnect(r) PROVE Registry!Next
  <2> DEFINE lost == {r}
  <2>1. Registry!Pending(r)
    BY <1>0, <1>11 DEF Disconnect, Active, Local, Place, Registry!Pending, Registry!NoRequest, NoRequest
  <2>2. answer' = [s \in Requests |-> IF s \in lost THEN "dropped" ELSE answer[s]]
    BY <1>0, <1>11 DEF Disconnect, TypeOK
  <2>3. Registry!Drop(lost)
    BY <1>11, <2>1, <2>2 DEF Disconnect, Registry!Drop
  <2> QED
    BY <2>3 DEF Registry!Next
<1>12. ASSUME NEW r \in Requests, wire[r] \in {"create", "delete"} PROVE Registry!Open(r)
  <2>1. effect[r] = {} /\ answer[r] \notin {"201", "204", "400", "404"}
    BY <1>0, <1>12 DEF Local, Told
  <2> QED
    BY <1>0, <2>1 DEF TypeOK, Registry!Open
<1>13. ASSUME NEW r \in Requests, OrgCreate(r) PROVE Registry!Next
  <2>1. PICK new : new = [uid |-> r, label |-> request[r].key]
    OBVIOUS
  <2>2. new \in Clients
    BY <1>0, <1>13, <2>1, OktaAssumption
       DEF OrgCreate, Local, Sent, TypeOK, Request, NoRequest, Clients
  <2>3. new \notin Preexisting \cup Registry!Created
    <3>1. new \notin Preexisting
      BY <2>1, OktaAssumption
    <3>2. ASSUME NEW s \in Requests, request[s].kind = "create" PROVE new \notin effect[s]
      BY <1>0, <1>13, <2>1, <3>2 DEF OrgCreate, Local, Told, Creates
    <3> QED
      BY <3>1, <3>2 DEF Registry!Created, Registry!Asks
  <2>4. Registry!Register(r, new)
    BY <1>0, <1>12, <1>13, <2>1, <2>2, <2>3
       DEF OrgCreate, Local, Sent, Creates, Registry!Register, Registry!Asks
  <2> QED
    BY <2>2, <2>4 DEF Registry!Next
<1>14. ASSUME NEW r \in Requests, OrgDeactivate(r) PROVE UNCHANGED Registry!vars
  BY <1>14 DEF OrgDeactivate, Registry!vars
<1>15. ASSUME NEW r \in Requests, OrgDelete(r) PROVE Registry!Next \/ UNCHANGED Registry!vars
  <2>1. CASE found[r] \subseteq inactive
    <3>1. PICK c \in found[r] : found[r] = {c}
      BY <1>0, <1>15 DEF OrgDelete, Local, Sent
    <3>2. c \in org /\ c \in Clients /\ c \in Matching(org, request[r].key)
      BY <1>0, <2>1, <3>1 DEF TypeOK, Local, Sent, Matching
    <3>3. Registry!Remove(r, c)
      BY <1>0, <1>12, <1>15, <2>1, <3>1, <3>2, SelectedMatching, ObservesSame
         DEF OrgDelete, Local, Sent, Deletes, Registry!Remove, Registry!Asks
    <3> QED
      BY <3>2, <3>3 DEF Registry!Next
  <2>2. CASE ~(found[r] \subseteq inactive)
    BY <1>15, <2>2 DEF OrgDelete, Registry!vars
  <2> QED
    BY <2>1, <2>2
<1> QED
  BY <1>1, <1>3, <1>4, <1>5, <1>6, <1>7, <1>8, <1>9, <1>10, <1>11, <1>13, <1>14, <1>15
     DEF Next, Handle, CarryOut

LEMMA PromiseStart == Init => Registry!Init
  BY DEF Init, Registry!Init, Registry!NoRequest, NoRequest

(* However many applications there are: every step is a step of              *)
(* ClientRegistry, none of it, or the 404 of a delete that has no effect.    *)
(* All that the first page costs is the truth of that answer.                *)
THEOREM KeepsPromiseButFor404 ==
  Spec => Registry!Init /\ [][Registry!Next \/ \E r \in Requests : NotFound(r)]_Registry!vars
  BY PromiseStart, PromiseStep, Invariant, PTL DEF Spec

(* In every run in which one response of ListApplications always holds all   *)
(* applications, the Okta connector keeps the promise of the API: each of    *)
(* its steps is a step of ClientRegistry or none of it.                      *)
THEOREM KeepsPromise == Spec /\ []OnePage => Promise
<1>1. (\A r \in Requests : Recorded(r)) /\ (\E r \in Requests : NotFound(r)) => Registry!Next
  <2> SUFFICES ASSUME NEW r \in Requests, Recorded(r), NotFound(r) PROVE Registry!Next
    OBVIOUS
  <2>1. Registry!Answer(r, "404") /\ "404" \in Registry!Codes
    BY DEF Recorded, NotFound, Registry!Answer, Registry!Vouched, Registry!Codes
  <2> QED
    BY <2>1 DEF Registry!Next
<1>2. Inv /\ Inv' /\ (\A r \in Requests : Recorded(r)) /\ [Next]_vars
        => [Registry!Next]_Registry!vars
  BY <1>1, PromiseStep
<1> QED
  BY <1>2, PromiseStart, PageInvariant, PTL DEF Spec, Promise, Registry!Spec
------------------------------------------------------------------------------
(* What is proved of ClientRegistry, for any clients, ids and requests, holds  *)
(* of the connector by its promise: the theorems are read with the clients     *)
(* and ids of the connector in place of the constants.                         *)
Abstract == INSTANCE ClientRegistryProofs WITH
  NameOf <- [c \in Clients |-> c.label],
  registry <- org

\* The module of the theorems states the same specification.
LEMMA SameSpec == Promise => Abstract!Spec
<1> USE DEF Registry!NoRequest, Abstract!NoRequest,
            Registry!Request, Abstract!Request, Registry!Codes, Abstract!Codes,
            Registry!Asks, Abstract!Asks, Registry!Created, Abstract!Created,
            Registry!Removed, Abstract!Removed, Registry!Selected, Abstract!Selected,
            Registry!Pending, Abstract!Pending,
            Registry!Unmatched, Abstract!Unmatched,
            Registry!Observe, Abstract!Observe, Registry!Open, Abstract!Open,
            Registry!Receive, Abstract!Receive, Registry!Register, Abstract!Register,
            Registry!Remove, Abstract!Remove, Registry!Vouched, Abstract!Vouched,
            Registry!Answer, Abstract!Answer, Registry!Drop, Abstract!Drop,
            Registry!Next, Abstract!Next, Registry!vars, Abstract!vars,
            Registry!Init, Abstract!Init
<1>1. Registry!Init = Abstract!Init
  OBVIOUS
<1>2. Registry!Next = Abstract!Next
  OBVIOUS
<1>3. Registry!vars = Abstract!vars
  OBVIOUS
<1>4. [Registry!Next]_Registry!vars => [Abstract!Next]_Abstract!vars
  OBVIOUS
<1> QED
  BY <1>1, <1>2, <1>3, <1>4, PTL DEF Promise, Registry!Spec, Abstract!Spec

(* In every run in which one response always lists every application: the    *)
(* organisation holds what it held at the start and what the creates of the  *)
(* connector added, less what its deletes removed; no two requests share an  *)
(* application; and its status codes stay true whatever other requests do    *)
(* later.                                                                    *)
THEOREM PromisedEffects ==
  Spec /\ []OnePage => [](/\ Registry!Accounted /\ Registry!LossesAskedFor
                          /\ Registry!EffectsDistinct /\ Registry!AnswersHold)
<1>1. Abstract!Spec => [](/\ Abstract!Accounted /\ Abstract!LossesAskedFor
                          /\ Abstract!EffectsDistinct /\ Abstract!AnswersHold)
  BY PromiseAssumption, Abstract!EveryClientAccounted, Abstract!NoLossUnasked,
     Abstract!NoSharedEffect, Abstract!AnswersStayTrue, PTL
<1>2. Abstract!Accounted => Registry!Accounted
  BY DEF Abstract!Accounted, Registry!Accounted, Abstract!Created, Registry!Created,
         Abstract!Removed, Registry!Removed, Abstract!Asks, Registry!Asks
<1>3. Abstract!EffectsDistinct => Registry!EffectsDistinct
  BY DEF Abstract!EffectsDistinct, Registry!EffectsDistinct
<1>4. Abstract!AnswersHold => Registry!AnswersHold
  BY DEF Abstract!AnswersHold, Registry!AnswersHold
<1>5. Abstract!LossesAskedFor => Registry!LossesAskedFor
  BY DEF Abstract!LossesAskedFor, Registry!LossesAskedFor, Abstract!Created, Registry!Created,
         Abstract!Asks, Registry!Asks
<1> QED
  BY KeepsPromise, SameSpec, <1>1, <1>2, <1>3, <1>4, <1>5, PTL

(* "Application not found", the opposite of what a second page makes of it:  *)
(* in every run in which one response always lists every application, a      *)
(* delete answered 404 leaves none of those its id matched.                  *)
THEOREM NotFoundOnOnePage == Spec /\ []OnePage => []NotFoundMeansAbsent
<1>1. Registry!AnswersHold => NotFoundMeansAbsent
  BY DEF Registry!AnswersHold, NotFoundMeansAbsent
<1> QED
  BY <1>1, PromisedEffects, PTL

------------------------------------------------------------------------------
(* However many applications there are, the connector keeps the promise of   *)
(* the API for a portal that learns no more from a 404 than from a 500.      *)
HedgedAnswer == [r \in Requests |-> IF answer[r] = "404" THEN "500" ELSE answer[r]]

Hedged == INSTANCE ClientRegistryProofs WITH
  NameOf <- [c \in Clients |-> c.label],
  registry <- org,
  answer <- HedgedAnswer

LEMMA HedgedObserves ==
  ASSUME Registry!Observe
  PROVE  Hedged!Observe
<1>1. \A r \in Requests : (HedgedAnswer[r] = "none")' <=> (answer[r] = "none")'
  BY DEF HedgedAnswer
<1> QED
  BY <1>1 DEF Registry!Observe, Registry!Unmatched, Registry!Asks, Registry!Selected,
     Hedged!Observe, Hedged!Unmatched, Hedged!Asks, Hedged!Selected

LEMMA HedgedStep ==
  TypeOK /\ TypeOK' /\ [Registry!Next \/ \E r \in Requests : NotFound(r)]_Registry!vars
    => [Hedged!Next]_Hedged!vars
<1> SUFFICES ASSUME TypeOK, TypeOK',
                    \/ Registry!Next \/ \E r \in Requests : NotFound(r)
                    \/ UNCHANGED Registry!vars
             PROVE  Hedged!Next \/ UNCHANGED Hedged!vars
  OBVIOUS
<1>1. CASE UNCHANGED Registry!vars
  BY <1>1 DEF Registry!vars, Hedged!vars, HedgedAnswer
<1>2. \A r \in Requests :
        /\ HedgedAnswer[r] = IF answer[r] = "404" THEN "500" ELSE answer[r]
        /\ HedgedAnswer'[r] = IF answer'[r] = "404" THEN "500" ELSE answer'[r]
  BY DEF HedgedAnswer
<1>3. ASSUME NEW r \in Requests, NEW q \in Registry!Request, Registry!Receive(r, q)
      PROVE  Hedged!Next
  <2>1. Hedged!Observe /\ HedgedAnswer' = HedgedAnswer
    BY <1>3, HedgedObserves DEF Registry!Receive, HedgedAnswer
  <2>2. Hedged!Receive(r, q)
    BY <1>3, <2>1 DEF Registry!Receive, Hedged!Receive, Registry!NoRequest, Hedged!NoRequest,
       Registry!Selected, Hedged!Selected
  <2> QED
    BY <2>2 DEF Hedged!Next, Hedged!Request, Registry!Request
<1>4. ASSUME NEW r \in Requests, NEW c \in Clients, Registry!Register(r, c) PROVE Hedged!Next
  <2>1. Hedged!Open(r) /\ HedgedAnswer' = HedgedAnswer
    BY <1>2, <1>4 DEF Registry!Register, Registry!Open, Hedged!Open, HedgedAnswer
  <2>2. Hedged!Register(r, c)
    BY <1>4, <2>1 DEF Registry!Register, Hedged!Register, Registry!Asks, Hedged!Asks,
       Registry!Created, Hedged!Created
  <2> QED
    BY <2>2 DEF Hedged!Next
<1>5. ASSUME NEW r \in Requests, NEW c \in Clients, Registry!Remove(r, c) PROVE Hedged!Next
  <2>1. Hedged!Open(r) /\ HedgedAnswer' = HedgedAnswer /\ Hedged!Observe
    BY <1>2, <1>5, HedgedObserves DEF Registry!Remove, Registry!Open, Hedged!Open, HedgedAnswer
  <2>2. Hedged!Remove(r, c)
    BY <1>5, <2>1 DEF Registry!Remove, Hedged!Remove, Registry!Asks, Hedged!Asks,
       Registry!Selected, Hedged!Selected
  <2> QED
    BY <2>2 DEF Hedged!Next
<1>6. ASSUME NEW r \in Requests, NEW code \in Registry!Codes, Registry!Pending(r),
             answer' = [answer EXCEPT ![r] = code],
             code = "404" \/ Registry!Vouched(r, code),
             UNCHANGED <<org, request, witnessed, effect, absent>>
      PROVE  Hedged!Next
  <2> DEFINE told == IF code = "404" THEN "500" ELSE code
  <2>1. HedgedAnswer' = [HedgedAnswer EXCEPT ![r] = told]
    BY <1>6 DEF HedgedAnswer, TypeOK
  <2>2. Hedged!Pending(r)
    BY <1>2, <1>6 DEF Registry!Pending, Hedged!Pending, Registry!NoRequest, Hedged!NoRequest
  <2>3. Hedged!Vouched(r, told)
    BY <1>6 DEF Registry!Vouched, Hedged!Vouched, Registry!Asks, Hedged!Asks
  <2>4. told \in Hedged!Codes
    BY DEF Registry!Codes, Hedged!Codes
  <2>5. Hedged!Answer(r, told)
    BY <1>6, <2>1, <2>2, <2>3 DEF Hedged!Answer
  <2> QED
    BY <2>4, <2>5 DEF Hedged!Next
<1>7. ASSUME NEW lost \in SUBSET Requests, Registry!Drop(lost) PROVE Hedged!Next
  <2>1. \A r \in lost : Hedged!Pending(r)
    BY <1>2, <1>7 DEF Registry!Drop, Registry!Pending, Hedged!Pending, Registry!NoRequest,
       Hedged!NoRequest
  <2>2. HedgedAnswer' = [r \in Requests |-> IF r \in lost THEN "dropped" ELSE HedgedAnswer[r]]
    BY <1>7 DEF Registry!Drop, HedgedAnswer
  <2>3. Hedged!Drop(lost)
    BY <1>7, <2>1, <2>2 DEF Registry!Drop, Hedged!Drop
  <2> QED
    BY <2>3 DEF Hedged!Next
<1>8. ASSUME NEW r \in Requests, NEW code \in Registry!Codes, Registry!Answer(r, code)
      PROVE  Hedged!Next
  BY <1>6, <1>8 DEF Registry!Answer
<1>9. ASSUME NEW r \in Requests, NotFound(r) PROVE Hedged!Next
  BY <1>6, <1>9 DEF NotFound, Registry!Codes
<1> QED
  BY <1>1, <1>3, <1>4, <1>5, <1>7, <1>8, <1>9 DEF Registry!Next

(* Without any bound on the organisation, the Okta connector implements      *)
(* ClientRegistry with each 404 taken for a 500.                             *)
THEOREM KeepsHedgedPromise == Spec => Hedged!Spec
<1>1. Registry!Init => Hedged!Init
  BY DEF Registry!Init, Hedged!Init, HedgedAnswer, Registry!NoRequest, Hedged!NoRequest
<1>2. Spec => [][Registry!Next \/ \E r \in Requests : NotFound(r)]_Registry!vars
  BY KeepsPromiseButFor404, PTL
<1>3. Spec => Registry!Init
  BY KeepsPromiseButFor404, PTL
<1> QED
  BY <1>1, <1>2, <1>3, HedgedStep, TypeCorrect, PTL DEF Hedged!Spec

(* However many applications there are: the organisation holds what it held  *)
(* at the start and what creates added, less what deletes removed, each by   *)
(* an id of the application it removed; no two requests share an             *)
(* application; and 201, 204 and 400 stay true.                              *)
THEOREM EffectsOnAnyPage ==
  Spec => [](/\ Registry!Accounted /\ Registry!LossesAskedFor /\ Registry!EffectsDistinct
             /\ \A r \in Requests :
                  /\ answer[r] = "201" => \E c \in Clients : effect[r] = {c} /\ request[r].key = c.label
                  /\ answer[r] = "204" => \E c \in Clients : effect[r] = {c} /\ request[r].key \in KeysOf[c]
                  /\ answer[r] = "400" => effect[r] = {})
<1>1. Hedged!Spec => [](/\ Hedged!Accounted /\ Hedged!LossesAskedFor
                        /\ Hedged!EffectsDistinct /\ Hedged!AnswersHold)
  BY PromiseAssumption, Hedged!EveryClientAccounted, Hedged!NoLossUnasked,
     Hedged!NoSharedEffect, Hedged!AnswersStayTrue, PTL
<1>2. Hedged!Accounted => Registry!Accounted
  BY DEF Hedged!Accounted, Registry!Accounted, Hedged!Created, Registry!Created,
         Hedged!Removed, Registry!Removed, Hedged!Asks, Registry!Asks
<1>3. Hedged!EffectsDistinct => Registry!EffectsDistinct
  BY DEF Hedged!EffectsDistinct, Registry!EffectsDistinct
<1>4. Hedged!LossesAskedFor => Registry!LossesAskedFor
  BY DEF Hedged!LossesAskedFor, Registry!LossesAskedFor, Hedged!Created, Registry!Created,
         Hedged!Asks, Registry!Asks
<1>5. Hedged!AnswersHold =>
        \A r \in Requests :
          /\ answer[r] = "201" => \E c \in Clients : effect[r] = {c} /\ request[r].key = c.label
          /\ answer[r] = "204" => \E c \in Clients : effect[r] = {c} /\ request[r].key \in KeysOf[c]
          /\ answer[r] = "400" => effect[r] = {}
  BY DEF Hedged!AnswersHold, HedgedAnswer
<1> QED
  BY KeepsHedgedPromise, <1>1, <1>2, <1>3, <1>4, <1>5, PTL

------------------------------------------------------------------------------
\* No delete goes by the name all applications share, or by an internal id.
AsksForLabels ==
  \A r \in Requests : Deletes(r) => request[r].key \notin {AppName} \cup Requests \cup Others

(* "Deletes an application with the matching label" is true in every run in  *)
(* which no delete asks for the common name or an internal id: the wider     *)
(* comparison of the search is all that the claim fails for.                 *)
THEOREM DeletesByLabel == Spec /\ []AsksForLabels => []DeletesMatchingLabel
<1>1. ASSUME Inv, AsksForLabels, NEW r \in Requests, Deletes(r), NEW c \in effect[r]
      PROVE  c.label = request[r].key
  <2>1. Local(r) /\ c \in Clients
    BY <1>1 DEF Inv, ConnectorInv, TypeOK
  <2>2. request[r].key \in KeysOf[c]
    BY <1>1, <2>1 DEF Local, Told, Sent
  <2>3. request[r].key \in {c.label, c.uid, AppName}
    BY <2>1, <2>2 DEF KeysOf
  <2> QED
    BY <1>1, <2>1, <2>3 DEF AsksForLabels, Clients
<1>2. Inv /\ AsksForLabels => DeletesMatchingLabel
  BY <1>1 DEF DeletesMatchingLabel, Deletes
<1> QED
  BY <1>2, Invariant, PTL
==============================================================================
