------------------------- MODULE ClientRegistryProofs -------------------------
(* Proofs about the promise of the API, for any sets of requests, clients    *)
(* and ids: that it is consistent does not depend on how many requests there *)
(* are or on how ids select clients.                                         *)
EXTENDS ClientRegistry, TLAPS

(* A step never makes a client, an answer or an effect of a wrong type. *)
LEMMA TypeStep == TypeOK /\ [Next]_vars => TypeOK'
<1> SUFFICES ASSUME TypeOK, [Next]_vars PROVE TypeOK'
  OBVIOUS
<1> USE DEF TypeOK
<1>1. CASE UNCHANGED vars
  BY <1>1 DEF vars
<1>2. ASSUME NEW r \in Requests, NEW q \in Request, Receive(r, q) PROVE TypeOK'
  BY <1>2 DEF Receive, Selected, Observe
<1>3. ASSUME NEW r \in Requests, NEW c \in Clients, Register(r, c) PROVE TypeOK'
  BY <1>3 DEF Register
<1>4. ASSUME NEW r \in Requests, NEW c \in Clients, Remove(r, c) PROVE TypeOK'
  BY <1>4 DEF Remove, Observe
<1>5. ASSUME NEW r \in Requests, NEW code \in Codes, Answer(r, code) PROVE TypeOK'
  BY <1>5 DEF Answer
<1>6. ASSUME NEW lost \in SUBSET Requests, Drop(lost) PROVE TypeOK'
  BY <1>6 DEF Drop
<1> QED
  BY <1>1, <1>2, <1>3, <1>4, <1>5, <1>6 DEF Next

(* Every variable keeps its type. *)
THEOREM TypeCorrect == Spec => []TypeOK
<1>1. Init => TypeOK
  BY RegistryAssumption DEF Init, TypeOK
<1> QED
  BY <1>1, TypeStep, PTL DEF Spec

------------------------------------------------------------------------------
(* The inductive invariant: what the properties say, and what a request has  *)
(* done is what it asked for.                                                *)

\* One client at most, selected by the id, and none before the request.
EffectAsAsked ==
  \A r \in Requests :
    /\ request[r] = NoRequest => effect[r] = {} /\ answer[r] = "none"
    /\ effect[r] # {} =>
         \E c \in Clients :
           /\ effect[r] = {c}
           /\ Asks(r, "create") => request[r].key = NameOf[c]
           /\ Asks(r, "delete") => request[r].key \in KeysOf[c]

\* Only what was there is removed.
RemovedExisted == Removed \subseteq Preexisting \cup Created

WitnessedExisted == \A r \in Requests : witnessed[r] \subseteq Preexisting \cup Created

AnswersVouched ==
  \A r \in Requests :
    /\ answer[r] = "201" => Asks(r, "create") /\ effect[r] # {}
    /\ answer[r] = "204" => Asks(r, "delete") /\ effect[r] # {}
    /\ answer[r] \in {"400", "404"} => effect[r] = {}
    /\ answer[r] = "404" => r \in absent

\* A delete has witnessed clients its id selects.
WitnessedSelected ==
  \A r \in Requests :
    Asks(r, "delete") => \A c \in witnessed[r] : request[r].key \in KeysOf[c]

\* Once its id selected no client, those it has witnessed are gone for good.
AbsentOutlived ==
  \A r \in absent : Asks(r, "delete") /\ witnessed[r] \cap registry = {}

RegistryInv ==
  /\ EffectAsAsked
  /\ RemovedExisted
  /\ WitnessedExisted
  /\ AnswersVouched
  /\ WitnessedSelected
  /\ AbsentOutlived
  /\ Accounted
  /\ EffectsDistinct

\* The request that created or removed a client.
LEMMA ByRequest ==
  ASSUME NEW c
  PROVE  /\ c \in Created <=> \E r \in Requests : Asks(r, "create") /\ c \in effect[r]
         /\ c \in Removed <=> \E r \in Requests : Asks(r, "delete") /\ c \in effect[r]
  BY DEF Created, Removed

LEMMA ByRequestNext ==
  ASSUME NEW c
  PROVE  /\ c \in Created' <=> \E r \in Requests : Asks(r, "create")' /\ c \in effect'[r]
         /\ c \in Removed' <=> \E r \in Requests : Asks(r, "delete")' /\ c \in effect'[r]
  BY DEF Created, Removed

(* How each step changes what the requests have created and removed. *)
LEMMA Receives ==
  ASSUME TypeOK, EffectAsAsked, NEW r \in Requests, NEW q \in Request, Receive(r, q)
  PROVE  Created' = Created /\ Removed' = Removed
<1>1. effect[r] = {} /\ effect' = effect
  BY DEF EffectAsAsked, Receive
<1>2. \A s \in Requests \ {r} : request'[s] = request[s]
  BY DEF Receive, TypeOK
<1>3. ASSUME NEW x PROVE x \in Created' <=> x \in Created
  BY <1>1, <1>2, ByRequest, ByRequestNext DEF Asks
<1>4. ASSUME NEW x PROVE x \in Removed' <=> x \in Removed
  BY <1>1, <1>2, ByRequest, ByRequestNext DEF Asks
<1> QED
  BY <1>3, <1>4

LEMMA Registers ==
  ASSUME TypeOK, NEW r \in Requests, NEW c \in Clients, Register(r, c)
  PROVE  Created' = Created \cup {c} /\ Removed' = Removed
<1>1. request' = request /\ effect[r] = {} /\ Asks(r, "create") /\ ~Asks(r, "delete")
  BY DEF Register, Open, Asks
<1>2. effect'[r] = {c} /\ \A s \in Requests \ {r} : effect'[s] = effect[s]
  BY DEF Register, TypeOK
<1>3. ASSUME NEW x PROVE x \in Created' <=> x \in Created \cup {c}
  BY <1>1, <1>2, ByRequest, ByRequestNext DEF Asks
<1>4. ASSUME NEW x PROVE x \in Removed' <=> x \in Removed
  BY <1>1, <1>2, ByRequest, ByRequestNext DEF Asks
<1> QED
  BY <1>3, <1>4

LEMMA Removes ==
  ASSUME TypeOK, NEW r \in Requests, NEW c \in Clients, Remove(r, c)
  PROVE  Created' = Created /\ Removed' = Removed \cup {c}
<1>1. request' = request /\ effect[r] = {} /\ Asks(r, "delete") /\ ~Asks(r, "create")
  BY DEF Remove, Open, Asks
<1>2. effect'[r] = {c} /\ \A s \in Requests \ {r} : effect'[s] = effect[s]
  BY DEF Remove, TypeOK
<1>3. ASSUME NEW x PROVE x \in Created' <=> x \in Created
  BY <1>1, <1>2, ByRequest, ByRequestNext DEF Asks
<1>4. ASSUME NEW x PROVE x \in Removed' <=> x \in Removed \cup {c}
  BY <1>1, <1>2, ByRequest, ByRequestNext DEF Asks
<1> QED
  BY <1>3, <1>4

\* What a delete has witnessed is gone when its id selects no client.
LEMMA UnmatchedOutlived ==
  ASSUME NEW r \in Requests, WitnessedSelected', Unmatched(r)'
  PROVE  Asks(r, "delete")' /\ witnessed'[r] \cap registry' = {}
  BY DEF WitnessedSelected, Unmatched, Selected

LEMMA RegistryStep == TypeOK /\ RegistryInv /\ [Next]_vars => RegistryInv'
<1> SUFFICES ASSUME TypeOK, RegistryInv, [Next]_vars PROVE RegistryInv'
  OBVIOUS
<1> USE DEF TypeOK, RegistryInv
<1>1. ASSUME UNCHANGED <<registry, request, witnessed, effect, absent>>,
             \A r \in Requests :
               \/ answer'[r] = answer[r]
               \/ request[r] # NoRequest /\ answer'[r] \in {"500", "dropped"}
               \/ request[r] # NoRequest /\ answer'[r] \in Codes /\ Vouched(r, answer'[r])
      PROVE  RegistryInv'
  <2>1. Created' = Created /\ Removed' = Removed
    BY <1>1 DEF Created, Removed, Asks
  <2>2. EffectAsAsked'
    BY <1>1 DEF EffectAsAsked, Asks
  <2>3. AnswersVouched'
    BY <1>1 DEF AnswersVouched, Vouched, Asks
  <2>4. WitnessedSelected' /\ AbsentOutlived'
    BY <1>1 DEF WitnessedSelected, AbsentOutlived, Asks
  <2> QED
    BY <1>1, <2>1, <2>2, <2>3, <2>4
       DEF RemovedExisted, WitnessedExisted, Accounted, EffectsDistinct
<1>2. ASSUME NEW r \in Requests, NEW q \in Request, Receive(r, q) PROVE RegistryInv'
  <2>1. Created' = Created /\ Removed' = Removed
    BY <1>2, Receives
  <2>2. effect[r] = {} /\ answer[r] = "none" /\ UNCHANGED <<registry, effect, answer>>
    BY <1>2 DEF Receive, EffectAsAsked
  <2>3. \A s \in Requests \ {r} : request'[s] = request[s] /\ witnessed'[s] = witnessed[s]
    BY <1>2 DEF Receive
  <2>4. witnessed'[r] \subseteq registry
    BY <1>2 DEF Receive, Selected
  <2>5. EffectAsAsked' /\ EffectsDistinct'
    BY <2>2, <2>3 DEF EffectAsAsked, EffectsDistinct, Asks
  <2>6. AnswersVouched'
    BY <1>2, <2>2, <2>3 DEF Receive, Observe, AnswersVouched, Asks
  <2>7. WitnessedExisted'
    BY <2>1, <2>3, <2>4 DEF WitnessedExisted, Accounted
  <2>8. WitnessedSelected'
    BY <1>2, <2>3 DEF Receive, Selected, WitnessedSelected, Asks
  <2>9. AbsentOutlived'  \* r asked for nothing, so it is absent only if observed now
    <3>1. r \notin absent /\ absent' = absent \cup {s \in Requests : Unmatched(s)'}
      BY <1>2 DEF Receive, Observe, AbsentOutlived, Asks, NoRequest
    <3>2. \A s \in absent : request'[s] = request[s] /\ witnessed'[s] = witnessed[s]
      BY <2>3, <3>1
    <3> QED
      BY <2>2, <2>8, <3>1, <3>2, UnmatchedOutlived DEF AbsentOutlived, Asks
  <2> QED
    BY <2>1, <2>2, <2>5, <2>6, <2>7, <2>8, <2>9 DEF RemovedExisted, Accounted
<1>3. ASSUME NEW r \in Requests, NEW c \in Clients, Register(r, c) PROVE RegistryInv'
  <2>1. Created' = Created \cup {c} /\ Removed' = Removed
    BY <1>3, Registers
  <2>2. c \notin Preexisting \cup Created /\ registry' = registry \cup {c}
    BY <1>3 DEF Register
  <2>3. /\ UNCHANGED <<request, witnessed, answer>>
        /\ Asks(r, "create") /\ answer[r] \in {"none", "500", "dropped"}
        /\ request[r].key = NameOf[c]
    BY <1>3 DEF Register, Open
  <2>4. effect'[r] = {c} /\ \A s \in Requests \ {r} : effect'[s] = effect[s]
    BY <1>3 DEF Register
  <2>5. EffectAsAsked'
    BY <2>3, <2>4 DEF EffectAsAsked, Asks, NoRequest
  <2>6. EffectsDistinct'  \* c is new, so no create has it yet
    BY <2>2, <2>3, <2>4, ByRequest DEF EffectsDistinct, Asks
  <2>7. AnswersVouched' /\ WitnessedSelected'
    BY <1>3, <2>3, <2>4 DEF Register, AnswersVouched, WitnessedSelected, Asks
  <2>8. RemovedExisted' /\ WitnessedExisted'
    BY <2>1, <2>3 DEF RemovedExisted, WitnessedExisted
  <2>9. Accounted'
    BY <2>1, <2>2 DEF Accounted, RemovedExisted
  <2>10. AbsentOutlived'  \* c is new, so no delete has witnessed it
    BY <1>3, <2>2, <2>3 DEF Register, AbsentOutlived, WitnessedExisted, Asks
  <2> QED
    BY <2>5, <2>6, <2>7, <2>8, <2>9, <2>10
<1>4. ASSUME NEW r \in Requests, NEW c \in Clients, Remove(r, c) PROVE RegistryInv'
  <2>1. Created' = Created /\ Removed' = Removed \cup {c}
    BY <1>4, Removes
  <2>2. c \in registry /\ registry' = registry \ {c} /\ c \notin Removed
    BY <1>4 DEF Remove, Selected, Accounted
  <2>3. /\ UNCHANGED <<request, witnessed, answer>>
        /\ Asks(r, "delete") /\ answer[r] \in {"none", "500", "dropped"}
        /\ request[r].key \in KeysOf[c]
    BY <1>4 DEF Remove, Open, Selected
  <2>4. effect'[r] = {c} /\ \A s \in Requests \ {r} : effect'[s] = effect[s]
    BY <1>4 DEF Remove
  <2>5. EffectAsAsked'
    BY <2>3, <2>4 DEF EffectAsAsked, Asks, NoRequest
  <2>6. EffectsDistinct'  \* c is there, so no delete has removed it
    BY <2>2, <2>3, <2>4, ByRequest DEF EffectsDistinct, Asks
  <2>7. AnswersVouched' /\ WitnessedSelected'
    BY <1>4, <2>3, <2>4 DEF Remove, Observe, AnswersVouched, WitnessedSelected, Asks
  <2>8. RemovedExisted' /\ WitnessedExisted'
    BY <2>1, <2>2, <2>3 DEF RemovedExisted, WitnessedExisted, Accounted
  <2>9. Accounted'
    BY <2>1, <2>2 DEF Accounted
  <2>10. AbsentOutlived'
    BY <1>4, <2>2, <2>3, <2>7, UnmatchedOutlived DEF Remove, Observe, AbsentOutlived, Asks
  <2> QED
    BY <2>5, <2>6, <2>7, <2>8, <2>9, <2>10
<1>5. ASSUME NEW r \in Requests, NEW code \in Codes, Answer(r, code) PROVE RegistryInv'
  BY <1>5, <1>1 DEF Answer, Pending
<1>6. ASSUME NEW lost \in SUBSET Requests, Drop(lost) PROVE RegistryInv'
  BY <1>6, <1>1 DEF Drop, Pending
<1>7. CASE UNCHANGED vars
  BY <1>7, <1>1 DEF vars
<1> QED
  BY <1>2, <1>3, <1>4, <1>5, <1>6, <1>7 DEF Next

LEMMA RegistryInvariant == Spec => []RegistryInv
<1>1. Init => RegistryInv
  <2> SUFFICES ASSUME Init PROVE RegistryInv
    OBVIOUS
  <2>1. Created = {} /\ Removed = {}
    BY ByRequest DEF Init
  <2> QED
    BY <2>1 DEF Init, RegistryInv, EffectAsAsked, RemovedExisted, WitnessedExisted,
       AnswersVouched, WitnessedSelected, AbsentOutlived, Accounted, EffectsDistinct, Asks,
       NoRequest
<1> QED
  BY <1>1, RegistryStep, TypeCorrect, PTL DEF Spec

(* The provider's clients are the initial ones and the created ones less the *)
(* removed ones: a client that was removed never comes back, whatever late   *)
(* effects a request answered 500 still has.                                 *)
THEOREM EveryClientAccounted == Spec => []Accounted
  BY RegistryInvariant, PTL DEF RegistryInv

(* No client is missing but by a delete that asked for it. *)
THEOREM NoLossUnasked == Spec => []LossesAskedFor
<1>1. ASSUME RegistryInv, NEW c \in (Preexisting \cup Created) \ registry
      PROVE  \E r \in Requests :
               Asks(r, "delete") /\ request[r].key \in KeysOf[c] /\ effect[r] = {c}
  <2>1. c \in Removed
    BY <1>1 DEF RegistryInv, Accounted
  <2>2. PICK r \in Requests : Asks(r, "delete") /\ c \in effect[r]
    BY <2>1, ByRequest
  <2> QED
    BY <1>1, <2>2 DEF RegistryInv, EffectAsAsked
<1>2. RegistryInv => LossesAskedFor
  BY <1>1 DEF LossesAskedFor
<1> QED
  BY <1>2, RegistryInvariant, PTL

(* No step brings back a client that was removed before, however late the    *)
(* effects of requests answered 500 or dropped come.                         *)
THEOREM RemovedForGood == Spec => [][\A c \in Removed : c \notin registry']_vars
<1>1. ASSUME TypeOK, RegistryInv, RegistryInv', Next
      PROVE  \A c \in Removed : c \notin registry'
  <2>1. Removed \subseteq Removed'
    <3>1. ASSUME NEW r \in Requests, NEW q \in Request, Receive(r, q) PROVE Removed' = Removed
      BY <1>1, <3>1, Receives DEF RegistryInv
    <3>2. ASSUME NEW r \in Requests, NEW c \in Clients, Register(r, c) PROVE Removed' = Removed
      BY <1>1, <3>2, Registers
    <3>3. ASSUME NEW r \in Requests, NEW c \in Clients, Remove(r, c)
          PROVE  Removed' = Removed \cup {c}
      BY <1>1, <3>3, Removes
    <3>4. ASSUME \/ \E r \in Requests, code \in Codes : Answer(r, code)
                 \/ \E lost \in SUBSET Requests : Drop(lost)
          PROVE  Removed' = Removed
      BY <3>4 DEF Answer, Drop, Removed, Asks
    <3> QED
      BY <1>1, <3>1, <3>2, <3>3, <3>4 DEF Next
  <2> QED
    BY <1>1, <2>1 DEF RegistryInv, Accounted
<1>2. TypeOK /\ RegistryInv /\ RegistryInv' /\ [Next]_vars
        => [\A c \in Removed : c \notin registry']_vars
  BY <1>1
<1> QED
  BY <1>2, TypeCorrect, RegistryInvariant, PTL DEF Spec

(* Two creates never hand out, and two deletes never claim, one client. *)
THEOREM NoSharedEffect == Spec => []EffectsDistinct
  BY RegistryInvariant, PTL DEF RegistryInv

(* Status codes stay true for good. *)
THEOREM AnswersStayTrue == Spec => []AnswersHold
<1>1. RegistryInv => AnswersHold
  BY DEF RegistryInv, EffectAsAsked, AnswersVouched, AbsentOutlived, AnswersHold, Asks
<1> QED
  BY <1>1, RegistryInvariant, PTL
==============================================================================
