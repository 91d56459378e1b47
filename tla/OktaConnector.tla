----------------------------- MODULE OktaConnector -----------------------------
(***************************************************************************)
(* The request handlers of the Okta connector and the applications of the  *)
(* Okta organisation they manage.  Every request runs in a goroutine of    *)
(* its own; requests meet only in the organisation.                        *)
(*                                                                         *)
(* An application has an internal id, which is its OAuth client id too,    *)
(* here the request whose call created it, and a label, the id of the      *)
(* portal's request; labels are not unique.  A delete lists applications,  *)
(* takes the first that matches, deactivates it and deletes it: three      *)
(* calls.  Okta deletes inactive applications only.                        *)
(*                                                                         *)
(* The calls carry the context of the request: when the portal gives up,   *)
(* the handler gets no further.  A call that was sent may be carried out   *)
(* all the same, whatever became of its handler.                           *)
(***************************************************************************)
EXTENDS Integers, FiniteSets

CONSTANTS
  Requests,     \* requests of the portal, each sent once
  Others,       \* internal ids of applications the connector did not create
  Plain,        \* those of them that are not OpenID Connect applications
  Keys,         \* values of "id" in a request
  NoKey,        \* the empty id
  AppName,      \* "oidc_client", the name every created application has
  PageSize,     \* applications in one response of ListApplications
  Preexisting   \* applications at the start

Clients == [uid : Requests \cup Others, label : Keys \ {NoKey}]

ASSUME OktaAssumption ==
  /\ NoKey \in Keys
  /\ Plain \subseteq Others
  /\ PageSize \in Nat \ {0}
  /\ Preexisting \subseteq [uid : Others \ Requests, label : Keys \ {NoKey}]

VARIABLES
  org,        \* applications of the organisation
  inactive,   \* those that are deactivated
  request,    \* what each request asks for
  pc,         \* where its handler is
  found,      \* applications a delete has listed that match; then the one taken
  wire,       \* the last call of each request that changes the organisation
  witnessed,  \* history: applications its id matched when it was received
  effect,     \* history: applications the request created or deleted
  answer,     \* status code sent to the portal
  absent      \* history: deletes whose id matched no application at some
              \* moment while they were pending

vars == <<org, inactive, request, pc, found, wire, witnessed, effect, answer, absent>>

NoRequest == [kind |-> "none", key |-> NoKey]
Request == [kind : {"create", "delete"}, key : Keys]

\* The comparison with label, name, internal id and client id; nothing is read
\* from an application of another kind.
KeysOf == [c \in Clients |->
             IF c.uid \in Plain THEN {} ELSE {c.label, c.uid, AppName} \cap (Keys \ {NoKey})]
Matching(apps, key) == {c \in apps : key \in KeysOf[c]}

\* A pending delete whose id matches no application now: that becomes true when
\* it is received or when an application is deleted, and is recorded then.
Unmatched(r) ==
  request[r].kind = "delete" /\ answer[r] = "none" /\ Matching(org, request[r].key) = {}
Observe == absent' = absent \cup {r \in Requests : Unmatched(r)'}

\* What one response lists: all there is, or a page of it.
Pages == IF Cardinality(org) <= PageSize
         THEN {org}
         ELSE {page \in SUBSET org : Cardinality(page) = PageSize}

Active(r) == pc[r] \notin {"idle", "over"}
Goto(r, place) == pc' = [pc EXCEPT ![r] = place]
Reply(r, code) == Goto(r, "over") /\ answer' = [answer EXCEPT ![r] = code]
Wire(r, state) == wire' = [wire EXCEPT ![r] = state]

Init ==
  /\ org = Preexisting
  /\ inactive = {}
  /\ request = [r \in Requests |-> NoRequest]
  /\ pc = [r \in Requests |-> "idle"]
  /\ found = [r \in Requests |-> {}]
  /\ wire = [r \in Requests |-> "none"]
  /\ witnessed = [r \in Requests |-> {}]
  /\ effect = [r \in Requests |-> {}]
  /\ answer = [r \in Requests |-> "none"]
  /\ absent = {}

Receive(r, q) ==
  /\ pc[r] = "idle"
  /\ request' = [request EXCEPT ![r] = q]
  /\ Goto(r, q.kind)
  /\ witnessed' = [witnessed EXCEPT ![r] = Matching(org, q.key)]
  /\ UNCHANGED <<org, inactive, found, wire, effect, answer>>
  /\ Observe

------------------------------------------------------------------------------
(* CreateOAuthApplication *)

RefuseCreate(r) ==
  /\ pc[r] = "create"
  /\ request[r].key = NoKey
  /\ Reply(r, "400")
  /\ UNCHANGED <<org, inactive, request, found, wire, witnessed, effect, absent>>

CreateApplication(r) ==
  /\ pc[r] = "create"
  /\ request[r].key # NoKey
  /\ Goto(r, "creating")
  /\ Wire(r, "create")
  /\ UNCHANGED <<org, inactive, request, found, witnessed, effect, answer, absent>>

FinishCreate(r) ==
  /\ pc[r] = "creating"
  /\ wire[r] = "done"
  /\ Reply(r, "201")
  /\ UNCHANGED <<org, inactive, request, found, wire, witnessed, effect, absent>>

------------------------------------------------------------------------------
(* DeleteOAuthApplication *)

RefuseDelete(r) ==
  /\ pc[r] = "delete"
  /\ request[r].key = NoKey
  /\ Reply(r, "500")
  /\ UNCHANGED <<org, inactive, request, found, wire, witnessed, effect, absent>>

(* ListApplications, one response, and the search through it. *)
ListApplications(r) ==
  /\ pc[r] = "delete"
  /\ request[r].key # NoKey
  /\ \E page \in Pages : found' = [found EXCEPT ![r] = Matching(page, request[r].key)]
  /\ Goto(r, "listed")
  /\ UNCHANGED <<org, inactive, request, wire, witnessed, effect, answer, absent>>

(* Mutant: deletes without deactivating first. *)
TakeFirstActive(r) ==
  /\ pc[r] = "listed"
  /\ \/ found[r] = {} /\ Reply(r, "404") /\ UNCHANGED <<found, wire>>
     \/ /\ \E c \in found[r] : found' = [found EXCEPT ![r] = {c}]
        /\ Goto(r, "deleting")
        /\ Wire(r, "delete")
        /\ UNCHANGED answer
  /\ UNCHANGED <<org, inactive, request, witnessed, effect, absent>>

(* The first match, in whatever order Okta lists. *)
TakeFirst(r) ==
  /\ pc[r] = "listed"
  /\ \/ found[r] = {} /\ Reply(r, "404") /\ UNCHANGED <<found, wire>>
     \/ /\ \E c \in found[r] : found' = [found EXCEPT ![r] = {c}]
        /\ Goto(r, "deactivating")
        /\ Wire(r, "deactivate")
        /\ UNCHANGED answer
  /\ UNCHANGED <<org, inactive, request, witnessed, effect, absent>>

(* Mutant: a deactivation that Okta refuses is tried again. *)
DeactivationEndsRetry(r) ==
  /\ pc[r] = "deactivating"
  /\ \/ wire[r] = "done" /\ Goto(r, "deleting") /\ Wire(r, "delete")
     \/ wire[r] = "refused" /\ Wire(r, "deactivate") /\ UNCHANGED pc
  /\ UNCHANGED <<org, inactive, request, found, witnessed, effect, answer, absent>>

DeactivationEnds(r) ==
  /\ pc[r] = "deactivating"
  /\ \/ wire[r] = "done" /\ Goto(r, "deleting") /\ Wire(r, "delete") /\ UNCHANGED answer
     \/ wire[r] = "refused" /\ Reply(r, "500") /\ UNCHANGED wire
  /\ UNCHANGED <<org, inactive, request, found, witnessed, effect, absent>>

(* Mutant: a deletion that Okta refuses counts as done. *)
FinishDeleteAnyway(r) ==
  /\ pc[r] = "deleting"
  /\ wire[r] \in {"done", "refused"} /\ Reply(r, "204")
  /\ UNCHANGED <<org, inactive, request, found, wire, witnessed, effect, absent>>

(* Mutant: the status of Okta's refusal becomes that of the answer. *)
FinishDeletePassedOn(r) ==
  /\ pc[r] = "deleting"
  /\ \/ wire[r] = "done" /\ Reply(r, "204")
     \/ wire[r] = "refused" /\ Reply(r, "403")
  /\ UNCHANGED <<org, inactive, request, found, wire, witnessed, effect, absent>>

FinishDelete(r) ==
  /\ pc[r] = "deleting"
  /\ \/ wire[r] = "done" /\ Reply(r, "204")
     \/ wire[r] = "refused" /\ Reply(r, "500")
  /\ UNCHANGED <<org, inactive, request, found, wire, witnessed, effect, absent>>

------------------------------------------------------------------------------
Waiting(r) ==
  \/ pc[r] \in {"creating", "listed", "deactivating", "deleting"}
  \/ pc[r] = "delete" /\ request[r].key # NoKey

(* Mutant: a deactivation that fails is passed over. *)
CallFailsUnnoticed(r) ==
  /\ Waiting(r)
  /\ Reply(r, IF pc[r] = "deactivating" THEN "204" ELSE "500")
  /\ UNCHANGED <<org, inactive, request, found, wire, witnessed, effect, absent>>

(* The SDK returns an error, or an application of an unexpected type, whether *)
(* or not the organisation has changed.                                       *)
CallFails(r) ==
  /\ Waiting(r)
  /\ Reply(r, "500")
  /\ UNCHANGED <<org, inactive, request, found, wire, witnessed, effect, absent>>

(* The portal gives up, which cancels the call under way, or the process      *)
(* ends: nobody gets the answer.                                              *)
Disconnect(r) ==
  /\ Active(r)
  /\ Reply(r, "dropped")
  /\ UNCHANGED <<org, inactive, request, found, wire, witnessed, effect, absent>>

(* Okta carries out a call. *)
OrgCreate(r) ==
  /\ wire[r] = "create"
  /\ LET new == [uid |-> r, label |-> request[r].key]
     IN  /\ org' = org \cup {new}
         /\ effect' = [effect EXCEPT ![r] = {new}]
  /\ Wire(r, "done")
  /\ UNCHANGED <<inactive, request, pc, found, witnessed, answer, absent>>

OrgDeactivate(r) ==
  /\ wire[r] = "deactivate"
  /\ IF found[r] \subseteq org
     THEN inactive' = inactive \cup found[r] /\ Wire(r, "done")
     ELSE Wire(r, "refused") /\ UNCHANGED inactive
  /\ UNCHANGED <<org, request, pc, found, witnessed, effect, answer, absent>>

OrgDelete(r) ==
  /\ wire[r] = "delete"
  /\ UNCHANGED <<request, pc, found, witnessed, answer>>
  /\ IF found[r] \subseteq inactive
     THEN /\ org' = org \ found[r]
          /\ inactive' = inactive \ found[r]
          /\ effect' = [effect EXCEPT ![r] = found[r]]
          /\ Wire(r, "done")
          /\ Observe
     ELSE Wire(r, "refused") /\ UNCHANGED <<org, inactive, effect, absent>>

Handle(r) ==
  \/ RefuseCreate(r) \/ CreateApplication(r) \/ FinishCreate(r)
  \/ RefuseDelete(r) \/ ListApplications(r) \/ TakeFirst(r)
  \/ DeactivationEnds(r) \/ FinishDelete(r)

CarryOut(r) == OrgCreate(r) \/ OrgDeactivate(r) \/ OrgDelete(r)

Next ==
  \E r \in Requests :
    \/ \E q \in Request : Receive(r, q)
    \/ Handle(r)
    \/ CallFails(r)
    \/ Disconnect(r)
    \/ CarryOut(r)

Spec == Init /\ [][Next]_vars

\* Goroutines are scheduled, and a call a handler waits for is carried out
\* unless its exchange fails; failures are not owed.
FairSpec ==
  /\ Spec
  /\ \A r \in Requests : WF_vars(Handle(r)) /\ WF_vars(Active(r) /\ CarryOut(r))

------------------------------------------------------------------------------
(* Every variable keeps its type. *)
TypeOK ==
  /\ org \subseteq Clients /\ inactive \subseteq org
  /\ request \in [Requests -> Request \cup {NoRequest}]
  /\ pc \in [Requests -> {"idle", "create", "creating", "delete", "listed",
                          "deactivating", "deleting", "over"}]
  /\ found \in [Requests -> SUBSET Clients]
  /\ wire \in [Requests -> {"none", "create", "deactivate", "delete", "done", "refused"}]
  /\ witnessed \in [Requests -> SUBSET Clients]
  /\ effect \in [Requests -> SUBSET Clients]
  /\ answer \in [Requests -> {"none", "201", "204", "400", "404", "500", "dropped"}]
  /\ absent \subseteq Requests

(* As long as the applications fit in one response, the connector keeps the  *)
(* promise of the API.                                                       *)
Registry == INSTANCE ClientRegistry WITH
  NameOf <- [c \in Clients |-> c.label],
  registry <- org

Promise == Registry!Spec

(* An application is left deactivated only by a delete that has not told the *)
(* portal that it is gone or was not found.                                  *)
InactiveIsOwed ==
  \A c \in inactive : \E r \in Requests :
    /\ request[r].kind = "delete" /\ found[r] = {c}
    /\ answer[r] \in {"none", "500", "dropped"}

(* "Deactivate the application first (Okta requires this before deletion)":  *)
(* Okta refuses a step of a delete only when another delete got there first. *)
RefusedOnlyIfGone ==
  \A r \in Requests : wire[r] = "refused" => found[r] \cap org = {}

(* "Application not found": a delete is answered 404 only when none of the   *)
(* applications its id matched is left.  Not so when they do not all fit in  *)
(* one response.                                                             *)
NotFoundMeansAbsent ==
  \A r \in Requests : answer[r] = "404" => witnessed[r] \cap org = {}

(* A delete removes an application with the matching label, as the guide     *)
(* says.  Not so: the name, which all created applications share, matches    *)
(* as well.                                                                  *)
DeletesMatchingLabel ==
  \A r \in Requests :
    request[r].kind = "delete" => \A c \in effect[r] : c.label = request[r].key

(* Every request gets an answer, unless its connection is lost. *)
EveryRequestEnds == \A r \in Requests : Active(r) ~> answer[r] # "none"
==============================================================================
