--------------------------- MODULE CognitoConnector ---------------------------
(***************************************************************************)
(* The request handlers of the Cognito connector and the user pool whose   *)
(* clients they manage.  Every request runs in a goroutine of its own;     *)
(* requests meet only in the pool.                                         *)
(*                                                                         *)
(* Cognito chooses the id of a client and returns it with the secret; the  *)
(* id of the portal's request is only its name, and names are not unique.  *)
(* A delete goes by the id Cognito chose.  Each handler makes one call of  *)
(* the AWS SDK, and the SDK, as LoadDefaultConfig sets it up, sends a call *)
(* again when it gets no answer or a server error.  Each attempt may be    *)
(* carried out, however late, whatever became of the call.                 *)
(***************************************************************************)
EXTENDS Integers, FiniteSets

CONSTANTS
  Requests,     \* requests of the portal, each sent once
  Others,       \* ids of clients the connector did not create
  Names,        \* names of clients
  NoKey,        \* the empty id
  MaxAttempts,  \* how often the SDK sends a call
  Preexisting   \* clients of the pool at the start

Attempts == 1 .. MaxAttempts
Calls == Requests \X Attempts   \* <<r, n>>: the n-th attempt of the call of r
Uids == Others \cup Calls
Clients == [uid : Uids, name : Names]

ASSUME CognitoAssumption ==
  /\ NoKey \notin Names \cup Uids
  /\ MaxAttempts \in Nat \ {0}
  /\ Preexisting \subseteq [uid : Others \ Calls, name : Names]
  /\ \A c, d \in Preexisting : c.uid = d.uid => c = d

VARIABLES
  pool,       \* clients of the user pool
  request,    \* what each request asks for
  pc,         \* where its handler is
  attempt,    \* attempts the SDK has made of its call
  wire,       \* attempts that Cognito may still carry out
  reply,      \* what the last attempt came to
  witnessed,  \* history: clients of that id when each attempt began
  effect,     \* history: clients each attempt created or deleted
  answer,     \* status code sent to the portal
  absent      \* history: attempts of a delete for whose id there was no client
              \* at some moment while the SDK waited for them

vars == <<pool, request, pc, attempt, wire, reply, witnessed, effect, answer, absent>>

NoRequest == [kind |-> "none", key |-> NoKey]
Request == [kind : {"create"}, key : Names \cup {NoKey}]
             \cup [kind : {"delete"}, key : Uids \cup {NoKey}]

WithId(uid) == {c \in pool : c.uid = uid}

Active(r) == pc[r] \notin {"idle", "over"}
Calling(r) == pc[r] \in {"creating", "deleting"}
\* An attempt that has been made, the first of them when its request is
\* received, and one the SDK waits for no longer.
Made(r, n) == n <= attempt[r] \/ n = 1
Superseded(r, n) == n < attempt[r] \/ (n = attempt[r] /\ reply[r] = "lost")

\* A pending attempt for whose id there is no client now: that becomes true when
\* it is made or when a client is deleted, and is recorded then.
Unmatched(r, n) ==
  /\ request[r].kind = "delete" /\ answer[r] = "none" /\ WithId(request[r].key) = {}
  /\ Made(r, n) /\ ~Superseded(r, n)
Observe == absent' = absent \cup {call \in Calls : Unmatched(call[1], call[2])'}

Goto(r, place) == pc' = [pc EXCEPT ![r] = place]
Reply(r, code) == Goto(r, "over") /\ answer' = [answer EXCEPT ![r] = code]

Init ==
  /\ pool = Preexisting
  /\ request = [r \in Requests |-> NoRequest]
  /\ pc = [r \in Requests |-> "idle"]
  /\ attempt = [r \in Requests |-> 0]
  /\ wire = {}
  /\ reply = [r \in Requests |-> "none"]
  /\ witnessed = [call \in Calls |-> {}]
  /\ effect = [call \in Calls |-> {}]
  /\ answer = [r \in Requests |-> "none"]
  /\ absent = {}

Receive(r, q) ==
  /\ pc[r] = "idle"
  /\ request' = [request EXCEPT ![r] = q]
  /\ Goto(r, q.kind)
  /\ witnessed' = [witnessed EXCEPT ![<<r, 1>>] = WithId(q.key)]
  /\ UNCHANGED <<pool, attempt, wire, reply, effect, answer>>
  /\ Observe

------------------------------------------------------------------------------
(* CreateOAuthApplication and DeleteOAuthApplication *)

RefuseCreate(r) ==
  /\ pc[r] = "create"
  /\ request[r].key = NoKey
  /\ Reply(r, "400")
  /\ UNCHANGED <<pool, request, attempt, wire, reply, witnessed, effect, absent>>

(* The call is handed to the SDK, which makes the first attempt. *)
Call(r) ==
  /\ \/ pc[r] = "create" /\ request[r].key # NoKey /\ Goto(r, "creating")
     \/ pc[r] = "delete" /\ Goto(r, "deleting")
  /\ attempt' = [attempt EXCEPT ![r] = 1]
  /\ wire' = wire \cup {<<r, 1>>}
  /\ UNCHANGED <<pool, request, reply, witnessed, effect, answer, absent>>

(* The attempt brings no answer, or a server error, though it may have been  *)
(* carried out or be carried out yet.                                        *)
AttemptFails(r) ==
  /\ Calling(r)
  /\ reply' = [reply EXCEPT ![r] = "lost"]
  /\ UNCHANGED <<pool, request, pc, attempt, wire, witnessed, effect, answer, absent>>

Retry(r) ==
  /\ Calling(r)
  /\ reply[r] = "lost"
  /\ attempt[r] < MaxAttempts
  /\ LET call == <<r, attempt[r] + 1>>
     IN  /\ wire' = wire \cup {call}
         /\ witnessed' = [witnessed EXCEPT ![call] = WithId(request[r].key)]
  /\ attempt' = [attempt EXCEPT ![r] = @ + 1]
  /\ reply' = [reply EXCEPT ![r] = "none"]
  /\ UNCHANGED <<pool, request, pc, effect, answer>>
  /\ Observe

FinishCreate(r) ==
  /\ pc[r] = "creating"
  /\ reply[r] = "done"
  /\ Reply(r, "201")
  /\ UNCHANGED <<pool, request, attempt, wire, reply, witnessed, effect, absent>>

(* Mutant: a client that is not there counts as deleted. *)
FinishDeleteIdempotent(r) ==
  /\ pc[r] = "deleting"
  /\ \/ reply[r] \in {"done", "missing"} /\ Reply(r, "204")
     \/ reply[r] = "refused" /\ Reply(r, "500")
  /\ UNCHANGED <<pool, request, attempt, wire, reply, witnessed, effect, absent>>

(* Mutant: the status of Cognito's refusal becomes that of the answer. *)
FinishDeletePassedOn(r) ==
  /\ pc[r] = "deleting"
  /\ \/ reply[r] = "done" /\ Reply(r, "204")
     \/ reply[r] = "missing" /\ Reply(r, "404")
     \/ reply[r] = "refused" /\ Reply(r, "403")
  /\ UNCHANGED <<pool, request, attempt, wire, reply, witnessed, effect, absent>>

(* Mutant: a delete that finds no client is called again. *)
FinishDeleteAgain(r) ==
  /\ pc[r] = "deleting"
  /\ \/ reply[r] = "done" /\ Reply(r, "204") /\ UNCHANGED <<wire, reply>>
     \/ reply[r] = "refused" /\ Reply(r, "500") /\ UNCHANGED <<wire, reply>>
     \/ /\ reply[r] = "missing"
        /\ wire' = wire \cup {<<r, attempt[r]>>}
        /\ reply' = [reply EXCEPT ![r] = "none"]
        /\ UNCHANGED <<pc, answer>>
  /\ UNCHANGED <<pool, request, attempt, witnessed, effect, absent>>

FinishDelete(r) ==
  /\ pc[r] = "deleting"
  /\ \/ reply[r] = "done" /\ Reply(r, "204")
     \/ reply[r] = "missing" /\ Reply(r, "404")
     \/ reply[r] = "refused" /\ Reply(r, "500")
  /\ UNCHANGED <<pool, request, attempt, wire, reply, witnessed, effect, absent>>

(* Mutant: every error of a delete is answered 404. *)
CallFailsNotFound(r) ==
  /\ \/ pc[r] = "creating" /\ Reply(r, "500")
     \/ pc[r] = "deleting" /\ Reply(r, "404")
  /\ UNCHANGED <<pool, request, attempt, wire, reply, witnessed, effect, absent>>

(* Mutant: the error of a create is not looked at. *)
CallFailsCreated(r) ==
  /\ Calling(r)
  /\ Reply(r, IF pc[r] = "creating" THEN "201" ELSE "500")
  /\ UNCHANGED <<pool, request, attempt, wire, reply, witnessed, effect, absent>>

(* The SDK gives up, or Cognito refuses the call for another reason. *)
CallFails(r) ==
  /\ Calling(r)
  /\ Reply(r, "500")
  /\ UNCHANGED <<pool, request, attempt, wire, reply, witnessed, effect, absent>>

(* The portal gives up, which cancels the call under way, or the process      *)
(* ends: nobody gets the answer.                                              *)
Disconnect(r) ==
  /\ Active(r)
  /\ Reply(r, "dropped")
  /\ UNCHANGED <<pool, request, attempt, wire, reply, witnessed, effect, absent>>

------------------------------------------------------------------------------
\* An answer of Cognito counts when the SDK still waits for that attempt.
Takes(r, n, outcome) ==
  /\ wire' = wire \ {<<r, n>>}
  /\ reply' = IF n = attempt[r] /\ reply[r] = "none"
              THEN [reply EXCEPT ![r] = outcome] ELSE reply

(* Cognito carries out an attempt. *)
PoolCreate(r, n) ==
  /\ request[r].kind = "create"
  /\ <<r, n>> \in wire
  /\ LET client == [uid |-> <<r, n>>, name |-> request[r].key]
     IN  /\ pool' = pool \cup {client}
         /\ effect' = [effect EXCEPT ![<<r, n>>] = {client}]
  /\ Takes(r, n, "done")
  /\ UNCHANGED <<request, pc, attempt, witnessed, answer, absent>>

PoolDelete(r, n) ==
  /\ request[r].kind = "delete"
  /\ <<r, n>> \in wire
  /\ LET gone == WithId(request[r].key)
     IN  /\ pool' = pool \ gone
         /\ effect' = [effect EXCEPT ![<<r, n>>] = gone]
         /\ Takes(r, n, IF request[r].key = NoKey THEN "refused"
                        ELSE IF gone = {} THEN "missing" ELSE "done")
  /\ UNCHANGED <<request, pc, attempt, witnessed, answer>>
  /\ Observe

Handle(r) ==
  RefuseCreate(r) \/ Call(r) \/ FinishCreate(r) \/ FinishDelete(r)

CarryOut(r, n) == PoolCreate(r, n) \/ PoolDelete(r, n)

Next ==
  \E r \in Requests :
    \/ \E q \in Request : Receive(r, q)
    \/ Handle(r)
    \/ AttemptFails(r) \/ Retry(r) \/ CallFails(r)
    \/ Disconnect(r)
    \/ \E n \in Attempts : CarryOut(r, n)

Spec == Init /\ [][Next]_vars

\* Goroutines are scheduled; an attempt the SDK waits for is carried out unless
\* it fails, and one that failed is followed by the next or by an error.
\* Failures are not owed.
FairSpec ==
  /\ Spec
  /\ \A r \in Requests :
       /\ WF_vars(Handle(r))
       /\ WF_vars(Active(r) /\ \E n \in Attempts : n = attempt[r] /\ CarryOut(r, n))
       /\ WF_vars(reply[r] = "lost" /\ (Retry(r) \/ CallFails(r)))

------------------------------------------------------------------------------
(* Every variable keeps its type. *)
TypeOK ==
  /\ pool \subseteq Clients
  /\ request \in [Requests -> Request \cup {NoRequest}]
  /\ pc \in [Requests -> {"idle", "create", "creating", "delete", "deleting", "over"}]
  /\ attempt \in [Requests -> 0 .. MaxAttempts]
  /\ wire \subseteq Calls
  /\ reply \in [Requests -> {"none", "lost", "done", "missing", "refused"}]
  /\ witnessed \in [Calls -> SUBSET Clients]
  /\ effect \in [Calls -> SUBSET Clients]
  /\ answer \in [Requests -> {"none", "201", "204", "400", "404", "500", "dropped"}]
  /\ absent \subseteq Calls

(* Each attempt of the SDK keeps the promise of the API as if it were a      *)
(* request of its own that is dropped when the SDK stops waiting for it: the *)
(* last one is answered to the portal.                                       *)
CallRequest ==
  [call \in Calls |-> IF Made(call[1], call[2]) THEN request[call[1]] ELSE NoRequest]
CallAnswer ==
  [call \in Calls |->
     IF Superseded(call[1], call[2]) THEN "dropped"
     ELSE IF Made(call[1], call[2]) THEN answer[call[1]] ELSE "none"]

Registry == INSTANCE ClientRegistry WITH
  Requests <- Calls,
  Keys <- Names \cup Uids \cup {NoKey},
  NameOf <- [c \in Clients |-> c.name],
  KeysOf <- [c \in Clients |-> {c.uid}],
  registry <- pool,
  request <- CallRequest,
  answer <- CallAnswer

Promise == Registry!Spec

(* However often the SDK sends a call: a delete answered 204 or 404 leaves   *)
(* no client of that id, if it was there when the request came in.           *)
DeleteLeavesNone ==
  \A r \in Requests :
    request[r].kind = "delete" /\ answer[r] \in {"204", "404"}
      => witnessed[<<r, 1>>] \cap pool = {}

(* The client whose id and secret a 201 hands out is the one its last        *)
(* attempt created, and it is in the pool unless some delete asked for that  *)
(* id, although earlier attempts may leave clients of the same name.         *)
HandsOutItsClient ==
  \A r \in Requests :
    answer[r] = "201" =>
      LET call == <<r, attempt[r]>>
          client == [uid |-> call, name |-> request[r].key]
      IN  /\ effect[call] = {client}
          /\ \/ client \in pool
             \/ \E d \in Requests : request[d] = [kind |-> "delete", key |-> call]

(* "Creates an OAuth2 client": one.  Not so when the SDK sends the call a    *)
(* second time and both attempts are carried out.                            *)
CreatesOne ==
  \A r \in Requests :
    answer[r] = "201" => Cardinality(UNION {effect[<<r, n>>] : n \in Attempts}) = 1

(* Every request gets an answer, unless its connection is lost: the SDK does *)
(* not send a call for ever.                                                 *)
EveryRequestEnds == \A r \in Requests : Active(r) ~> answer[r] # "none"
==============================================================================
