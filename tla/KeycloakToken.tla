----------------------------- MODULE KeycloakToken -----------------------------
(***************************************************************************)
(* The access-token cache of the Keycloak connector: the closure that      *)
(* NewStrictServerHandler registers with resty's OnBeforeRequest, which    *)
(* runs in the goroutine of every call to Keycloak's management API.       *)
(* The goroutines share the closure's variables token and tokenRefreshed   *)
(* without any lock.                                                       *)
(*                                                                         *)
(* A token is named by the call whose refresh it was granted to.  Decoding *)
(* a token response into &token allocates a KeycloakToken when token is    *)
(* nil and otherwise overwrites the struct token already points to, field  *)
(* in place.  AccessToken is a Go string, a length and a pointer stored    *)
(* one after the other, so a goroutine can see one half of two writes.     *)
(***************************************************************************)
EXTENDS Integers

CONSTANTS
  Calls,       \* calls to the management API, each made once
  None,        \* "no call": the half of an empty string
  Window,      \* how long a token is reused: the 60 seconds of the code
  MaxLatency,  \* longest time from the grant of a token to its arrival here
  Undecoded    \* TRUE: the endpoint may answer with a success that is not JSON

ASSUME TokenAssumption ==
  /\ None \notin Calls
  /\ Window \in Nat
  /\ MaxLatency \in Nat
  /\ Undecoded \in BOOLEAN

VARIABLES
  allocated,  \* token # nil
  cached,     \* token.AccessToken: whose length and whose pointer it holds
  writers,    \* calls decoding into the struct token points to
  since,      \* time.Since(tokenRefreshed), counted up to Window + 1
  pc,         \* where each call is in the hook
  age,        \* age of the token granted to each call, counted up to Old
  carried,    \* token.AccessToken as SetAuthToken copied it
  stale,      \* history: a refresh that stored no token has restarted the
              \* clock since the last token was stored
  overlapped  \* history: a call has entered the hook while another was in it

vars == <<allocated, cached, writers, since, pc, age, carried, stale, overlapped>>

Empty == [len |-> None, ptr |-> None]
Whole(s) == s.len = s.ptr /\ s.len # None

\* Ages beyond this one are not told apart by the code or by a property.
Old == Window + MaxLatency + 1
\* A unit of time later, counted up to a bound.
Later(t, most) == IF t < most THEN t + 1 ELSE most

\* Computing: no network is waited for, so no time passes on the clock's scale.
Local    == {"allocating", "decoding", "storing", "stored", "ready"}
\* The hook has returned: an error, a panic at a nil token, or a request to send.
Returned == {"failed", "panicked", "sent"}
Places   == {"idle", "refreshing", "granted"} \cup Local \cup Returned

InHook(c) == pc[c] \notin {"idle"} \cup Returned

Goto(c, place) == pc' = [pc EXCEPT ![c] = place]

Init ==
  /\ allocated = FALSE
  /\ cached = Empty
  /\ writers = {}
  /\ since = Window + 1
  /\ pc = [c \in Calls |-> "idle"]
  /\ age = [c \in Calls |-> 0]
  /\ carried = [c \in Calls |-> Empty]
  /\ stale = FALSE
  /\ overlapped = FALSE

------------------------------------------------------------------------------
(* Mutant: a token is reused for ever. *)
OnBeforeRequestNoClock(c) ==
  /\ pc[c] = "idle"
  /\ overlapped' = (overlapped \/ \E d \in Calls : InHook(d))
  /\ Goto(c, IF allocated THEN "ready" ELSE "refreshing")
  /\ UNCHANGED <<allocated, cached, writers, since, age, carried, stale>>

\* Mutant: the clock alone decides.
OnBeforeRequestClockOnly(c) ==
  /\ pc[c] = "idle"
  /\ overlapped' = (overlapped \/ \E d \in Calls : InHook(d))
  /\ Goto(c, IF since > Window THEN "refreshing" ELSE "ready")
  /\ UNCHANGED <<allocated, cached, writers, since, age, carried, stale>>

(* The hook starts and decides between reuse and refresh. *)
OnBeforeRequest(c) ==
  /\ pc[c] = "idle"
  /\ overlapped' = (overlapped \/ \E d \in Calls : InHook(d))
  /\ Goto(c, IF ~allocated \/ since > Window THEN "refreshing" ELSE "ready")
  /\ UNCHANGED <<allocated, cached, writers, since, age, carried, stale>>

(* The token endpoint grants a token; its response is on the way. *)
Grant(c) ==
  /\ pc[c] = "refreshing"
  /\ Goto(c, "granted")
  /\ age' = [age EXCEPT ![c] = 0]
  /\ UNCHANGED <<allocated, cached, writers, since, carried, stale, overlapped>>

(* Mutant: token is no pointer, so a failed refresh leaves an empty one.     *)
RefreshFailsToEmpty(c) ==
  /\ pc[c] \in {"refreshing", "granted"}
  /\ Goto(c, "failed")
  /\ allocated' = TRUE
  /\ since' = 0
  /\ stale' = TRUE
  /\ UNCHANGED <<cached, writers, age, carried, overlapped>>

(* Mutant: the hook tries again instead of returning the error. *)
RefreshFailsRetry(c) ==
  /\ pc[c] \in {"refreshing", "granted"}
  /\ Goto(c, "refreshing")
  /\ since' = 0
  /\ stale' = TRUE
  /\ UNCHANGED <<allocated, cached, writers, age, carried, overlapped>>

(* The exchange fails or the endpoint refuses: the clock is restarted all    *)
(* the same, and the call returns the error.                                 *)
RefreshFails(c) ==
  /\ pc[c] \in {"refreshing", "granted"}
  /\ Goto(c, "failed")
  /\ since' = 0
  /\ stale' = TRUE
  /\ UNCHANGED <<allocated, cached, writers, age, carried, overlapped>>

(* A success whose body resty does not decode (its type is not JSON): the    *)
(* clock is restarted, no token is stored, and the call goes on.             *)
RefreshUndecoded(c) ==
  /\ Undecoded
  /\ pc[c] = "refreshing"
  /\ Goto(c, "ready")
  /\ since' = 0
  /\ stale' = TRUE
  /\ UNCHANGED <<allocated, cached, writers, age, carried, overlapped>>

(* The response arrives and the decoder looks at token. *)
Decode(c) ==
  /\ pc[c] = "granted"
  /\ Goto(c, IF allocated THEN "decoding" ELSE "allocating")
  /\ writers' = IF allocated THEN writers \cup {c} ELSE writers
  /\ UNCHANGED <<allocated, cached, since, age, carried, stale, overlapped>>

(* token was nil when c looked: point it to a new struct, whoever else has   *)
(* done so meanwhile.                                                        *)
Allocate(c) ==
  /\ pc[c] = "allocating"
  /\ Goto(c, "decoding")
  /\ allocated' = TRUE
  /\ cached' = Empty
  /\ writers' = {c}
  /\ UNCHANGED <<since, age, carried, stale, overlapped>>

(* The two halves of the string, in the order compiled code stores them.  A  *)
(* writer of a struct that token no longer points to changes nothing that    *)
(* can be seen.                                                              *)
StoreLen(c) ==
  /\ pc[c] = "decoding"
  /\ Goto(c, "storing")
  /\ cached' = IF c \in writers THEN [cached EXCEPT !.len = c] ELSE cached
  /\ UNCHANGED <<allocated, writers, since, age, carried, stale, overlapped>>

StorePtr(c) ==
  /\ pc[c] = "storing"
  /\ Goto(c, "stored")
  /\ cached' = IF c \in writers THEN [cached EXCEPT !.ptr = c] ELSE cached
  /\ stale' = (stale /\ c \notin writers)
  /\ UNCHANGED <<allocated, writers, since, age, carried, overlapped>>

(* Mutant: the time a token expires is kept as the time it was got. *)
RefreshedAsExpiry(c) ==
  /\ pc[c] = "stored"
  /\ Goto(c, "ready")
  /\ since' = 0 - Window
  /\ UNCHANGED <<allocated, cached, writers, age, carried, stale, overlapped>>

(* tokenRefreshed = time.Now() *)
Refreshed(c) ==
  /\ pc[c] = "stored"
  /\ Goto(c, "ready")
  /\ since' = 0
  /\ UNCHANGED <<allocated, cached, writers, age, carried, stale, overlapped>>

(* r.SetAuthToken(token.AccessToken), a panic when token is nil. *)
SetAuthToken(c) ==
  /\ pc[c] = "ready"
  /\ Goto(c, IF allocated THEN "sent" ELSE "panicked")
  /\ carried' = [carried EXCEPT ![c] = IF allocated THEN cached ELSE Empty]
  /\ UNCHANGED <<allocated, cached, writers, since, age, stale, overlapped>>

(* A unit of time passes: only while every goroutine waits for the network,  *)
(* and only while every granted token can still arrive within MaxLatency.    *)
Tick ==
  /\ \A c \in Calls :
       /\ pc[c] \notin Local
       /\ pc[c] = "granted" => age[c] < MaxLatency
  /\ since' = Later(since, Window + 1)
  /\ age' = [c \in Calls |->
               IF pc[c] \in {"idle", "refreshing"} THEN age[c] ELSE Later(age[c], Old)]
  /\ UNCHANGED <<allocated, cached, writers, pc, carried, stale, overlapped>>

\* What happens to a call once its hook has started.
Proceed(c) ==
  \/ Grant(c) \/ RefreshFails(c) \/ RefreshUndecoded(c)
  \/ Decode(c) \/ Allocate(c) \/ StoreLen(c) \/ StorePtr(c)
  \/ Refreshed(c) \/ SetAuthToken(c)

Next ==
  \/ \E c \in Calls : OnBeforeRequest(c) \/ Proceed(c)
  \/ Tick

Spec == Init /\ [][Next]_vars

\* Goroutines are scheduled, and an exchange with Keycloak ends some day, with
\* an answer or an error.
FairSpec == Spec /\ \A c \in Calls : WF_vars(Proceed(c))

------------------------------------------------------------------------------
Header == [len : Calls \cup {None}, ptr : Calls \cup {None}]

(* Every variable keeps its type. *)
TypeOK ==
  /\ allocated \in BOOLEAN
  /\ cached \in Header
  /\ writers \subseteq Calls
  /\ since \in 0 .. Window + 1
  /\ pc \in [Calls -> Places]
  /\ age \in [Calls -> 0 .. Old]
  /\ carried \in [Calls -> Header]
  /\ stale \in BOOLEAN
  /\ overlapped \in BOOLEAN

(* A call about to send finds a token no older than the reuse window plus    *)
(* the time the token took to arrive, whatever other calls refresh           *)
(* meanwhile and in whatever order their answers arrive, unless a refresh    *)
(* that stored nothing restarted the clock in between.                       *)
FreshUnlessRefreshFailed ==
  \A c \in Calls :
    pc[c] = "ready" /\ Whole(cached) /\ ~stale => age[cached.ptr] <= Window + MaxLatency

(* A call comes to use a nil token, and panics, only after an exchange of    *)
(* its own that brought neither a token nor an error: no failure, and no     *)
(* race, of other calls takes the token away from it.                        *)
NilOnlyFromOwnRefresh ==
  [][\A c \in Calls :
       pc'[c] = "ready" /\ ~allocated' /\ pc[c] # "ready" => pc[c] = "refreshing"]_vars

(* The comment on the test of tokenRefreshed: a token is reused only if it   *)
(* was got less than a minute ago.  Not so: a failed refresh restarts the    *)
(* clock, and the next call reuses the old token.                            *)
ReusedWithinAMinute ==
  \A c \in Calls :
    pc[c] = "ready" /\ Whole(cached) => age[cached.ptr] <= Window + MaxLatency

(* Every request leaves with a token that the endpoint granted, neither      *)
(* empty nor half of one token and half of another.                          *)
CarriesGrantedToken ==
  \A c \in Calls : pc[c] = "sent" => Whole(carried[c])

(* ... which it does as long as no two calls have been in the hook together, *)
(* however many refreshes fail: what goes wrong is due to the missing lock.  *)
WholeUnlessOverlapped == ~overlapped => CarriesGrantedToken

(* Every call that waits for a token gets out of the hook. *)
HookReturns ==
  \A c \in Calls : pc[c] = "refreshing" ~> pc[c] \in Returned
==============================================================================
