-------------------------- MODULE KeycloakTokenProofs --------------------------
(* Proofs about the token cache, for any number of calls, any reuse window   *)
(* and any latency.                                                          *)
EXTENDS KeycloakToken, TLAPS

USE DEF Local, Returned

(* The type invariant is inductive by itself. *)
LEMMA TypeStep == TypeOK /\ [Next]_vars => TypeOK'
<1> SUFFICES ASSUME TypeOK, [Next]_vars PROVE TypeOK'
  OBVIOUS
<1> USE TokenAssumption DEF TypeOK, Header, Places, Empty, Old, Goto
<1>1. CASE UNCHANGED vars
  BY <1>1 DEF vars
<1>2. ASSUME NEW c \in Calls, OnBeforeRequest(c) PROVE TypeOK'
  BY <1>2 DEF OnBeforeRequest
<1>3. ASSUME NEW c \in Calls, Grant(c) PROVE TypeOK'
  BY <1>3 DEF Grant
<1>4. ASSUME NEW c \in Calls, RefreshFails(c) PROVE TypeOK'
  BY <1>4 DEF RefreshFails
<1>5. ASSUME NEW c \in Calls, RefreshUndecoded(c) PROVE TypeOK'
  BY <1>5 DEF RefreshUndecoded
<1>6. ASSUME NEW c \in Calls, Decode(c) PROVE TypeOK'
  BY <1>6 DEF Decode
<1>7. ASSUME NEW c \in Calls, Allocate(c) PROVE TypeOK'
  BY <1>7 DEF Allocate
<1>8. ASSUME NEW c \in Calls, StoreLen(c) PROVE TypeOK'
  BY <1>8 DEF StoreLen
<1>9. ASSUME NEW c \in Calls, StorePtr(c) PROVE TypeOK'
  BY <1>9 DEF StorePtr
<1>10. ASSUME NEW c \in Calls, Refreshed(c) PROVE TypeOK'
  BY <1>10 DEF Refreshed
<1>11. ASSUME NEW c \in Calls, SetAuthToken(c) PROVE TypeOK'
  BY <1>11 DEF SetAuthToken
<1>12. ASSUME Tick PROVE TypeOK'
  BY <1>12 DEF Tick, Later
<1> QED
  BY <1>1, <1>2, <1>3, <1>4, <1>5, <1>6, <1>7, <1>8, <1>9, <1>10, <1>11, <1>12
     DEF Next, Proceed

(* Every variable keeps its type, whatever the goroutines race for. *)
THEOREM TypeCorrect == Spec => []TypeOK
<1>1. Init => TypeOK
  <2> SUFFICES ASSUME Init PROVE TypeOK
    OBVIOUS
  <2>1. Empty \in Header
    BY DEF Empty, Header
  <2>2. since \in 0 .. Window + 1 /\ 0 \in 0 .. Old
    BY TokenAssumption DEF Init, Old
  <2> QED
    BY <2>1, <2>2 DEF Init, TypeOK, Places
<1> QED
  BY <1>1, TypeStep, PTL DEF Spec

------------------------------------------------------------------------------
(* How old the cached token can be, at every place of the hook.  Ages grow   *)
(* only while nobody computes, which is why a call that is between two       *)
(* stores of its own bounds the age of a token another call has stored.      *)

CachedWithin(bound) == cached.ptr # None => age[cached.ptr] <= bound

\* A token is MaxLatency old at most when it is stored.
YoungWhenStored ==
  \A c \in Calls :
    pc[c] \in {"granted", "allocating", "decoding", "storing", "stored"}
      => age[c] <= MaxLatency

\* A call that has stored, or whose struct was replaced under it, leaves a
\* cached token that was stored no earlier than the last tick.
YoungWhileStoring ==
  \A c \in Calls :
    \/ pc[c] = "stored"
    \/ pc[c] \in {"decoding", "storing"} /\ c \notin writers
    => CachedWithin(MaxLatency)

\* The clock of tokenRefreshed bounds the age of the token ...
ClockBoundsAge == since <= Window /\ ~stale => CachedWithin(since + MaxLatency)

\* ... and a call keeps what it has read off the clock.
FreshWhenReady ==
  \A c \in Calls : pc[c] = "ready" /\ ~stale => CachedWithin(Window + MaxLatency)

FreshInv == YoungWhenStored /\ YoungWhileStoring /\ ClockBoundsAge /\ FreshWhenReady

LEMMA FreshStep == TypeOK /\ FreshInv /\ [Next]_vars => FreshInv'
<1> SUFFICES ASSUME TypeOK, FreshInv, [Next]_vars PROVE FreshInv'
  OBVIOUS
<1> USE TokenAssumption DEF TypeOK, Header, Places, Old, Goto, FreshInv, YoungWhenStored,
      YoungWhileStoring, ClockBoundsAge, FreshWhenReady, CachedWithin
<1>1. CASE UNCHANGED vars
  BY <1>1 DEF vars
<1>2. ASSUME NEW c \in Calls, OnBeforeRequest(c) PROVE FreshInv'
  BY <1>2 DEF OnBeforeRequest
<1>3. ASSUME NEW c \in Calls, Grant(c) PROVE FreshInv'
  BY <1>3 DEF Grant
<1>4. ASSUME NEW c \in Calls, RefreshFails(c) PROVE FreshInv'
  BY <1>4 DEF RefreshFails
<1>5. ASSUME NEW c \in Calls, RefreshUndecoded(c) PROVE FreshInv'
  BY <1>5 DEF RefreshUndecoded
<1>6. ASSUME NEW c \in Calls, Decode(c) PROVE FreshInv'
  BY <1>6 DEF Decode
<1>7. ASSUME NEW c \in Calls, Allocate(c) PROVE FreshInv'
  BY <1>7 DEF Allocate, Empty
<1>8. ASSUME NEW c \in Calls, StoreLen(c) PROVE FreshInv'
  BY <1>8 DEF StoreLen
<1>9. ASSUME NEW c \in Calls, StorePtr(c) PROVE FreshInv'
  <2>1. CASE c \in writers  \* the token becomes c's, which has just arrived
    BY <1>9, <2>1 DEF StorePtr
  <2>2. CASE c \notin writers  \* nothing changes; the token there is as young
    BY <1>9, <2>2 DEF StorePtr
  <2> QED
    BY <2>1, <2>2
<1>10. ASSUME NEW c \in Calls, Refreshed(c) PROVE FreshInv'
  BY <1>10 DEF Refreshed
<1>11. ASSUME NEW c \in Calls, SetAuthToken(c) PROVE FreshInv'
  BY <1>11 DEF SetAuthToken
<1>12. ASSUME Tick PROVE FreshInv'
  <2>1. \A c \in Calls : pc'[c] = pc[c] /\ pc[c] \notin Local
    BY <1>12 DEF Tick
  <2>2. YoungWhenStored'
    BY <1>12, <2>1 DEF Tick, Later
  <2>3. YoungWhileStoring' /\ FreshWhenReady'
    BY <2>1
  <2>4. ClockBoundsAge'  \* the clock and the age advance together
    BY <1>12 DEF Tick, Later
  <2> QED
    BY <2>2, <2>3, <2>4
<1> QED
  BY <1>1, <1>2, <1>3, <1>4, <1>5, <1>6, <1>7, <1>8, <1>9, <1>10, <1>11, <1>12
     DEF Next, Proceed

(* No call is about to send a token older than the reuse window plus the     *)
(* time the token took to arrive, unless a refresh that stored nothing has   *)
(* restarted the clock: the data race on token and tokenRefreshed and late   *)
(* answers of the token endpoint do not prolong a token's use.               *)
THEOREM FreshTokens == Spec => []FreshUnlessRefreshFailed
<1>1. Init => FreshInv
  BY DEF Init, Empty, FreshInv, YoungWhenStored, YoungWhileStoring, ClockBoundsAge,
         FreshWhenReady, CachedWithin
<1>2. TypeOK /\ FreshInv => FreshUnlessRefreshFailed
  BY DEF TypeOK, Header, FreshInv, FreshWhenReady, CachedWithin, Whole,
         FreshUnlessRefreshFailed
<1> QED
  BY <1>1, <1>2, FreshStep, TypeCorrect, PTL DEF Spec

------------------------------------------------------------------------------
(* One call at a time in the hook: what the connector guarantees to a caller *)
(* that never overlaps its requests.                                         *)

Writing(c) == pc[c] \in {"decoding", "storing"}

OneInHook == \A c, d \in Calls : InHook(c) /\ InHook(d) => c = d

\* The only goroutine that writes does so where token points ...
WritesAreSeen ==
  \A c \in Calls :
    /\ Writing(c) => c \in writers
    /\ pc[c] = "storing" => cached.len = c

\* ... so once it is done the struct holds one token.
WholeUnlessWriting == allocated /\ (\A c \in Calls : ~Writing(c)) => Whole(cached)

SerialInv ==
  ~overlapped => OneInHook /\ WritesAreSeen /\ WholeUnlessWriting /\ CarriesGrantedToken

LEMMA SerialStep == TypeOK /\ SerialInv /\ [Next]_vars => SerialInv'
<1> SUFFICES ASSUME TypeOK, SerialInv, [Next]_vars PROVE SerialInv'
  OBVIOUS
<1> USE TokenAssumption DEF TypeOK, Places, Goto, SerialInv, OneInHook,
      WritesAreSeen, WholeUnlessWriting, CarriesGrantedToken, InHook, Writing, Whole
<1>1. CASE UNCHANGED vars
  BY <1>1 DEF vars
<1>2. ASSUME NEW c \in Calls, OnBeforeRequest(c) PROVE SerialInv'
  BY <1>2 DEF OnBeforeRequest
<1>3. ASSUME NEW c \in Calls, Grant(c) PROVE SerialInv'
  BY <1>3 DEF Grant
<1>4. ASSUME NEW c \in Calls, RefreshFails(c) PROVE SerialInv'
  BY <1>4 DEF RefreshFails
<1>5. ASSUME NEW c \in Calls, RefreshUndecoded(c) PROVE SerialInv'
  BY <1>5 DEF RefreshUndecoded
<1>6. ASSUME NEW c \in Calls, Decode(c) PROVE SerialInv'
  BY <1>6 DEF Decode
<1>7. ASSUME NEW c \in Calls, Allocate(c) PROVE SerialInv'
  BY <1>7 DEF Allocate
<1>8. ASSUME NEW c \in Calls, StoreLen(c) PROVE SerialInv'
  BY <1>8 DEF StoreLen, Header
<1>9. ASSUME NEW c \in Calls, StorePtr(c) PROVE SerialInv'
  BY <1>9 DEF StorePtr, Header
<1>10. ASSUME NEW c \in Calls, Refreshed(c) PROVE SerialInv'
  BY <1>10 DEF Refreshed
<1>11. ASSUME NEW c \in Calls, SetAuthToken(c) PROVE SerialInv'
  BY <1>11 DEF SetAuthToken, Header
<1>12. ASSUME Tick PROVE SerialInv'
  BY <1>12 DEF Tick
<1> QED
  BY <1>1, <1>2, <1>3, <1>4, <1>5, <1>6, <1>7, <1>8, <1>9, <1>10, <1>11, <1>12
     DEF Next, Proceed

(* As long as no two calls have been in the hook together, every request     *)
(* leaves with a token the endpoint granted, however many refreshes have     *)
(* failed or brought nothing: what fails with concurrent calls is due to the *)
(* missing lock alone.                                                       *)
THEOREM SerialTokens == Spec => []WholeUnlessOverlapped
<1>1. Init => SerialInv
  BY DEF Init, SerialInv, OneInHook, WritesAreSeen, WholeUnlessWriting,
         CarriesGrantedToken, InHook, Writing
<1>2. SerialInv => WholeUnlessOverlapped
  BY DEF SerialInv, WholeUnlessOverlapped
<1> QED
  BY <1>1, <1>2, SerialStep, TypeCorrect, PTL DEF Spec

------------------------------------------------------------------------------
(* A nil token. *)

\* A call past the decoding has pointed token to a struct, or found it so, and
\* nobody points it to nil again.
StoredMeansAllocated ==
  \A c \in Calls : pc[c] \in {"decoding", "storing", "stored"} => allocated

\* Without undecoded answers there is no other way to a nil token.
NilMeansUndecoded ==
  ~Undecoded => \A c \in Calls : pc[c] # "panicked" /\ (pc[c] = "ready" => allocated)

LEMMA AllocatedStep ==
  TypeOK /\ StoredMeansAllocated /\ NilMeansUndecoded /\ [Next]_vars
    => /\ StoredMeansAllocated' /\ NilMeansUndecoded'
       /\ allocated => allocated'
       /\ \A c \in Calls :
            pc'[c] = "ready" /\ ~allocated' /\ pc[c] # "ready" => pc[c] = "refreshing"
<1> SUFFICES ASSUME TypeOK, StoredMeansAllocated, NilMeansUndecoded, [Next]_vars
             PROVE  /\ StoredMeansAllocated' /\ NilMeansUndecoded'
                    /\ allocated => allocated'
                    /\ \A c \in Calls :
                         pc'[c] = "ready" /\ ~allocated' /\ pc[c] # "ready" => pc[c] = "refreshing"
  OBVIOUS
<1> USE TokenAssumption DEF TypeOK, Goto, StoredMeansAllocated, NilMeansUndecoded
<1>1. CASE UNCHANGED vars
  BY <1>1 DEF vars
<1>2. ASSUME NEW c \in Calls, OnBeforeRequest(c) PROVE allocated' = allocated /\ \A d \in Calls :
        pc'[d] = IF d = c THEN IF ~allocated \/ since > Window THEN "refreshing" ELSE "ready" ELSE pc[d]
  BY <1>2 DEF OnBeforeRequest
<1>3. CASE \E c \in Calls : Grant(c) \/ RefreshFails(c) \/ RefreshUndecoded(c)
  BY <1>3 DEF Grant, RefreshFails, RefreshUndecoded
<1>4. CASE \E c \in Calls : Decode(c) \/ Allocate(c)
  BY <1>4 DEF Decode, Allocate
<1>5. CASE \E c \in Calls : StoreLen(c) \/ StorePtr(c) \/ Refreshed(c)
  BY <1>5 DEF StoreLen, StorePtr, Refreshed
<1>6. CASE \E c \in Calls : SetAuthToken(c)
  BY <1>6 DEF SetAuthToken
<1>7. CASE Tick
  BY <1>7 DEF Tick
<1> QED
  BY <1>1, <1>2, <1>3, <1>4, <1>5, <1>6, <1>7 DEF Next, Proceed

LEMMA AllocatedInvariant == Spec => [](StoredMeansAllocated /\ NilMeansUndecoded)
<1>1. Init => StoredMeansAllocated /\ NilMeansUndecoded
  BY DEF Init, StoredMeansAllocated, NilMeansUndecoded
<1> QED
  BY <1>1, AllocatedStep, TypeCorrect, PTL DEF Spec

(* A call that comes to use a nil token comes straight from an exchange of   *)
(* its own that stored none: other calls, racing or failing, do not take a   *)
(* token away.                                                               *)
THEOREM NilIsOwn == Spec => NilOnlyFromOwnRefresh
<1>1. TypeOK /\ StoredMeansAllocated /\ NilMeansUndecoded /\ [Next]_vars
        => [\A c \in Calls :
              pc'[c] = "ready" /\ ~allocated' /\ pc[c] # "ready" => pc[c] = "refreshing"]_vars
  BY AllocatedStep
<1> QED
  BY <1>1, AllocatedInvariant, TypeCorrect, PTL DEF Spec, NilOnlyFromOwnRefresh

(* If every success of the token endpoint is JSON, no call ever panics at a  *)
(* nil token, however many of them race for the first one.                   *)
THEOREM NoPanicIfDecoded ==
  ASSUME ~Undecoded
  PROVE  Spec => [](\A c \in Calls : pc[c] # "panicked")
<1>1. NilMeansUndecoded => \A c \in Calls : pc[c] # "panicked"
  BY DEF NilMeansUndecoded
<1> QED
  BY <1>1, AllocatedInvariant, PTL
==============================================================================
