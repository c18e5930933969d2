------------------------ MODULE RemoteVerifierProofs ------------------------
(***************************************************************************)
(* Theorems about RemoteVerifier, for any number of requests and keys and  *)
(* any lifetimes: its type, and the two bounds on how long a verifier may  *)
(* hold the wrong key.                                                     *)
(***************************************************************************)
EXTENDS RemoteVerifier, TLAPS

(* What a tick does to an age stays within its bound.                      *)
LEMMA OlderType ==
    ASSUME NEW bound \in Nat, NEW ticks \in 0 .. bound
    PROVE  Older(ticks, bound) \in 0 .. bound
BY DEF Older

LEMMA VerdictType ==
    ASSUME NEW token \in Token, NEW k
    PROVE  Verdict(token, k) \in CallState
BY DEF Verdict, CallState

(* Waking the calls that wait keeps their type, whatever they are told.    *)
LEMMA WakesType ==
    ASSUME TypeOK, NEW to \in [Token -> CallState], Wakes(to)
    PROVE  call' \in [Requests -> CallState]
<1>1. ASSUME NEW r \in Requests, call[r].at = "waiting"
      PROVE  call[r].token \in Token
  BY <1>1 DEF TypeOK, CallState
<1>2. ASSUME NEW r \in Requests
      PROVE  (IF call[r].at = "waiting" THEN to[call[r].token] ELSE call[r]) \in CallState
  BY <1>1 DEF TypeOK
<1> QED
  BY <1>2 DEF Wakes

LEMMA TypeStep ==
    ASSUME TypeOK, [Next]_vars
    PROVE  TypeOK'
<1> USE DEF TypeOK
<1>1. CASE UNCHANGED vars
  BY <1>1 DEF vars
<1>2. ASSUME NEW r \in Requests, NEW token \in Issued, VerifyCached(r, token)
      PROVE  TypeOK'
  <2>1. Verdict(token, cache.key) \in CallState
    BY VerdictType DEF Issued
  <2> QED
    BY <1>2, <2>1 DEF VerifyCached, provider
<1>3. ASSUME NEW r \in Requests, NEW token \in Issued, VerifyReloads(r, token)
      PROVE  TypeOK'
  <2>1. [at |-> "waiting", token |-> token] \in CallState
    BY DEF Issued, CallState
  <2>2. [key |-> None, age |-> 0] \in [key : Keys \cup {None}, age : 0 .. Timeout]
    BY VerifierAssumption
  <2> QED
    BY <1>3, <2>1, <2>2 DEF VerifyReloads, provider
<1>4. ASSUME NEW r \in Requests, Respond(r)
      PROVE  TypeOK'
  <2>1. Idle \in CallState
    BY DEF Idle, CallState
  <2> QED
    BY <1>4, <2>1 DEF Respond, provider
<1>5. CASE FetchServed
  <2>1. [fetch EXCEPT !.key = key] \in [key : Keys \cup {None}, age : 0 .. Timeout]
    BY <1>5 DEF FetchServed
  <2> QED
    BY <1>5, <2>1 DEF FetchServed, provider
<1>6. CASE FetchArrives
  <2>1. [key |-> fetch.key, age |-> 0] \in [key : Keys, age : 0 .. MaxAge]
    BY <1>6, VerifierAssumption DEF FetchArrives
  <2>2. [token \in Token |-> Verdict(token, fetch.key)] \in [Token -> CallState]
    BY VerdictType
  <2>3. call' \in [Requests -> CallState]
    BY <1>6, <2>2, WakesType DEF FetchArrives
  <2> QED
    BY <1>6, <2>1, <2>3 DEF FetchArrives, provider
<1>7. CASE FetchFails
  <2>1. [token \in Token |-> [at |-> "unreachable", token |-> token]] \in [Token -> CallState]
    BY DEF CallState
  <2>2. call' \in [Requests -> CallState]
    BY <1>7, <2>1, WakesType DEF FetchFails
  <2> QED
    BY <1>7, <2>2 DEF FetchFails, KeepsKeySet, provider
<1>8. CASE ProviderStops \/ StartsWithOldKey
  BY <1>8 DEF ProviderStops, StartsWithOldKey
<1>9. CASE StartsWithNewKey
  <2>1. key + 1 \in Keys /\ 0 \in 0 .. Horizon
    BY <1>9, VerifierAssumption DEF StartsWithNewKey, Keys, Horizon
  <2> QED
    BY <1>9, <2>1 DEF StartsWithNewKey
<1>10. CASE AppRestarts
  <2>1. Idle \in CallState
    BY DEF Idle, CallState
  <2> QED
    BY <1>10, <2>1 DEF AppRestarts, provider
<1>11. CASE Tick
  <2>1. Horizon \in Nat /\ MaxAge \in Nat /\ Timeout \in Nat
    BY VerifierAssumption DEF Horizon
  <2>2. \A k \in Keys : (IF k <= key THEN Older(age[k], Horizon) ELSE age[k]) \in 0 .. Horizon
    BY <2>1, OlderType
  <2>3. cache # None => [cache EXCEPT !.age = Older(cache.age, MaxAge)] \in [key : Keys, age : 0 .. MaxAge]
    <3>1. cache # None => Older(cache.age, MaxAge) \in 0 .. MaxAge
      BY <2>1, OlderType
    <3> QED
      BY <3>1
  <2>4. fetch # None => [fetch EXCEPT !.age = fetch.age + 1]
                           \in [key : Keys \cup {None}, age : 0 .. Timeout]
    <3>1. fetch # None => fetch.age + 1 \in 0 .. Timeout
      BY <1>11, <2>1 DEF Tick
    <3> QED
      BY <3>1
  <2> QED
    BY <1>11, <2>2, <2>3, <2>4 DEF Tick
<1> QED
  BY <1>1, <1>2, <1>3, <1>4, <1>5, <1>6, <1>7, <1>8, <1>9, <1>10, <1>11 DEF Next, FetchSettles

(* Every reachable state has the declared shape.                           *)
THEOREM TypeCorrect == Spec => []TypeOK
<1>1. Init => TypeOK
  BY VerifierAssumption DEF Init, TypeOK, Keys, Horizon, CallState, Idle
<1> QED
  BY <1>1, TypeStep, PTL DEF Spec

-----------------------------------------------------------------------------
(* The two bounds.                                                         *)

(* A key set that is not of the provider's key was answered before the key *)
(* changed: both keys have been what they are for no longer than the fetch *)
(* took, and for the cache than it took and lay there.                     *)
StaleFor(k, ticks) == age[k] <= ticks /\ age[key] <= ticks

KeySets ==
    /\ (fetch # None /\ fetch.key # None)
       => fetch.key <= key /\ (fetch.key # key => StaleFor(fetch.key, fetch.age))
    /\ cache # None
       => /\ cache.key <= key
          /\ (cache.key # key /\ cache.age < MaxAge)
             => StaleFor(cache.key, cache.age + Timeout)

(* Time passes for a key set and for its keys alike.                       *)
LEMMA TickStep ==
    ASSUME TypeOK, KeySets, Tick
    PROVE  KeySets'
<1>1. /\ MaxAge \in Nat /\ Timeout \in Nat /\ Horizon \in Nat
      /\ key \in Nat /\ Keys \subseteq Nat /\ key \in Keys
  BY VerifierAssumption DEF Horizon, Keys, TypeOK
<1>2. \A k \in Keys : age'[k] \in Nat /\ age[k] \in Nat /\ age'[k] <= age[k] + 1
  BY <1>1 DEF Tick, TypeOK, Older
<1>3. key' = key
  BY DEF Tick
<1>4. ASSUME fetch' # None, fetch'.key # None
      PROVE  /\ fetch'.key <= key
             /\ fetch'.key # key => age'[fetch'.key] <= fetch'.age /\ age'[key] <= fetch'.age
  <2>1. fetch # None /\ fetch' = [fetch EXCEPT !.age = fetch.age + 1]
    BY <1>4 DEF Tick
  <2>2. fetch.key \in Keys \cup {None} /\ fetch.age \in Nat
    BY <1>1, <2>1 DEF TypeOK
  <2>3. fetch'.key = fetch.key /\ fetch'.age = fetch.age + 1
    BY <2>1 DEF TypeOK
  <2>4. fetch.key # None /\ fetch.key \in Keys
    BY <1>4, <2>2, <2>3
  <2>5. fetch.key <= key /\ (fetch.key # key => StaleFor(fetch.key, fetch.age))
    BY <2>1, <2>4 DEF KeySets
  <2>6. fetch.key # key => age[fetch.key] <= fetch.age /\ age[key] <= fetch.age
    BY <2>5 DEF StaleFor
  <2>7. /\ age'[fetch.key] \in Nat /\ age[fetch.key] \in Nat
        /\ age'[fetch.key] <= age[fetch.key] + 1
        /\ age'[key] \in Nat /\ age[key] \in Nat /\ age'[key] <= age[key] + 1
    BY <1>1, <1>2, <2>4
  <2>8. fetch.key # key => age'[fetch.key] <= fetch.age + 1 /\ age'[key] <= fetch.age + 1
    BY <2>2, <2>6, <2>7
  <2> QED
    BY <2>3, <2>5, <2>8
<1>5. ASSUME cache' # None
      PROVE  /\ cache'.key <= key
             /\ (cache'.key # key /\ cache'.age < MaxAge)
                => /\ age'[cache'.key] <= cache'.age + Timeout
                   /\ age'[key] <= cache'.age + Timeout
  <2>1. cache # None /\ cache' = [cache EXCEPT !.age = Older(cache.age, MaxAge)]
    BY <1>5 DEF Tick
  <2>2. cache.key \in Keys /\ cache.age \in 0 .. MaxAge
    BY <2>1 DEF TypeOK
  <2>3. cache'.key = cache.key /\ cache'.age = Older(cache.age, MaxAge)
    BY <2>1 DEF TypeOK
  <2>4. cache'.age < MaxAge => cache.age < MaxAge /\ cache'.age = cache.age + 1
    BY <1>1, <2>2, <2>3 DEF Older
  <2> QED
    BY <1>1, <1>2, <1>3, <2>1, <2>2, <2>3, <2>4 DEF KeySets, StaleFor
<1> QED
  BY <1>3, <1>4, <1>5 DEF KeySets, StaleFor

(* A new key makes stale, as of now, what is held of the old one.          *)
LEMMA NewKeyStep ==
    ASSUME TypeOK, KeySets, StartsWithNewKey
    PROVE  KeySets'
<1>1. /\ MaxAge \in Nat /\ Timeout \in Nat
      /\ Keys \subseteq Nat /\ key \in Keys /\ key \in Nat /\ key + 1 \in Keys
      /\ \A k \in Keys : age[k] \in Nat
  BY VerifierAssumption DEF Keys, TypeOK, StartsWithNewKey, Horizon
<1>2. /\ key' = key + 1 /\ age'[key] = 0 /\ age'[key + 1] = 0
      /\ \A k \in Keys : age'[k] = age[k] \/ age'[k] = 0
      /\ cache' = cache /\ fetch' = fetch
  BY <1>1 DEF StartsWithNewKey, TypeOK
<1>3. ASSUME fetch # None, fetch.key # None
      PROVE  /\ fetch.key <= key'
             /\ fetch.key # key' => age'[fetch.key] <= fetch.age /\ age'[key'] <= fetch.age
  <2>1. fetch.key \in Keys /\ fetch.age \in Nat
    BY <1>1, <1>3 DEF TypeOK
  <2>2. fetch.key <= key /\ (fetch.key # key => StaleFor(fetch.key, fetch.age))
    BY <1>3 DEF KeySets
  <2>3. age'[key'] = 0 /\ 0 <= fetch.age /\ fetch.key <= key'
    <3>1. fetch.key \in Nat /\ 0 <= fetch.age
      <4>1. fetch.key \in Nat
        BY <1>1, <2>1
      <4>2. fetch.age \in Nat /\ Timeout \in Nat
        BY <1>1, <2>1
      <4> QED
        BY <4>1, <4>2
    <3>2. fetch.key <= key + 1
      BY <1>1, <2>2, <3>1
    <3>3. key' = key + 1 /\ age'[key + 1] = 0
      BY <1>2
    <3> QED
      BY <3>1, <3>2, <3>3
  <2>4. CASE fetch.key = key
    BY <1>2, <2>3, <2>4
  <2>5. CASE fetch.key # key
    <3>1. age[fetch.key] <= fetch.age
      BY <2>2, <2>5 DEF StaleFor
    <3>2. age'[fetch.key] = age[fetch.key] \/ age'[fetch.key] = 0
      BY <1>2, <2>1
    <3> QED
      BY <2>3, <3>1, <3>2
  <2> QED
    BY <2>4, <2>5
<1>4. ASSUME cache # None
      PROVE  /\ cache.key <= key'
             /\ (cache.key # key' /\ cache.age < MaxAge)
                => /\ age'[cache.key] <= cache.age + Timeout
                   /\ age'[key'] <= cache.age + Timeout
  <2>1. cache.key \in Keys /\ cache.age \in Nat
    BY <1>1, <1>4 DEF TypeOK
  <2>2. /\ cache.key <= key
        /\ (cache.key # key /\ cache.age < MaxAge)
           => StaleFor(cache.key, cache.age + Timeout)
    BY <1>4 DEF KeySets
  <2>3. age'[key'] = 0 /\ 0 <= cache.age + Timeout /\ cache.key <= key'
    <3>1. cache.key \in Nat /\ 0 <= cache.age + Timeout
      <4>1. cache.key \in Nat
        BY <1>1, <2>1
      <4>2. cache.age \in Nat /\ Timeout \in Nat
        BY <1>1, <2>1
      <4> QED
        BY <4>1, <4>2
    <3>2. cache.key <= key + 1
      BY <1>1, <2>2, <3>1
    <3>3. key' = key + 1 /\ age'[key + 1] = 0
      BY <1>2
    <3> QED
      BY <3>1, <3>2, <3>3
  <2>4. CASE cache.key = key
    BY <1>2, <2>3, <2>4
  <2>5. CASE cache.key # key
    <3>1. cache.age < MaxAge => age[cache.key] <= cache.age + Timeout
      BY <2>2, <2>5 DEF StaleFor
    <3>2. age'[cache.key] = age[cache.key] \/ age'[cache.key] = 0
      BY <1>2, <2>1
    <3> QED
      BY <2>3, <3>1, <3>2
  <2> QED
    BY <2>4, <2>5
<1> QED
  BY <1>2, <1>3, <1>4 DEF KeySets, StaleFor

LEMMA KeySetsStep ==
    ASSUME TypeOK, KeySets, [Next]_vars
    PROVE  KeySets'
<1>1. CASE UNCHANGED <<key, age, cache, fetch>>
  BY <1>1 DEF KeySets, StaleFor
<1>2. ASSUME NEW r \in Requests, NEW token \in Issued, VerifyReloads(r, token)
      PROVE  KeySets'
  BY <1>2 DEF VerifyReloads, provider, KeySets, StaleFor
<1>3. CASE FetchServed
  <2>1. /\ fetch # None /\ fetch' = [fetch EXCEPT !.key = key] /\ key \in Nat
        /\ UNCHANGED <<key, age, cache>>
    BY <1>3, VerifierAssumption DEF FetchServed, provider, TypeOK, Keys
  <2>2. fetch'.key = key
    BY <2>1 DEF TypeOK
  <2> QED
    BY <2>1, <2>2 DEF KeySets, StaleFor
<1>4. CASE FetchArrives
  <2>1. /\ fetch # None /\ fetch.key # None
        /\ cache' = [key |-> fetch.key, age |-> 0] /\ fetch' = None /\ UNCHANGED <<key, age>>
    BY <1>4 DEF FetchArrives, provider
  <2>2. /\ fetch.key \in Keys /\ fetch.age \in 0 .. Timeout /\ Timeout \in Nat
        /\ age[fetch.key] \in Nat /\ age[key] \in Nat
    BY <2>1, VerifierAssumption DEF TypeOK, Keys, Horizon
  <2>3. fetch.key <= key /\ (fetch.key # key => StaleFor(fetch.key, fetch.age))
    BY <2>1 DEF KeySets
  <2>4. cache'.key = fetch.key /\ cache'.age = 0
    BY <2>1
  <2> QED
    BY <2>1, <2>2, <2>3, <2>4 DEF KeySets, StaleFor
<1>5. CASE FetchFails
  BY <1>5 DEF FetchFails, KeepsKeySet, provider, KeySets, StaleFor
<1>6. CASE AppRestarts
  BY <1>6 DEF AppRestarts, provider, KeySets
<1> QED
  BY <1>1, <1>2, <1>3, <1>4, <1>5, <1>6, TickStep, NewKeyStep
  DEF Next, FetchSettles, VerifyCached, Respond, ProviderStops, StartsWithOldKey, provider, vars

LEMMA KeySetsHold == Spec => [](TypeOK /\ KeySets)
<1>1. Init => KeySets
  BY DEF Init, KeySets
<1>2. TypeOK /\ KeySets /\ [Next]_vars => KeySets'
  BY KeySetsStep
<1> QED
  BY <1>1, <1>2, TypeCorrect, PTL DEF Spec

(* A key set may give a verdict if what it misses is recent.               *)
Timely(token, k) ==
    /\ k # key => age[k] < MaxAge + Timeout
    /\ (k # key /\ token.key = key) => age[key] < Patience + Timeout

(* The cached set gives verdicts while it is fresh, and refuses a token    *)
(* that names another key only while it is very fresh.                     *)
LEMMA CachedSetIsTimely ==
    ASSUME TypeOK, KeySets, NEW r \in Requests, NEW token \in Issued, VerifyCached(r, token)
    PROVE  cache.key \in Keys /\ Timely(token, cache.key)
<1>1. /\ cache # None /\ cache.age < MaxAge
      /\ (named => token.key = cache.key) \/ cache.age < Cooldown
  BY DEF VerifyCached, Fresh, Matches, CoolingDown
<1>2. cache.key \in Keys /\ cache.age \in Nat /\ MaxAge \in Nat /\ Timeout \in Nat /\ Cooldown \in Nat
  BY <1>1, VerifierAssumption DEF TypeOK
<1>3. key \in Keys /\ (\A k \in Keys : age[k] \in Nat)
  BY VerifierAssumption DEF TypeOK, Keys, Horizon
<1>4. cache.key # key => /\ age[cache.key] <= cache.age + Timeout
                         /\ age[key] <= cache.age + Timeout
  BY <1>1 DEF KeySets, StaleFor
<1>5. cache.key # key => age[cache.key] < MaxAge + Timeout
  <2>1. age[cache.key] \in Nat
    BY <1>2, <1>3
  <2> QED
    BY <1>1, <1>2, <1>4, <2>1
<1>6. (cache.key # key /\ token.key = key) => age[key] < Patience + Timeout
  <2>1. age[key] \in Nat
    BY <1>3
  <2>2. CASE named
    <3>1. (cache.key # key /\ token.key = key) => cache.age < Cooldown
      BY <1>1, <2>2
    <3> QED
      BY <1>2, <1>4, <2>1, <2>2, <3>1 DEF Patience
  <2>3. CASE ~named
    BY <1>1, <1>2, <1>4, <2>1, <2>3 DEF Patience
  <2> QED
    BY <2>2, <2>3
<1> QED
  BY <1>2, <1>5, <1>6 DEF Timely

(* The set that arrives is no older than a fetch may take.                 *)
LEMMA ArrivingSetIsTimely ==
    ASSUME TypeOK, KeySets, FetchArrives, NEW token \in Token
    PROVE  fetch.key \in Keys /\ Timely(token, fetch.key)
<1>1. fetch # None /\ fetch.key # None
  BY DEF FetchArrives
<1>2. fetch.key \in Keys /\ fetch.age \in 0 .. Timeout
  BY <1>1 DEF TypeOK
<1>3. key \in Keys /\ (\A k \in Keys : age[k] \in Nat)
  BY VerifierAssumption DEF TypeOK, Keys, Horizon
<1>4. fetch.key # key => age[fetch.key] <= fetch.age /\ age[key] <= fetch.age
  BY <1>1 DEF KeySets, StaleFor
<1>5. /\ age[fetch.key] \in Nat /\ age[key] \in Nat
      /\ MaxAge \in Nat \ {0} /\ Timeout \in Nat /\ Patience \in Nat \ {0}
  BY <1>2, <1>3, VerifierAssumption DEF Patience
<1>6. fetch.key # key => age[fetch.key] < MaxAge + Timeout /\ age[key] < Patience + Timeout
  BY <1>2, <1>4, <1>5
<1> QED
  BY <1>2, <1>6 DEF Timely

(* Only those two give verdicts.                                           *)
LEMMA VerdictsAreTimely ==
    ASSUME TypeOK, KeySets, [Next]_vars, NEW r \in Requests,
           Becomes(r, "accepted") \/ Becomes(r, "rejected")
    PROVE  \E k \in Keys, token \in Token : call'[r] = Verdict(token, k) /\ Timely(token, k)
<1>1. call'[r] # call[r] /\ call'[r].at \in {"accepted", "rejected"}
  BY DEF Becomes
<1>2. call \in [Requests -> CallState]
  BY DEF TypeOK
<1>3. ASSUME NEW s \in Requests, NEW token \in Issued, VerifyCached(s, token)
      PROVE  \E k \in Keys, t \in Token : call'[r] = Verdict(t, k) /\ Timely(t, k)
  <2>1. call' = [call EXCEPT ![s] = Verdict(token, cache.key)]
    BY <1>3 DEF VerifyCached
  <2>2. call'[r] = Verdict(token, cache.key)
    BY <1>1, <1>2, <2>1
  <2>3. token \in Token
    BY DEF Issued
  <2> QED
    BY <1>3, <2>2, <2>3, CachedSetIsTimely
<1>4. CASE FetchArrives
  <2>1. call' = [q \in Requests |->
                   IF call[q].at = "waiting"
                   THEN [token \in Token |-> Verdict(token, fetch.key)][call[q].token]
                   ELSE call[q]]
    BY <1>4 DEF FetchArrives, Wakes
  <2>2. call[r].at = "waiting"
    BY <1>1, <2>1
  <2>3. call[r].token \in Token
    BY <1>2, <2>2 DEF CallState
  <2>4. call'[r] = Verdict(call[r].token, fetch.key)
    BY <2>1, <2>2, <2>3
  <2> QED
    BY <1>4, <2>3, <2>4, ArrivingSetIsTimely
<1>5. CASE FetchFails
  <2>1. call' = [q \in Requests |->
                   IF call[q].at = "waiting"
                   THEN [token \in Token |-> [at |-> "unreachable", token |-> token]][call[q].token]
                   ELSE call[q]]
    BY <1>5 DEF FetchFails, Wakes
  <2>2. call[r].at = "waiting"
    BY <1>1, <2>1
  <2>3. call[r].token \in Token
    BY <1>2, <2>2 DEF CallState
  <2>4. call'[r] = [at |-> "unreachable", token |-> call[r].token]
    BY <2>1, <2>2, <2>3
  <2> QED
    BY <1>1, <2>4
<1>6. ASSUME NEW s \in Requests, NEW token \in Issued, VerifyReloads(s, token)
      PROVE  FALSE
  <2>1. call' = [call EXCEPT ![s] = [at |-> "waiting", token |-> token]]
    BY <1>6 DEF VerifyReloads
  <2> QED
    BY <1>1, <1>2, <2>1
<1>7. ASSUME NEW s \in Requests, Respond(s)
      PROVE  FALSE
  <2>1. call' = [call EXCEPT ![s] = Idle]
    BY <1>7 DEF Respond
  <2> QED
    BY <1>1, <1>2, <2>1 DEF Idle
<1>8. CASE AppRestarts
  BY <1>1, <1>8 DEF AppRestarts, Idle
<1> QED
  BY <1>1, <1>3, <1>4, <1>5, <1>6, <1>7, <1>8
  DEF Next, FetchSettles, FetchServed, ProviderStops, StartsWithOldKey, StartsWithNewKey, Tick, vars

-----------------------------------------------------------------------------
(* The theorems.                                                           *)

(* A token of a retired key is accepted for no longer than a key set may   *)
(* be kept and a fetch may take.                                           *)
THEOREM RetiredKeysAreForgotten == Spec => RetiredKeyIsForgotten
<1>1. ASSUME TypeOK, KeySets, [Next]_vars, NEW r \in Requests, Becomes(r, "accepted")
      PROVE  call'[r].token.key = key \/ age[call'[r].token.key] < MaxAge + Timeout
  <2>1. PICK k \in Keys, token \in Token : call'[r] = Verdict(token, k) /\ Timely(token, k)
    BY <1>1, VerdictsAreTimely
  <2>2. call'[r].at = "accepted"
    BY <1>1 DEF Becomes
  <2>3. Accepts(token, k) /\ call'[r].token = token
    BY <2>1, <2>2 DEF Verdict
  <2> QED
    BY <2>1, <2>3 DEF Accepts, Timely
<1>2. TypeOK /\ KeySets /\ [Next]_vars =>
        \A r \in Requests : Becomes(r, "accepted") =>
          LET k == call'[r].token.key
          IN  k = key \/ age[k] < MaxAge + Timeout
  BY <1>1
<1> QED
  BY <1>2, KeySetsHold, PTL DEF Spec, RetiredKeyIsForgotten

(* A good token of the provider's key is not refused once the key has been *)
(* there for longer than an older key set may be relied on.                *)
THEOREM CurrentKeysAreKnown == Spec => CurrentKeyIsKnown
<1>1. ASSUME TypeOK, KeySets, [Next]_vars, NEW r \in Requests, Becomes(r, "rejected"),
             call'[r].token.valid, call'[r].token.key = key
      PROVE  age[key] < Patience + Timeout
  <2>1. PICK k \in Keys, token \in Token : call'[r] = Verdict(token, k) /\ Timely(token, k)
    BY <1>1, VerdictsAreTimely
  <2>2. call'[r].at = "rejected"
    BY <1>1 DEF Becomes
  <2>3. ~Accepts(token, k) /\ call'[r].token = token
    BY <2>1, <2>2 DEF Verdict
  <2>4. token.key = key /\ k # key
    BY <1>1, <2>3 DEF Accepts
  <2> QED
    BY <2>1, <2>4 DEF Timely
<1>2. TypeOK /\ KeySets /\ [Next]_vars =>
        \A r \in Requests : Becomes(r, "rejected") =>
          LET token == call'[r].token
          IN  (token.valid /\ token.key = key) => age[key] < Patience + Timeout
  BY <1>1
<1> QED
  BY <1>2, KeySetsHold, PTL DEF Spec, CurrentKeyIsKnown
=============================================================================
