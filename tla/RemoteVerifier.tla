--------------------------- MODULE RemoteVerifier ---------------------------
(***************************************************************************)
(* The verifier that an API (examples/node-api) or an app (examples/       *)
(* nextjs) makes with createRemoteTokenVerifier, packages/runtime/src/     *)
(* verify.ts:69.  It keeps the key set that jose fetched from the provider *)
(* while the provider is stopped, started and given new keys.              *)
(*                                                                         *)
(* jose (version 5, createRemoteJWKSet with its defaults) is modelled by   *)
(* what verify.ts obtains from it: a key set serves for MaxAge; concurrent *)
(* reloads share one fetch, which has Timeout to succeed; a token that     *)
(* names a key the set lacks causes a reload unless the last one was less  *)
(* than Cooldown ago.  The keys of packages/local-auth have no kid, so     *)
(* that its tokens name no key; those of Cognito do.  Ages are counted in  *)
(* ticks and stop at the largest one that makes a difference.              *)
(***************************************************************************)
EXTENDS Naturals

CONSTANTS
    Requests,       \* requests that an application authenticates at a time
    MaxKeys,        \* bound on the keys the provider has had
    MaxAge, Timeout, Cooldown,  \* 10 minutes, 5 and 30 seconds
    None

Keys == 1 .. MaxKeys
Horizon == MaxAge + Timeout + 1

ASSUME VerifierAssumption ==
    /\ MaxKeys \in Nat \ {0} /\ None \notin Keys
    /\ {MaxAge, Cooldown} \subseteq Nat \ {0} /\ Timeout \in Nat
    /\ Cooldown <= MaxAge

(* A token by its signature, and whether issuer, audience, algorithm and   *)
(* expiry would pass.                                                      *)
Token == [key : Keys, valid : BOOLEAN]

VARIABLES
    key,        \* the provider's signing key
    up,         \* whether the provider runs
    named,      \* whether its tokens name their key (kid)
    age,        \* ticks since each key came into use or, later, was retired
    cache,      \* the verifier's key set and its age, None before the first
    fetch,      \* the fetch under way, its answer once the provider gave it
    call        \* each request's verify(token)

vars == <<key, up, named, age, cache, fetch, call>>
provider == <<key, up, named, age>>

CallState ==
    [at : {"idle"}]
    \cup [at : {"waiting", "accepted", "rejected", "unreachable"}, token : Token]

Idle == [at |-> "idle"]

Init ==
    /\ key = 1 /\ up \in BOOLEAN /\ named \in BOOLEAN
    /\ age = [k \in Keys |-> 0]
    /\ cache = None /\ fetch = None
    /\ call = [r \in Requests |-> Idle]

-----------------------------------------------------------------------------
(* verify(token)                                                           *)

FreshForEver == cache # None            \* mutant: a key set never ages
Fresh == cache # None /\ cache.age < MaxAge

Accepts(token, k) == token.valid /\ token.key = k

(* The cached set has a key for the token: its own, or the one key there   *)
(* is when the token names none, be it the wrong one.                      *)
Matches(token) == named => token.key = cache.key

NeverReloads == TRUE                    \* mutant: an unknown key is refused for good
CoolingDown == cache.age < Cooldown

Verdict(token, k) ==
    [at |-> IF Accepts(token, k) THEN "accepted" ELSE "rejected", token |-> token]

VerifyCached(r, token) ==
    /\ call[r] = Idle
    /\ Fresh
    /\ Matches(token) \/ CoolingDown
    /\ call' = [call EXCEPT ![r] = Verdict(token, cache.key)]
    /\ UNCHANGED <<provider, cache, fetch>>

VerifyReloads(r, token) ==
    /\ call[r] = Idle
    /\ Fresh => ~Matches(token) /\ ~CoolingDown
    /\ call' = [call EXCEPT ![r] = [at |-> "waiting", token |-> token]]
    /\ fetch' = IF fetch = None THEN [key |-> None, age |-> 0] ELSE fetch
    /\ UNCHANGED <<provider, cache>>

Wakes(to) ==
    call' = [r \in Requests |-> IF call[r].at = "waiting" THEN to[call[r].token] ELSE call[r]]

(* The provider answers with the key it has.                               *)
FetchServed ==
    /\ fetch # None
    /\ fetch.key = None /\ up
    /\ fetch' = [fetch EXCEPT !.key = key]
    /\ UNCHANGED <<provider, cache, call>>

FetchArrives ==
    /\ fetch # None
    /\ fetch.key # None
    /\ cache' = [key |-> fetch.key, age |-> 0]
    /\ fetch' = None
    /\ Wakes([token \in Token |-> Verdict(token, fetch.key)])
    /\ UNCHANGED provider

(* Mutant: a failed answer is kept as if it were a key set.                *)
CachesFailure == cache' = [key |-> None, age |-> 0]
KeepsKeySet == UNCHANGED cache

(* No connection, or no answer in time.  A key set that was there is kept. *)
FetchFails ==
    /\ fetch # None
    /\ ~up \/ fetch.age = Timeout
    /\ fetch' = None
    /\ Wakes([token \in Token |-> [at |-> "unreachable", token |-> token]])
    /\ KeepsKeySet
    /\ UNCHANGED provider

(* Mutant: without the catch a refused token leaves the request unanswered.*)
RespondSansCatch(r) ==
    /\ call[r].at = "accepted"
    /\ call' = [call EXCEPT ![r] = Idle]
    /\ UNCHANGED <<provider, cache, fetch>>

(* The application answers the request: the user, or nobody (401, or the   *)
(* page of a visitor), the catch making no difference between the failures.*)
Respond(r) ==
    /\ call[r].at \in {"accepted", "rejected", "unreachable"}
    /\ call' = [call EXCEPT ![r] = Idle]
    /\ UNCHANGED <<provider, cache, fetch>>

-----------------------------------------------------------------------------
(* The environment.                                                        *)

ProviderStops ==
    /\ up
    /\ up' = FALSE
    /\ UNCHANGED <<key, named, age, cache, fetch, call>>

(* With jwt keys in its options, or after stop() of the same handle.       *)
StartsWithOldKey ==
    /\ ~up
    /\ up' = TRUE
    /\ UNCHANGED <<key, named, age, cache, fetch, call>>

StartsWithNewKey ==
    /\ ~up
    /\ key < MaxKeys
    /\ up' = TRUE
    /\ key' = key + 1
    /\ age' = [age EXCEPT ![key] = 0, ![key + 1] = 0]
    /\ UNCHANGED <<named, cache, fetch, call>>

AppRestarts ==
    /\ cache' = None /\ fetch' = None
    /\ call' = [r \in Requests |-> Idle]
    /\ UNCHANGED provider

Older(ticks, bound) == IF ticks < bound THEN ticks + 1 ELSE ticks

(* The timer of a fetch goes off in time.                                  *)
Tick ==
    /\ fetch # None => fetch.age < Timeout
    /\ age' = [k \in Keys |-> IF k <= key THEN Older(age[k], Horizon) ELSE age[k]]
    /\ cache' = IF cache = None THEN None ELSE [cache EXCEPT !.age = Older(cache.age, MaxAge)]
    /\ fetch' = IF fetch = None THEN None ELSE [fetch EXCEPT !.age = fetch.age + 1]
    /\ UNCHANGED <<key, up, named, call>>

Issued == {token \in Token : token.key <= key}

FetchSettles == FetchArrives \/ FetchFails

Next ==
    \/ \E r \in Requests :
          \/ \E token \in Issued : VerifyCached(r, token) \/ VerifyReloads(r, token)
          \/ Respond(r)
    \/ FetchServed
    \/ FetchSettles
    \/ ProviderStops
    \/ StartsWithOldKey
    \/ StartsWithNewKey
    \/ AppRestarts
    \/ Tick

(* Time passes, so that a fetch is answered or times out, and a handler    *)
(* goes on when what it awaits is settled.                                 *)
Spec ==
    /\ Init /\ [][Next]_vars
    /\ WF_vars(Tick) /\ WF_vars(FetchSettles)
    /\ \A r \in Requests : WF_vars(Respond(r))

-----------------------------------------------------------------------------
(* Properties.                                                             *)

(* The key set, the fetch and the calls have the shape described above.    *)
TypeOK ==
    /\ key \in Keys /\ up \in BOOLEAN /\ named \in BOOLEAN
    /\ age \in [Keys -> 0 .. Horizon]
    /\ cache \in [key : Keys, age : 0 .. MaxAge] \cup {None}
    /\ fetch \in [key : Keys \cup {None}, age : 0 .. Timeout] \cup {None}
    /\ call \in [Requests -> CallState]

Becomes(r, at) == call'[r] # call[r] /\ call'[r].at = at

(* A token signed by a key the provider no longer has is accepted for at   *)
(* most MaxAge after the retirement, plus the time the answer of a fetch   *)
(* may have been on its way (verify.ts:69-81).                             *)
RetiredKeyIsForgotten ==
    [][\A r \in Requests : Becomes(r, "accepted") =>
          LET k == call'[r].token.key
          IN  k = key \/ age[k] < MaxAge + Timeout]_vars

Patience == IF named THEN Cooldown ELSE MaxAge

(* A good token of the provider's key is refused only while the verifier   *)
(* may hold an older key set: until MaxAge after the key came into use, or *)
(* Cooldown if tokens name their key, plus the time the answer of a fetch  *)
(* may have been on its way.  Afterwards it is accepted, or the provider   *)
(* could not be reached (verify.ts:69-81).                                 *)
CurrentKeyIsKnown ==
    [][\A r \in Requests : Becomes(r, "rejected") =>
          LET token == call'[r].token
          IN  (token.valid /\ token.key = key) => age[key] < Patience + Timeout]_vars

(* Every request that is authenticated is answered, however many share one *)
(* fetch and whatever becomes of it, unless the application is restarted   *)
(* (node-api server.mjs:37-47, 57-65).                                     *)
RequestsAreAnswered == \A r \in Requests : call[r] # Idle ~> call[r] = Idle
=============================================================================
