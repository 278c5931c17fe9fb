-------------------------------- MODULE Oidc --------------------------------
(***************************************************************************)
(* The OIDC verifier of one Worker isolate (createOidcVerifier,            *)
(* src/auth/oidc.js): calls of verify share one cached key set and one     *)
(* refresh of it, while the issuer publishes new signing keys and retires  *)
(* old ones, and the isolate can be lost.                                  *)
(*                                                                         *)
(* A token is the name of the key that signed it: the claim checks do not  *)
(* depend on the cache.  The verdict on a call is taken in the turn of the *)
(* event loop in which it gets its key set, so that when a refresh ends    *)
(* all the calls that wait for it are decided in one step.  Timers fire on *)
(* time: a fetch is over, or has failed, when its FetchTime is.            *)
(***************************************************************************)
EXTENDS Naturals

CONSTANTS
    Verifier,     \* concurrent callers of verify, each calling it again and again
    Kid,          \* the signing keys the issuer ever publishes
    FirstKeys,    \* those published at the start
    CacheTime,    \* CACHE_MS
    RotationTime, \* ROTATION_REFRESH_MS
    FetchTime,    \* the timeout of fetchJson
    MaxTime,      \* bound: the length of a behaviour
    NoCache, NoFlight, NoKid

ASSUME OidcAssumption ==
    /\ FirstKeys \subseteq Kid
    /\ CacheTime \in Nat
    /\ RotationTime \in Nat \ {0}
    /\ RotationTime <= CacheTime
    /\ FetchTime \in Nat
    /\ MaxTime \in Nat
    /\ NoFlight \notin Verifier

VARIABLES
    clock,
    publishedAt,  \* when the issuer published each key,
    retiredAt,    \* and when it withdrew it; Never if it has not yet
    edition,      \* how often the issuer has changed its key set
    cache,        \* the cached key set
    pending,      \* the call whose refresh is under way
    flight,       \* the refresh each call has started, if any
    verification  \* the local state of each call

oidcVars == <<clock, publishedAt, retiredAt, edition, cache, pending, flight,
              verification>>
issuer == <<publishedAt, retiredAt, edition>>

-----------------------------------------------------------------------------
Time == 0..MaxTime
Never == MaxTime + 1
Published == {k \in Kid : publishedAt[k] # Never /\ retiredAt[k] = Never}

\* taken and edition are history: when, and in which edition, the issuer gave
\* out a key set.
KeySet == [keys: SUBSET Kid, taken: Time, edition: Nat]
Cached == [set: KeySet, loaded: Time]
Flight == [pc: {"none", "discovery", "jwks", "body"}, started: Time, set: KeySet]
Verification == [pc: {"idle", "waiting", "accepted", "unknown", "failed"},
                 kid: Kid \cup {NoKid}, on: Verifier \cup {NoFlight}]

OidcTypeOK ==
    /\ clock \in Time
    /\ publishedAt \in [Kid -> Time \cup {Never}]
    /\ retiredAt \in [Kid -> Time \cup {Never}]
    /\ edition \in Nat
    /\ cache \in Cached \cup {NoCache}
    /\ pending \in Verifier \cup {NoFlight}
    /\ flight \in [Verifier -> Flight]
    /\ verification \in [Verifier -> Verification]

NoSet == [keys |-> {}, taken |-> 0, edition |-> 0]
Landed == [pc |-> "none", started |-> 0, set |-> NoSet]

Idle == [pc |-> "idle", kid |-> NoKid, on |-> NoFlight]

OidcInit ==
    /\ clock = 0
    /\ publishedAt = [k \in Kid |-> IF k \in FirstKeys THEN 0 ELSE Never]
    /\ retiredAt = [k \in Kid |-> Never]
    /\ edition = 0
    /\ cache = NoCache
    /\ pending = NoFlight
    /\ flight = [v \in Verifier |-> Landed]
    /\ verification = [v \in Verifier |-> Idle]

-----------------------------------------------------------------------------
(* verify *)

Decide(v, kid, verdict) ==
    verification' = [verification EXCEPT ![v] = [Idle EXCEPT !.pc = verdict,
                                                             !.kid = kid]]

\* Mutant: the cache does not expire.
CacheFilled == cache # NoCache

CacheLive == cache # NoCache /\ cache.loaded + CacheTime > clock

\* Mutants: every unknown key is looked up again, or none.
RotationAlways == TRUE
RotationNever == FALSE

\* An unknown key is looked up again, once the cached set has some age.
RotationDue == cache.loaded + RotationTime <= clock

\* Mutant: a call that finds a refresh under way starts another.
RefreshAlone(v, kid) ==
    /\ verification' = [verification EXCEPT ![v] = [pc |-> "waiting", kid |-> kid,
                                                    on |-> v]]
    /\ pending' = v
    /\ flight' = [flight EXCEPT ![v] = [Landed EXCEPT !.pc = "discovery",
                                                      !.started = clock]]

\* refresh: join the pending one, or start it.
Refresh(v, kid) ==
    LET owner == IF pending = NoFlight THEN v ELSE pending
    IN  /\ verification' = [verification EXCEPT ![v] = [pc |-> "waiting",
                                                        kid |-> kid, on |-> owner]]
        /\ pending' = owner
        /\ flight' = IF pending # NoFlight THEN flight
                     ELSE [flight EXCEPT ![v] = [Landed EXCEPT !.pc = "discovery",
                                                               !.started = clock]]

Verify(v, kid) ==
    /\ verification[v].pc = "idle"
    /\ \/ /\ CacheLive /\ kid \in cache.set.keys
          /\ Decide(v, kid, "accepted")
          /\ UNCHANGED <<pending, flight>>
       \/ /\ CacheLive /\ kid \notin cache.set.keys /\ ~RotationDue
          /\ Decide(v, kid, "unknown")
          /\ UNCHANGED <<pending, flight>>
       \/ /\ CacheLive => kid \notin cache.set.keys /\ RotationDue
          /\ Refresh(v, kid)
    /\ UNCHANGED <<clock, issuer, cache>>

\* The caller takes the verdict, and may call again.
Return(v) ==
    /\ verification[v].pc \in {"accepted", "unknown", "failed"}
    /\ verification' = [verification EXCEPT ![v] = Idle]
    /\ UNCHANGED <<clock, issuer, cache, pending, flight>>

\* The refresh: the discovery document, then the key set, each in FetchTime.
Discover(f) ==
    /\ flight[f].pc = "discovery"
    /\ flight' = [flight EXCEPT ![f].pc = "jwks", ![f].started = clock]
    /\ UNCHANGED <<clock, issuer, cache, pending, verification>>

\* The issuer answers with the keys it has; the answer is still on its way.
Answer(f) ==
    /\ flight[f].pc = "jwks"
    /\ flight' = [flight EXCEPT ![f].pc = "body",
                    ![f].set = [keys |-> Published, taken |-> clock,
                                edition |-> edition]]
    /\ UNCHANGED <<clock, issuer, cache, pending, verification>>

\* The end of a refresh, for its owner and all who joined it.
End(f, keys, otherwise) ==
    /\ flight' = [flight EXCEPT ![f] = Landed]
    /\ pending' = NoFlight
    /\ verification' =
          [v \in Verifier |->
             IF verification[v].pc = "waiting" /\ verification[v].on = f
             THEN [verification[v] EXCEPT
                     !.pc = IF verification[v].kid \in keys THEN "accepted"
                            ELSE otherwise,
                     !.on = NoFlight]
             ELSE verification[v]]

\* Mutant: the cache does not note when it was loaded.
LoadUnstamped(f) ==
    /\ flight[f].pc = "body"
    /\ flight[f].set.keys # {}
    /\ cache' = [set |-> flight[f].set]
    /\ End(f, flight[f].set.keys, "unknown")
    /\ UNCHANGED <<clock, issuer>>

\* The set is cached; a key it lacks is unknown, the set being new.
Load(f) ==
    /\ flight[f].pc = "body"
    /\ flight[f].set.keys # {}
    /\ cache' = [set |-> flight[f].set, loaded |-> clock]
    /\ End(f, flight[f].set.keys, "unknown")
    /\ UNCHANGED <<clock, issuer>>

\* A refused, late, unreadable or empty answer fails everyone who waits for it.
RefreshFails(f) ==
    /\ flight[f].pc # "none"
    /\ End(f, {}, "failed")
    /\ UNCHANGED <<clock, issuer, cache>>

-----------------------------------------------------------------------------
(* Around the verifier *)

Publish(k) ==
    /\ publishedAt[k] = Never
    /\ publishedAt' = [publishedAt EXCEPT ![k] = clock]
    /\ edition' = edition + 1
    /\ UNCHANGED <<clock, retiredAt, cache, pending, flight, verification>>

Retire(k) ==
    /\ k \in Published
    /\ retiredAt' = [retiredAt EXCEPT ![k] = clock]
    /\ edition' = edition + 1
    /\ UNCHANGED <<clock, publishedAt, cache, pending, flight, verification>>

\* The isolate is lost with its cache and every call in it.
Lose ==
    /\ cache' = NoCache
    /\ pending' = NoFlight
    /\ flight' = [v \in Verifier |-> Landed]
    /\ verification' = [v \in Verifier |->
                          IF verification[v].pc = "waiting"
                          THEN [Idle EXCEPT !.pc = "failed"]
                          ELSE verification[v]]
    /\ UNCHANGED <<clock, issuer>>

\* A fetch does not outlive its timeout.
Tick ==
    /\ clock < MaxTime
    /\ \A f \in Verifier : flight[f].pc # "none"
                              => clock < flight[f].started + FetchTime
    /\ clock' = clock + 1
    /\ UNCHANGED <<issuer, cache, pending, flight, verification>>

OidcNext ==
    \/ \E v \in Verifier, kid \in Kid : Verify(v, kid)
    \/ \E v \in Verifier : Return(v)
    \/ \E f \in Verifier : Discover(f) \/ Answer(f) \/ Load(f) \/ RefreshFails(f)
    \/ \E k \in Kid : Publish(k) \/ Retire(k)
    \/ Lose
    \/ Tick

OidcSpec == OidcInit /\ [][OidcNext]_oidcVars

-----------------------------------------------------------------------------
(* Safety *)

\* However many calls refresh at once, the cache never goes back to a key set
\* that the issuer gave out earlier (the shared promise of refresh, oidc.js:166).
CacheNeverOlder ==
    [][cache # NoCache /\ cache' # NoCache
         => cache'.set.edition >= cache.set.edition]_oidcVars

\* Tokens with unknown keys cannot make the verifier hammer the issuer: two key
\* sets of one isolate are loaded at least RotationTime apart (oidc.js:225).
LoadsApart ==
    [][cache # NoCache /\ cache' # NoCache /\ cache' # cache
         => cache'.loaded >= cache.loaded + RotationTime]_oidcVars

\* The key of the token a step decides on.
Signer(v) == verification'[v].kid

\* A withdrawn key is accepted no longer than the cache and the answer under way
\* when it was withdrawn can keep it, and no key before it is published
\* (oidc.js:190, oidc.js:218).
NoStaleKey ==
    [][\A v \in Verifier :
          verification'[v].pc = "accepted" /\ verification'[v] # verification[v]
          => /\ publishedAt[Signer(v)] <= clock
             /\ clock < retiredAt[Signer(v)] + CacheTime + FetchTime]_oidcVars

\* A key rotation is noticed: a key that has been published for RotationTime and
\* the time of a fetch is not refused as unknown (oidc.js:223-230).
RotationNoticed ==
    [][\A v \in Verifier :
          /\ verification'[v].pc = "unknown" /\ verification'[v] # verification[v]
          /\ Signer(v) \in Published
          => clock < publishedAt[Signer(v)] + RotationTime + FetchTime]_oidcVars
=============================================================================
