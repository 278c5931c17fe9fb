---------------------------- MODULE Oidc_proofs ----------------------------
(***************************************************************************)
(* The verifier's key cache, for any number of callers, keys and refreshes *)
(* and any times: every property the run Oidc checks follows from one      *)
(* inductive invariant, OidcInv.                                           *)
(***************************************************************************)
EXTENDS Oidc, TLAPS

\* A key set as the issuer gave it out at one instant.
Sound(set) ==
    /\ set.taken <= clock
    /\ set.edition <= edition
    /\ \A k \in set.keys : publishedAt[k] <= set.taken /\ set.taken <= retiredAt[k]
    /\ \A k \in Published \ set.keys : set.taken <= publishedAt[k]

Dated ==
    \A k \in Kid :
        /\ publishedAt[k] # Never => publishedAt[k] <= clock
        /\ retiredAt[k] # Never => retiredAt[k] <= clock

CacheSound ==
    cache # NoCache => /\ Sound(cache.set)
                       /\ cache.loaded <= clock
                       /\ cache.loaded <= cache.set.taken + FetchTime

\* Only the pending refresh is in flight, within its time; what it brings is at
\* least as new as what is cached.
FlightSound ==
    \A f \in Verifier :
        /\ flight[f].pc # "none" => /\ pending = f
                                    /\ flight[f].started <= clock
                                    /\ clock <= flight[f].started + FetchTime
        /\ flight[f].pc = "body" =>
              /\ Sound(flight[f].set)
              /\ flight[f].started <= flight[f].set.taken
              /\ cache # NoCache => cache.set.edition <= flight[f].set.edition

\* A refresh is under way only when the cached set is old enough.
PendingDue ==
    pending # NoFlight => cache = NoCache \/ cache.loaded + RotationTime <= clock

OidcInv == OidcTypeOK /\ Dated /\ CacheSound /\ FlightSound /\ PendingDue

-----------------------------------------------------------------------------
LEMMA OidcInvInit == OidcInit => OidcInv
<1> SUFFICES ASSUME OidcInit PROVE OidcInv
  OBVIOUS
<1> USE OidcAssumption DEF Time, Never
<1>1. OidcTypeOK
  BY DEF OidcInit, OidcTypeOK, Cached, KeySet, Flight, Verification, Landed, NoSet,
         Idle
<1>2. Dated
  BY DEF OidcInit, Dated
<1>3. CacheSound /\ FlightSound /\ PendingDue
  BY DEF OidcInit, CacheSound, FlightSound, PendingDue, Landed
<1> QED
  BY <1>1, <1>2, <1>3 DEF OidcInv

\* A key set stays sound while time passes and the issuer changes its keys.
LEMMA SoundStays ==
    ASSUME OidcTypeOK, Dated, NEW set \in KeySet, Sound(set),
           \/ Tick
           \/ \E k \in Kid : Publish(k) \/ Retire(k)
           \/ UNCHANGED <<clock, issuer>>
    PROVE  Sound(set)'
<1> USE OidcAssumption DEF Time, Never, OidcTypeOK, KeySet, Sound, Published, Dated
<1>1. CASE Tick
  BY <1>1 DEF Tick, issuer
<1>2. ASSUME NEW k \in Kid, Publish(k) PROVE Sound(set)'
  BY <1>2 DEF Publish
<1>3. ASSUME NEW k \in Kid, Retire(k) PROVE Sound(set)'
  BY <1>3 DEF Retire
<1>4. CASE UNCHANGED <<clock, issuer>>
  BY <1>4 DEF issuer
<1> QED
  BY <1>1, <1>2, <1>3, <1>4


-----------------------------------------------------------------------------
(* One lemma per part of the verifier *)

LEMMA VerifyKeeps ==
    ASSUME OidcInv, NEW v \in Verifier, NEW kid \in Kid, Verify(v, kid)
    PROVE  OidcInv'
<1> USE OidcAssumption DEF Time, Never
<1> USE DEF OidcInv, Verify, issuer
<1>1. /\ UNCHANGED <<clock, issuer, cache>>
      /\ verification' \in [Verifier -> Verification]
      /\ \/ UNCHANGED <<pending, flight>>
         \/ /\ CacheLive => RotationDue
            /\ pending' = IF pending = NoFlight THEN v ELSE pending
            /\ flight' = IF pending # NoFlight THEN flight
                         ELSE [flight EXCEPT ![v] = [Landed EXCEPT !.pc = "discovery",
                                                                   !.started = clock]]
  <2>1. UNCHANGED <<clock, issuer, cache>>
    OBVIOUS
  <2>2. ASSUME NEW verdict \in {"accepted", "unknown"}, Decide(v, kid, verdict)
        PROVE  verification' \in [Verifier -> Verification]
    BY <2>2 DEF OidcTypeOK, Decide, Verification, Idle
  <2>3. CASE Refresh(v, kid) /\ (CacheLive => RotationDue)
    BY <2>1, <2>3 DEF OidcTypeOK, Refresh, Verification
  <2> QED
    BY <2>1, <2>2, <2>3
<1>2. OidcTypeOK'
  <2>0. NoSet \in KeySet /\ clock \in Time
    BY DEF OidcTypeOK, NoSet, KeySet
  <2>1. [Landed EXCEPT !.pc = "discovery", !.started = clock] \in Flight
    BY <2>0 DEF Flight, Landed
  <2>2. flight \in [Verifier -> Flight] /\ pending \in Verifier \cup {NoFlight}
    BY DEF OidcTypeOK
  <2>3. flight' \in [Verifier -> Flight] /\ pending' \in Verifier \cup {NoFlight}
    BY <1>1, <2>1, <2>2
  <2> QED
    BY <1>1, <2>3 DEF OidcTypeOK
<1>3. Dated' /\ CacheSound'
  BY <1>1 DEF Dated, CacheSound, Sound, Published
<1>4. CASE UNCHANGED <<pending, flight>>
  <2>1. FlightSound' /\ PendingDue'
    BY <1>1, <1>4 DEF FlightSound, PendingDue, Sound, Published
  <2> QED
    BY <1>2, <1>3, <2>1
<1>5. CASE ~UNCHANGED <<pending, flight>>
  <2>1. /\ pending = NoFlight /\ pending' = v
        /\ CacheLive => RotationDue
        /\ flight' = [flight EXCEPT ![v] = [Landed EXCEPT !.pc = "discovery",
                                                          !.started = clock]]
    BY <1>1, <1>5
  <2>2. \A f \in Verifier : flight[f].pc = "none"
    BY <2>1 DEF FlightSound
  <2>3. FlightSound'
    BY <1>1, <2>1, <2>2 DEF FlightSound, Landed, OidcTypeOK
  <2>4. PendingDue'
    BY <1>1, <2>1 DEF PendingDue, CacheLive, RotationDue, OidcTypeOK, Cached
  <2> QED
    BY <1>2, <1>3, <2>3, <2>4
<1> QED
  BY <1>4, <1>5

LEMMA FetchKeeps ==
    ASSUME OidcInv, NEW f \in Verifier, Discover(f) \/ Answer(f)
    PROVE  OidcInv'
<1> USE OidcAssumption DEF Time, Never
<1> USE DEF OidcInv, issuer
<1>1. UNCHANGED <<clock, issuer, cache, pending, verification>>
  BY DEF Discover, Answer
<1>2. OidcTypeOK'
  <2>1. flight[f] \in Flight /\ clock \in 0..MaxTime /\ edition \in Nat
    BY DEF OidcTypeOK
  <2>2. [keys |-> Published, taken |-> clock, edition |-> edition] \in KeySet
    BY <2>1 DEF KeySet, Published
  <2>3. /\ [flight[f] EXCEPT !.pc = "jwks", !.started = clock] \in Flight
        /\ [flight[f] EXCEPT !.pc = "body",
              !.set = [keys |-> Published, taken |-> clock, edition |-> edition]]
             \in Flight
    BY <2>1, <2>2 DEF Flight
  <2>4. flight' \in [Verifier -> Flight]
    BY <2>3 DEF OidcTypeOK, Discover, Answer
  <2> QED
    BY <1>1, <2>4 DEF OidcTypeOK
<1>3. Dated' /\ CacheSound' /\ PendingDue'
  BY <1>1 DEF Dated, CacheSound, PendingDue, Sound, Published
<1>4. CASE Discover(f)
  BY <1>1, <1>2, <1>3, <1>4 DEF Discover, FlightSound, OidcTypeOK, Flight, Sound,
     Published
<1>5. CASE Answer(f)
  <2>1. Sound([keys |-> Published, taken |-> clock, edition |-> edition])
    BY DEF Sound, Published, Dated, OidcTypeOK
  <2>2. cache # NoCache => cache.set.edition <= edition
    BY DEF CacheSound, Sound
  <2>3. FlightSound'
    BY <1>1, <1>5, <2>1, <2>2 DEF Answer, FlightSound, OidcTypeOK, Flight, Sound,
       Published
  <2> QED
    BY <1>2, <1>3, <2>3
<1> QED
  BY <1>4, <1>5

\* What the end of a refresh, and the loss of the isolate, have in common.
LEMMA EndKeeps ==
    ASSUME OidcInv, UNCHANGED <<clock, issuer>>,
           pending' = NoFlight,
           \A f \in Verifier : flight'[f].pc = "none",
           flight' \in [Verifier -> Flight],
           verification' \in [Verifier -> Verification],
           \/ cache' \in {cache, NoCache}
           \/ \E f \in Verifier :
                 /\ flight[f].pc = "body"
                 /\ cache' = [set |-> flight[f].set, loaded |-> clock]
    PROVE  OidcInv'
<1> USE OidcAssumption DEF Time, Never, OidcInv, issuer
<1>1. OidcTypeOK' /\ Dated'
  BY DEF OidcTypeOK, Dated, Cached, Flight
<1>2. FlightSound' /\ PendingDue'
  BY DEF FlightSound, PendingDue, Landed
<1>3. CASE cache' \in {cache, NoCache}
  BY <1>3, <1>1, <1>2 DEF CacheSound, Sound, Published
<1>4. ASSUME NEW f \in Verifier, flight[f].pc = "body",
             cache' = [set |-> flight[f].set, loaded |-> clock]
      PROVE  OidcInv'
  <2>1. /\ Sound(flight[f].set)
        /\ clock <= flight[f].set.taken + FetchTime
    BY <1>4 DEF FlightSound, OidcTypeOK, Flight, KeySet
  <2>2. CacheSound'
    BY <1>4, <2>1 DEF CacheSound, Sound, Published, OidcTypeOK
  <2> QED
    BY <1>1, <1>2, <2>2
<1> QED
  BY <1>3, <1>4

LEMMA EndTypes ==
    ASSUME OidcInv, NEW f \in Verifier, flight[f].pc # "none",
           NEW keys, NEW otherwise \in {"unknown", "failed"},
           End(f, keys, otherwise)
    PROVE  /\ verification' \in [Verifier -> Verification]
           /\ flight' \in [Verifier -> Flight]
           /\ \A g \in Verifier : flight'[g].pc = "none"
           /\ pending' = NoFlight
<1>0. \A g \in Verifier \ {f} : flight[g].pc = "none"
  <2>1. FlightSound
    BY DEF OidcInv
  <2>2. \A g \in Verifier : flight[g].pc # "none" => pending = g
    BY <2>1 DEF FlightSound
  <2> QED
    BY <2>2
<1>2. Landed \in Flight
  BY OidcAssumption DEF Landed, NoSet, KeySet, Flight, Time
<1> USE OidcAssumption DEF OidcInv, OidcTypeOK, End
<1>1. verification' \in [Verifier -> Verification]
  <2> SUFFICES ASSUME NEW v \in Verifier
               PROVE  verification'[v] \in Verification
    OBVIOUS
  <2>1. verification[v] \in Verification
    OBVIOUS
  <2>2. \A pc \in {"accepted", "unknown", "failed"} :
           [verification[v] EXCEPT !.pc = pc, !.on = NoFlight] \in Verification
    BY <2>1 DEF Verification
  <2> QED
    BY <2>1, <2>2
<1>4. \A g \in Verifier : flight'[g].pc = "none"
  <2>1. flight'[f].pc = "none"
    BY DEF Landed
  <2>2. \A g \in Verifier \ {f} : flight'[g] = flight[g]
    OBVIOUS
  <2> QED
    BY <1>0, <2>1, <2>2
<1> QED
  BY <1>1, <1>2, <1>4

LEMMA LoadKeeps ==
    ASSUME OidcInv, NEW f \in Verifier, Load(f)
    PROVE  OidcInv'
<1> USE DEF Load
<1>1. /\ UNCHANGED <<clock, issuer>>
      /\ cache' = [set |-> flight[f].set, loaded |-> clock]
      /\ flight[f].pc = "body"
      /\ End(f, flight[f].set.keys, "unknown")
  OBVIOUS
<1> QED
  BY <1>1, EndTypes, EndKeeps

LEMMA RefreshFailsKeeps ==
    ASSUME OidcInv, NEW f \in Verifier, RefreshFails(f)
    PROVE  OidcInv'
<1>1. /\ UNCHANGED <<clock, issuer>>
      /\ cache' = cache
      /\ flight[f].pc # "none"
      /\ End(f, {}, "failed")
  BY DEF RefreshFails
<1> QED
  BY <1>1, EndTypes, EndKeeps

LEMMA LoseKeeps ==
    ASSUME OidcInv, Lose
    PROVE  OidcInv'
<1>1. /\ UNCHANGED <<clock, issuer>>
      /\ cache' = NoCache
      /\ pending' = NoFlight
  BY DEF Lose
<1>2. Landed \in Flight
  BY OidcAssumption DEF Landed, NoSet, KeySet, Flight, Time
<1>3. /\ flight' \in [Verifier -> Flight]
      /\ \A f \in Verifier : flight'[f].pc = "none"
  BY <1>2 DEF Lose, Landed
<1>4. verification' \in [Verifier -> Verification]
  <2>1. [Idle EXCEPT !.pc = "failed"] \in Verification
    BY DEF Idle, Verification
  <2> QED
    BY <2>1 DEF Lose, OidcInv, OidcTypeOK
<1> QED
  BY <1>1, <1>3, <1>4, EndKeeps

\* The caller takes its verdict; the issuer changes its keys; time passes.
LEMMA OutsideKeeps ==
    ASSUME OidcInv,
           \/ \E v \in Verifier : Return(v)
           \/ \E k \in Kid : Publish(k) \/ Retire(k)
           \/ Tick
           \/ UNCHANGED oidcVars
    PROVE  OidcInv'
<1>1. UNCHANGED <<cache, pending, flight>>
  BY DEF Return, Publish, Retire, Tick, oidcVars
<1>2. \A set \in KeySet : Sound(set) => Sound(set)'
  BY SoundStays DEF OidcInv, Return, oidcVars, issuer
<1>3. clock' >= clock /\ clock' \in Time
  BY OidcAssumption DEF OidcInv, OidcTypeOK, Time, Return, Publish, Retire, Tick, oidcVars
<1>4. \A f \in Verifier : flight[f].pc # "none" => clock' <= flight[f].started + FetchTime
  <2> SUFFICES ASSUME NEW f \in Verifier, flight[f].pc # "none"
               PROVE  clock' <= flight[f].started + FetchTime
    OBVIOUS
  <2>1. clock <= flight[f].started + FetchTime
    BY DEF OidcInv, FlightSound
  <2>2. clock \in Nat /\ flight[f].started \in Nat /\ FetchTime \in Nat
    BY OidcAssumption DEF OidcInv, OidcTypeOK, Flight, Time
  <2>3. CASE Tick
    BY <2>2, <2>3 DEF Tick
  <2>4. CASE clock' = clock
    BY <2>1, <2>4
  <2> QED
    BY <2>3, <2>4 DEF Return, Publish, Retire, oidcVars
<1>5. OidcTypeOK'
  <2>1. edition' \in Nat
    BY DEF OidcInv, OidcTypeOK, Return, Publish, Retire, Tick, oidcVars, issuer
  <2>2. /\ publishedAt' \in [Kid -> Time \cup {Never}]
        /\ retiredAt' \in [Kid -> Time \cup {Never}]
    BY DEF OidcInv, OidcTypeOK, Return, Publish, Retire, Tick, oidcVars, issuer
  <2>3. verification' \in [Verifier -> Verification]
    BY DEF OidcInv, OidcTypeOK, Return, Publish, Retire, Tick, oidcVars,
           Idle, Verification
  <2> QED
    BY <1>1, <1>3, <2>1, <2>2, <2>3 DEF OidcInv, OidcTypeOK
<1>6. Dated'
  <2> USE OidcAssumption DEF OidcInv, OidcTypeOK, Dated, Time, Never, issuer
  <2>1. CASE UNCHANGED issuer
    BY <1>3, <2>1
  <2>2. ASSUME NEW k \in Kid, Publish(k) PROVE Dated'
    BY <2>2 DEF Publish
  <2>3. ASSUME NEW k \in Kid, Retire(k) PROVE Dated'
    BY <2>3 DEF Retire
  <2> QED
    BY <2>1, <2>2, <2>3 DEF Return, Tick, oidcVars
<1>7. CacheSound'
  <2> SUFFICES ASSUME cache # NoCache PROVE CacheSound'
    BY <1>1 DEF CacheSound
  <2>1. cache \in Cached /\ Sound(cache.set) /\ cache.loaded <= clock
        /\ cache.loaded <= cache.set.taken + FetchTime
    BY DEF OidcInv, OidcTypeOK, CacheSound
  <2>2. Sound(cache.set)'
    BY <1>1, <1>2, <2>1 DEF Cached
  <2> QED
    BY <1>1, <1>3, <2>1, <2>2, OidcAssumption DEF CacheSound, Cached, Time, OidcInv, OidcTypeOK
<1>8. FlightSound'
  <2> SUFFICES ASSUME NEW f \in Verifier, flight[f].pc # "none"
               PROVE  /\ pending = f
                      /\ flight[f].started <= clock'
                      /\ clock' <= flight[f].started + FetchTime
                      /\ flight[f].pc = "body" =>
                            /\ Sound(flight[f].set)'
                            /\ flight[f].started <= flight[f].set.taken
                            /\ cache # NoCache => cache.set.edition <= flight[f].set.edition
    BY <1>1 DEF FlightSound
  <2>1. flight[f] \in Flight /\ clock \in Time
    BY DEF OidcInv, OidcTypeOK
  <2>2. /\ pending = f
        /\ flight[f].started <= clock
        /\ flight[f].pc = "body" =>
              /\ Sound(flight[f].set)
              /\ flight[f].started <= flight[f].set.taken
              /\ cache # NoCache => cache.set.edition <= flight[f].set.edition
    BY DEF OidcInv, FlightSound
  <2>3. flight[f].started <= clock'
    BY <1>3, <2>1, <2>2, OidcAssumption DEF Flight, Time
  <2>4. flight[f].pc = "body" => Sound(flight[f].set)'
    BY <1>1, <1>2, <2>1, <2>2 DEF Flight
  <2> QED
    BY <1>4, <2>2, <2>3, <2>4
<1>9. PendingDue'
  BY <1>1, <1>3, OidcAssumption DEF OidcInv, OidcTypeOK, PendingDue, Cached, Time
<1> QED
  BY <1>5, <1>6, <1>7, <1>8, <1>9 DEF OidcInv

LEMMA OidcInvNext == OidcInv /\ [OidcNext]_oidcVars => OidcInv'
<1> SUFFICES ASSUME OidcInv, [OidcNext]_oidcVars PROVE OidcInv'
  OBVIOUS
<1>1. CASE OidcNext
  BY <1>1, VerifyKeeps, FetchKeeps, LoadKeeps, RefreshFailsKeeps, LoseKeeps,
     OutsideKeeps DEF OidcNext
<1>2. CASE UNCHANGED oidcVars
  BY <1>2, OutsideKeeps
<1> QED
  BY <1>1, <1>2

LEMMA OidcInvariant == OidcSpec => []OidcInv
  BY OidcInvInit, OidcInvNext, PTL DEF OidcSpec

-----------------------------------------------------------------------------
(* The properties the run Oidc checks *)

\* The verifier's state is always of its types (oidc.js:166-193).
THEOREM OidcTypeCorrect == OidcSpec => []OidcTypeOK
<1>1. OidcInv => OidcTypeOK
  BY DEF OidcInv
<1> QED
  BY <1>1, OidcInvariant, PTL

\* Only the end of the pending refresh loads the cache.
LEMMA OnlyLoad ==
    ASSUME OidcInv, [OidcNext]_oidcVars, cache' # cache, cache' # NoCache
    PROVE  \E f \in Verifier : Load(f)
  BY DEF OidcNext, Verify, Return, Discover, Answer, RefreshFails, Lose, Publish,
         Retire, Tick, oidcVars

\* Whatever the calls and the issuer do, the cache only ever moves to a key set
\* the issuer gave out later (oidc.js:166-193).
THEOREM CacheOrder == OidcSpec => CacheNeverOlder
<1>1. ASSUME OidcInv, [OidcNext]_oidcVars, cache # NoCache, cache' # NoCache
      PROVE  cache'.set.edition >= cache.set.edition
  <2>1. CASE cache' = cache
    BY <1>1, <2>1 DEF OidcInv, OidcTypeOK, Cached, KeySet
  <2>2. CASE cache' # cache
    <3>1. PICK f \in Verifier : Load(f)
      BY <1>1, <2>2, OnlyLoad
    <3>2. cache.set.edition <= flight[f].set.edition
      BY <1>1, <3>1 DEF OidcInv, FlightSound, Load
    <3>3. cache'.set = flight[f].set
      BY <3>1 DEF Load
    <3>4. cache.set.edition \in Nat /\ flight[f].set.edition \in Nat
      BY <1>1 DEF OidcInv, OidcTypeOK, Cached, Flight, KeySet
    <3> QED
      BY <3>2, <3>3, <3>4
  <2> QED
    BY <2>1, <2>2
<1> QED
  BY <1>1, OidcInvariant, PTL DEF OidcSpec, CacheNeverOlder

\* Two key sets of one isolate are loaded at least RotationTime apart
\* (oidc.js:225).
THEOREM LoadPacing == OidcSpec => LoadsApart
<1>1. ASSUME OidcInv, [OidcNext]_oidcVars, cache # NoCache, cache' # NoCache,
             cache' # cache
      PROVE  cache'.loaded >= cache.loaded + RotationTime
  <2>1. PICK f \in Verifier : Load(f)
    BY <1>1, OnlyLoad
  <2>2. pending = f
    BY <1>1, <2>1 DEF OidcInv, FlightSound, Load
  <2>3. cache.loaded + RotationTime <= clock
    BY <1>1, <2>2, OidcAssumption DEF OidcInv, PendingDue
  <2>4. cache'.loaded = clock
    BY <2>1 DEF Load
  <2>5. cache.loaded \in Nat /\ clock \in Nat
    BY <1>1 DEF OidcInv, OidcTypeOK, Cached, Time
  <2> QED
    BY <2>3, <2>4, <2>5, OidcAssumption
<1> QED
  BY <1>1, OidcInvariant, PTL DEF OidcSpec, LoadsApart

\* A step that decides on a token decides it on the cached set, or on the set
\* that the refresh it waits for has brought.
LEMMA Decided ==
    ASSUME OidcInv, [OidcNext]_oidcVars, NEW v \in Verifier,
           verification'[v].pc \in {"accepted", "unknown"},
           verification'[v] # verification[v]
    PROVE  \/ /\ CacheLive
              /\ verification'[v].pc = "accepted" => Signer(v) \in cache.set.keys
              /\ verification'[v].pc = "unknown" =>
                    Signer(v) \in Kid \ cache.set.keys /\ ~RotationDue
           \/ \E f \in Verifier :
                 /\ flight[f].pc = "body"
                 /\ verification'[v].pc = "accepted" =>
                       Signer(v) \in flight[f].set.keys
                 /\ verification'[v].pc = "unknown" =>
                       Signer(v) \notin flight[f].set.keys
<1> USE DEF Signer
<1>0. verification \in [Verifier -> Verification]
  BY DEF OidcInv, OidcTypeOK
<1>1. ASSUME NEW w \in Verifier, NEW kid \in Kid, Verify(w, kid)
      PROVE  /\ CacheLive
             /\ verification'[v].pc = "accepted" => Signer(v) \in cache.set.keys
             /\ verification'[v].pc = "unknown" =>
                   Signer(v) \in Kid \ cache.set.keys /\ ~RotationDue
  <2>1. v = w
    BY <1>0, <1>1 DEF Verify, Decide, Refresh
  <2>2. ~Refresh(v, kid)
    BY <1>0 DEF Refresh
  <2>3. CASE CacheLive /\ kid \in cache.set.keys /\ Decide(v, kid, "accepted")
    <3>1. verification'[v].kid = kid /\ verification'[v].pc = "accepted"
      BY <1>0, <2>3 DEF Decide, Idle
    <3> QED
      BY <2>3, <3>1
  <2>4. CASE /\ CacheLive /\ kid \notin cache.set.keys /\ ~RotationDue
             /\ Decide(v, kid, "unknown")
    <3>1. verification'[v].kid = kid /\ verification'[v].pc = "unknown"
      BY <1>0, <2>4 DEF Decide, Idle
    <3> QED
      BY <1>1, <2>4, <3>1
  <2> QED
    BY <1>1, <2>1, <2>2, <2>3, <2>4 DEF Verify
<1>2. ASSUME NEW f \in Verifier, Load(f)
      PROVE  /\ flight[f].pc = "body"
             /\ verification'[v].pc = "accepted" =>
                   Signer(v) \in flight[f].set.keys
             /\ verification'[v].pc = "unknown" =>
                   Signer(v) \notin flight[f].set.keys
  BY <1>0, <1>2 DEF Load, End, Verification
<1>3. ASSUME NEW f \in Verifier, RefreshFails(f) PROVE FALSE
  BY <1>0, <1>3 DEF RefreshFails, End, Verification
<1>4. ~Lose /\ ~(\E w \in Verifier : Return(w))
  BY <1>0 DEF Lose, Return, Idle
<1>5. ~(\/ \E f \in Verifier : Discover(f) \/ Answer(f)
        \/ \E k \in Kid : Publish(k) \/ Retire(k)
        \/ Tick
        \/ UNCHANGED oidcVars)
  BY DEF Discover, Answer, Publish, Retire, Tick, oidcVars
<1> QED
  BY <1>1, <1>2, <1>3, <1>4, <1>5 DEF OidcNext

\* However the calls and the key rotations interleave, no key is accepted before
\* it is published, or later than the cache and the answer under way when it was
\* withdrawn can keep it (oidc.js:190, oidc.js:218).
THEOREM StaleKeys == OidcSpec => NoStaleKey
<1>1. ASSUME OidcInv, [OidcNext]_oidcVars, NEW v \in Verifier,
             verification'[v].pc = "accepted", verification'[v] # verification[v]
      PROVE  /\ publishedAt[Signer(v)] <= clock
             /\ clock < retiredAt[Signer(v)] + CacheTime + FetchTime
  <2>1. CASE CacheLive /\ Signer(v) \in cache.set.keys
    <3>1. cache \in Cached /\ Sound(cache.set)
          /\ cache.loaded <= cache.set.taken + FetchTime
      BY <1>1, <2>1 DEF OidcInv, OidcTypeOK, CacheSound, CacheLive
    <3>2. /\ Signer(v) \in Kid
          /\ cache.set.taken \in Nat /\ cache.loaded \in Nat /\ clock \in Nat
      BY <1>1, <2>1, <3>1 DEF OidcInv, OidcTypeOK, Cached, KeySet, Time
    <3>3. publishedAt[Signer(v)] \in Nat /\ retiredAt[Signer(v)] \in Nat
      BY <1>1, <3>2, OidcAssumption DEF OidcInv, OidcTypeOK, Time, Never
    <3>4. /\ publishedAt[Signer(v)] <= cache.set.taken
          /\ cache.set.taken <= retiredAt[Signer(v)]
          /\ cache.set.taken <= clock
          /\ clock < cache.loaded + CacheTime
      BY <2>1, <3>1, <3>2, OidcAssumption DEF Sound, CacheLive
    <3> QED
      BY <3>1, <3>2, <3>3, <3>4, OidcAssumption
  <2>2. ASSUME NEW f \in Verifier, flight[f].pc = "body",
               Signer(v) \in flight[f].set.keys
        PROVE  /\ publishedAt[Signer(v)] <= clock
               /\ clock < retiredAt[Signer(v)] + CacheTime + FetchTime
    <3>1. /\ flight[f] \in Flight /\ Sound(flight[f].set)
          /\ clock <= flight[f].started + FetchTime
          /\ flight[f].started <= flight[f].set.taken
      BY <1>1, <2>2 DEF OidcInv, OidcTypeOK, FlightSound
    <3>2. /\ Signer(v) \in Kid
          /\ flight[f].set.taken \in Nat /\ flight[f].started \in Nat
          /\ clock \in Nat
      BY <1>1, <2>2, <3>1 DEF OidcInv, OidcTypeOK, Flight, KeySet, Time
    <3>3. publishedAt[Signer(v)] \in Nat /\ retiredAt[Signer(v)] \in Nat
      BY <1>1, <3>2, OidcAssumption DEF OidcInv, OidcTypeOK, Time, Never
    <3>4. /\ publishedAt[Signer(v)] <= flight[f].set.taken
          /\ flight[f].set.taken <= retiredAt[Signer(v)]
          /\ flight[f].set.taken <= clock
      BY <2>2, <3>1 DEF Sound
    <3> QED
      BY <3>1, <3>2, <3>3, <3>4, OidcAssumption
  <2> QED
    BY <1>1, <2>1, <2>2, Decided
<1>2. OidcInv /\ [OidcNext]_oidcVars =>
        \A v \in Verifier :
          verification'[v].pc = "accepted" /\ verification'[v] # verification[v]
          => /\ publishedAt[Signer(v)] <= clock
             /\ clock < retiredAt[Signer(v)] + CacheTime + FetchTime
  BY <1>1
<1> QED
  BY <1>2, OidcInvariant, PTL DEF OidcSpec, NoStaleKey

\* Whatever token asks first, a key published for RotationTime and the time of a
\* fetch is not refused as unknown (oidc.js:223-230).
THEOREM Rotation == OidcSpec => RotationNoticed
<1>1. ASSUME OidcInv, [OidcNext]_oidcVars, NEW v \in Verifier,
             verification'[v].pc = "unknown", verification'[v] # verification[v],
             Signer(v) \in Published
      PROVE  clock < publishedAt[Signer(v)] + RotationTime + FetchTime
  <2>1. Signer(v) \in Kid /\ publishedAt[Signer(v)] \in Nat
    BY <1>1, OidcAssumption DEF Published, OidcInv, OidcTypeOK, Time, Never
  <2>2. CASE CacheLive /\ Signer(v) \notin cache.set.keys /\ ~RotationDue
    <3>1. cache \in Cached /\ Sound(cache.set)
          /\ cache.loaded <= cache.set.taken + FetchTime
      BY <1>1, <2>2 DEF OidcInv, OidcTypeOK, CacheSound, CacheLive
    <3>2. cache.set.taken \in Nat /\ cache.loaded \in Nat /\ clock \in Nat
      BY <1>1, <3>1 DEF OidcInv, OidcTypeOK, Cached, KeySet, Time
    <3>3. /\ cache.set.taken <= publishedAt[Signer(v)]
          /\ clock < cache.loaded + RotationTime
      BY <1>1, <2>2, <3>1, <3>2, OidcAssumption DEF Sound, RotationDue
    <3> QED
      BY <2>1, <3>1, <3>2, <3>3, OidcAssumption
  <2>3. ASSUME NEW f \in Verifier, flight[f].pc = "body",
               Signer(v) \notin flight[f].set.keys
        PROVE  clock < publishedAt[Signer(v)] + RotationTime + FetchTime
    <3>1. /\ flight[f] \in Flight /\ Sound(flight[f].set)
          /\ clock <= flight[f].started + FetchTime
          /\ flight[f].started <= flight[f].set.taken
      BY <1>1, <2>3 DEF OidcInv, OidcTypeOK, FlightSound
    <3>2. /\ flight[f].set.taken \in Nat /\ flight[f].started \in Nat
          /\ clock \in Nat
      BY <1>1, <2>3, <3>1 DEF OidcInv, OidcTypeOK, Flight, KeySet, Time
    <3>3. flight[f].set.taken <= publishedAt[Signer(v)]
      BY <1>1, <2>3, <3>1 DEF Sound
    <3> QED
      BY <2>1, <3>1, <3>2, <3>3, OidcAssumption
  <2> QED
    BY <1>1, <2>2, <2>3, Decided
<1>2. OidcInv /\ [OidcNext]_oidcVars =>
        \A v \in Verifier :
          /\ verification'[v].pc = "unknown" /\ verification'[v] # verification[v]
          /\ Signer(v) \in Published
          => clock < publishedAt[Signer(v)] + RotationTime + FetchTime
  BY <1>1
<1> QED
  BY <1>2, OidcInvariant, PTL DEF OidcSpec, RotationNoticed
=============================================================================
