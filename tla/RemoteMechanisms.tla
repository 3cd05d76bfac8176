--------------------------- MODULE RemoteMechanisms ---------------------------
(***************************************************************************)
(* The two mechanisms that answer from a CredentialCache or ask outside:   *)
(* ApiTokenAuthenticator (src/mechanisms/api_token.rs), whose key goes to  *)
(* an IntrospectionValidator, and BasicAuthenticator                       *)
(* (src/mechanisms/basic.rs), whose pair goes to the token endpoint under  *)
(* one of two grants.  Requests run concurrently and an answer takes time  *)
(* to arrive, during which the credential may be revoked, the token behind *)
(* it may expire, and other requests for it may come and go.               *)
(*                                                                         *)
(* A behaviour is about one of the two, chosen at the start: each owns a   *)
(* cache of its own.  One clock stands for Instant and SystemTime.  The    *)
(* endpoints are external and honest: they confirm what is good and refuse *)
(* what is revoked, or fail.  Every reading of the LRU clock is 0, so that *)
(* at capacity any entry may be the one evicted, which covers what the     *)
(* concurrent cache of CredentialCache can do.                             *)
(***************************************************************************)
EXTENDS CacheOps, RemoteAnswers

CONSTANTS
    Requests,
    Asks,           \* credentials asked about, with their kind and scope
    Lives,          \* by kind: the lifetimes reported for a good credential
    MaxLife,        \* the longest of them for a grant, but for absurd ones
    MaxCacheTtl,    \* ApiTokenAuthenticator::max_cache_ttl
    MaxFlight,      \* how long an endpoint's answer may be in flight
    MaxWait,        \* how long verify_id_token() may wait for a refresh
    MaxTime,        \* bound on the clock
    Never           \* no time of revocation

Kinds == {"api_key", "client_credentials", "password"}
Grants == Kinds \ {"api_key"}

ASSUME RemoteAssumption ==
    /\ \A a \in Asks : a.kind \in Kinds
    /\ \A kind \in Kinds : Lives[kind] \subseteq Duration \ {0}
    /\ \A kind \in Grants : \A life \in Lives[kind] :
            life = NoExpiry \/ life <= MaxLife \/ life > RefreshMargin + Horizon
    /\ MaxLife \in Nat
    /\ MaxCacheTtl \in Nat
    /\ MaxFlight \in Nat
    /\ MaxWait \in Nat
    /\ MaxTime \in Nat
    /\ Never \notin Nat

VARIABLES
    mechanism,  \* which of the two this is about
    now,
    revoked,    \* when each credential was revoked, Never if it was not
    entries,    \* CredentialCache::entries
    call        \* where each request's authenticate() is

vars == <<mechanism, now, revoked, entries, call>>

Mechanism == {"api_token", "basic"}
Owner(a) == IF a.kind = "api_key" THEN "api_token" ELSE "basic"

\* An entry holds the principal found for `who'; the token it was found with
\* lives until `end'.
Entry == [expires : Nat, used : {0}, who : Asks, end : Duration]

Errors == {"invalid_credential", "upstream", "unsupported", "internal", "panic"}

\* since: when the endpoint gave the answer that is on its way.  id_token: what was
\* wrong with it, when that is the error, else "none".
Idle == [at |-> "idle"]
Asking == [at : {"asking"}, ask : Asks]
Answered == [at : {"answered", "verifying"}, ask : Asks, life : Duration, since : Nat]
Failed ==
    [at : {"failed"}, ask : Asks, error : Errors,
     id_token : {"none"} \cup (IdTokens \ {"good"})]

TypeOK ==
    /\ mechanism \in Mechanism
    /\ now \in Nat
    /\ revoked \in [Asks -> Nat \cup {Never}]
    /\ \E present \in SUBSET Asks : entries \in [present -> Entry]
    /\ call \in [Requests -> {Idle} \cup Asking \cup Answered \cup Failed]

Init ==
    /\ mechanism \in Mechanism
    /\ now = 0
    /\ revoked = [a \in Asks |-> Never]
    /\ entries = [a \in {} |-> [expires |-> 0, used |-> 0, who |-> a, end |-> 0]]
    /\ call = [r \in Requests |-> Idle]

-----------------------------------------------------------------------------
\* Mutant: both grants of a pair share one entry.
CacheKey_OneGrant(a) ==
    IF a.kind = "password" THEN [a EXCEPT !.kind = "client_credentials"] ELSE a

\* CredentialCache::key(scope, validator or grant, id, secret), a digest standing
\* for the secret.
CacheKey(a) == a

\* When the token behind an answer ends.
EndOf(c) == IF c.life = NoExpiry THEN NoExpiry ELSE c.since + c.life

\* Mutant: the remaining lifetime is not capped.
CacheTtl_Uncapped(expires_at) ==
    IF expires_at = NoExpiry \/ expires_at < now THEN NoExpiry
    ELSE expires_at - now

\* Mutant: a key that expires is cached for the full maximum.
CacheTtl_FullTerm(expires_at) ==
    IF expires_at = NoExpiry THEN NoExpiry ELSE MaxCacheTtl

\* cache_ttl(): `None' for no expiry, and also (the `.ok()?') for one that has
\* passed.
CacheTtl(expires_at) ==
    IF expires_at = NoExpiry \/ expires_at < now THEN NoExpiry
    ELSE IF expires_at - now < MaxCacheTtl THEN expires_at - now
    ELSE MaxCacheTtl

\* Mutant: a grant's principal is kept for the fallback when that is longer.
ExpiresIn_Floor(c) ==
    IF c.ask.kind = "api_key" THEN CacheTtl(EndOf(c))
    ELSE IF c.life # NoExpiry /\ c.life < FallbackTtl THEN NoExpiry ELSE c.life

\* The expires_in insert() is called with: what is left of a key's life, but a
\* grant's whole life as reported, however long ago that was.
ExpiresIn(c) == IF c.ask.kind = "api_key" THEN CacheTtl(EndOf(c)) ELSE c.life

Goto(r, c) == call' = [call EXCEPT ![r] = c]

Failure(a, error, id_token) ==
    [at |-> "failed", ask |-> a, error |-> error, id_token |-> id_token]

\* authenticate(), up to the first await, on a miss.  A hit is Authenticated at
\* once and, with a constant last_used, changes nothing: see Served.
Lookup(r, a) ==
    /\ call[r] = Idle
    /\ Owner(a) = mechanism
    /\ ~Hit(entries, CacheKey(a), now)
    /\ Goto(r, [at |-> "asking", ask |-> a])
    /\ UNCHANGED <<mechanism, now, revoked, entries>>

\* An answer with claims travels, and they are used when it has arrived; what
\* else it may be is an error whenever it arrives.
Answer(r, verdict, life) ==
    /\ Goto(r, IF verdict = "claims"
               THEN [at |-> "answered", ask |-> call[r].ask, life |-> life, since |-> now]
               ELSE Failure(call[r].ask, verdict, "none"))
    /\ UNCHANGED <<mechanism, now, revoked, entries>>

IsGood(a) == revoked[a] = Never

\* The introspection endpoint answers about a key.
Introspected(r) ==
    /\ call[r].at = "asking"
    /\ call[r].ask.kind = "api_key"
    /\ \E response \in Introspections, life \in Lives["api_key"] :
        /\ IsActive(response) => IsGood(call[r].ask)
        /\ IsInactive(response) => ~IsGood(call[r].ask)
        /\ ReportsExpiry(response) <=> life # NoExpiry
        /\ Answer(r, ClaimsFromResponse(response), life)

\* The token endpoint answers to a grant.
Exchanged(r) ==
    /\ call[r].at = "asking"
    /\ call[r].ask.kind \in Grants
    /\ \E response \in TokenResponses, life \in Lives[call[r].ask.kind] :
        /\ response.error = "none" => IsGood(call[r].ask)
        /\ response.error \in Refusals => ~IsGood(call[r].ask)
        /\ Answer(r, TokenVerdict(call[r].ask.kind, response), life)

\* password_grant(): the ID token goes to verify_id_token(), which may have to
\* wait for a refresh.
Verify(r) ==
    /\ call[r].at = "answered"
    /\ call[r].ask.kind = "password"
    /\ Goto(r, [call[r] EXCEPT !.at = "verifying"])
    /\ UNCHANGED <<mechanism, now, revoked, entries>>

\* The `?' after it: what was accepted as a password fails on its ID token.
VerifyFails(r) ==
    /\ call[r].at = "verifying"
    /\ \E token \in IdTokens \ {"good"} :
          Goto(r, Failure(call[r].ask, IdTokenVerdict(token), token))
    /\ UNCHANGED <<mechanism, now, revoked, entries>>

\* How long after the endpoint's answer the step in progress may still last.
Patience(c) == IF c.at = "verifying" THEN MaxFlight + MaxWait ELSE MaxFlight

\* Where a call has its claims and no await ahead.
Ready(c) == c.at = IF c.ask.kind = "password" THEN "verifying" ELSE "answered"

\* Nobody outside is at fault: a grant finds no token endpoint advertised, or the
\* identity cannot be converted.
Fault(r) ==
    /\ \/ call[r].at = "asking" /\ call[r].ask.kind \in Grants
       \/ call[r].at \in {"answered", "verifying"} /\ Ready(call[r])
    /\ Goto(r, Failure(call[r].ask, "internal", "none"))
    /\ UNCHANGED <<mechanism, now, revoked, entries>>

\* The identity converts: insert(), Authenticated.
Conclude(r) ==
    /\ call[r].at \in {"answered", "verifying"}
    /\ Ready(call[r])
    /\ LET a == call[r].ask
           ttl == Lifetime(ExpiresIn(call[r]))
           entry == [expires |-> now + ttl, used |-> 0, who |-> a, end |-> EndOf(call[r])]
       IN  IF Cacheable(ttl)
           THEN \E kept \in Kept(entries, CacheKey(a), now) :
                    entries' = IF Representable(now + ttl)
                               THEN Inserted(entries, kept, CacheKey(a), entry)
                               ELSE Abandoned(entries, kept)
           ELSE UNCHANGED entries
    /\ Goto(r, Idle)
    /\ UNCHANGED <<mechanism, now, revoked>>

\* The error has been sent, or the client has gone and the future is dropped,
\* wherever it was.
End(r) ==
    /\ call[r] # Idle
    /\ Goto(r, Idle)
    /\ UNCHANGED <<mechanism, now, revoked, entries>>

\* A key is revoked, a secret or a password is changed.
Revoke(a) ==
    /\ Owner(a) = mechanism
    /\ revoked[a] = Never
    /\ revoked' = [revoked EXCEPT ![a] = now]
    /\ UNCHANGED <<mechanism, now, entries, call>>

\* Time passes; no step in progress takes longer than it may.
Tick ==
    /\ now < MaxTime
    /\ \A r \in Requests :
          call[r].at \in {"answered", "verifying"} => now < call[r].since + Patience(call[r])
    /\ now' = now + 1
    /\ UNCHANGED <<mechanism, revoked, entries, call>>

Next ==
    \/ \E r \in Requests :
        \/ \E a \in Asks : Lookup(r, a)
        \/ Introspected(r)
        \/ Exchanged(r)
        \/ Verify(r)
        \/ VerifyFails(r)
        \/ Fault(r)
        \/ Conclude(r)
        \/ End(r)
    \/ \E a \in Asks : Revoke(a)
    \/ Tick

Spec == Init /\ [][Next]_vars

-----------------------------------------------------------------------------
\* The longest an entry for a can live, whatever is reported.
Longest(a) ==
    LET cap == IF a.kind = "api_key" THEN MaxCacheTtl ELSE MaxLife
    IN  IF cap > FallbackTtl THEN Lifetime(cap) ELSE Lifetime(FallbackTtl)

\* The longest between an endpoint's answer and what it puts into the cache.
Delay(a) == IF a.kind = "password" THEN MaxFlight + MaxWait ELSE MaxFlight

\* What a lookup for a finds now.
Served(a) == Owner(a) = mechanism /\ Hit(entries, CacheKey(a), now)

\* "Remote validation exists so revocation takes effect quickly": a hit is for
\* the very scope, kind and credential that was asked, and a revoked key or a
\* replaced secret is served for less than the delay plus the longest lifetime.
\* Answers on their way at the revocation, concurrent misses and re-inserts do
\* not stretch it.
RevocationLagBounded ==
    \A a \in Asks : Served(a) =>
        /\ entries[CacheKey(a)].who = a
        /\ revoked[a] # Never => now < revoked[a] + Delay(a) + Longest(a)

\* An API key is served past its expiry only because its answer was in flight
\* when it expired, and then for less than the flight plus the fallback lifetime.
OvershootBounded ==
    \A a \in Asks : Served(a) /\ a.kind = "api_key" =>
        LET end == entries[CacheKey(a)].end
        IN  (end # NoExpiry /\ end <= now) => now + 1 < end + MaxFlight + Lifetime(NoExpiry)

\* A grant's principal is served past the end of its token by less than what the
\* delay exceeds the refresh margin, although its whole reported life is counted
\* from when the answer has arrived and its ID token has been verified.
GrantOvershootBounded ==
    \A a \in Asks : Served(a) /\ a.kind \in Grants =>
        LET end == entries[CacheKey(a)].end
        IN  end # NoExpiry => now + RefreshMargin < end + Delay(a)

\* "The answer is unknown rather than negative" (AuthError::Upstream): a request
\* is told that its credential is invalid only if it has been revoked or the ID
\* token that came for it was looked at and rejected, and never because an endpoint
\* or the refresh of the keys failed or answered nonsense.
RefusedForCause ==
    \A r \in Requests : call[r].at = "failed" /\ call[r].error = "invalid_credential" =>
        revoked[call[r].ask] # Never \/ call[r].id_token = "rejected"

Promise == INSTANCE CachePromise WITH
    Keys <- Asks,
    found <- Finds(entries, now),
    Lifetimes <- 1 .. Horizon

\* This cache, with all its LRU readings alike, does nothing that CachePromise
\* does not allow.
KeepsPromise == Promise!PSpec

-----------------------------------------------------------------------------
\* What comments in the code say, checked as they stand.

\* cache.rs: a principal is cached "until shortly before the underlying token
\* would expire".
NotServedPastExpiry ==
    \A a \in Asks : Served(a) /\ entries[CacheKey(a)].end # NoExpiry =>
        now < entries[CacheKey(a)].end

\* error.rs, AuthError::InvalidCredential: "A credential was presented but is
\* invalid, expired or revoked".  The credential presented under a grant is the
\* pair, and the token endpoint has just accepted it.
RefusedOnlyIfRevoked ==
    \A r \in Requests : call[r].at = "failed" /\ call[r].error = "invalid_credential" =>
        revoked[call[r].ask] # Never
=============================================================================
