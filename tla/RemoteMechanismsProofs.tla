------------------------ MODULE RemoteMechanismsProofs ------------------------
(***************************************************************************)
(* How long a revoked or expired credential can still be served, and who   *)
(* may be told that a credential is invalid, for every configuration and   *)
(* number of requests, credentials and scopes.  The argument goes through  *)
(* the expiry of each cached entry and the age of each answer in flight:   *)
(* the properties say nothing of those, so they are not inductive.         *)
(***************************************************************************)
EXTENDS RemoteMechanisms, CacheOpsProofs

\* Every bound the properties mention is a number.
LEMMA Bounds ==
    ASSUME NEW a \in Asks
    PROVE  /\ Longest(a) \in Nat
           /\ Delay(a) \in Nat
           /\ Lifetime(NoExpiry) \in Nat
           /\ Lifetime(NoExpiry) <= Longest(a)
  BY CacheConfigAssumption, RemoteAssumption DEF Longest, Delay, Lifetime

\* The lifetime insert() arrives at for a lifetime below a cap is below what it
\* arrives at for the cap, and at most what it was given less the margin.
LEMMA LifetimeBounds ==
    ASSUME NEW STATE d, d \in Duration
    PROVE  /\ Lifetime(d) \in Nat
           /\ (d # NoExpiry /\ Lifetime(d) # 0) => Lifetime(d) + RefreshMargin = d
           /\ d # NoExpiry => Lifetime(d) <= d
           /\ \A a \in Asks : (d = NoExpiry \/ d <= IF a.kind = "api_key"
                                                    THEN MaxCacheTtl ELSE MaxLife)
                  => Lifetime(d) <= Longest(a)
  BY CacheConfigAssumption, RemoteAssumption DEF Longest, Lifetime, Duration

\* cache_ttl(): never beyond the cap, never beyond the expiry, except that an
\* expiry already past counts as none.
LEMMA CacheTtlBounds ==
    ASSUME now \in Nat, NEW STATE e, e \in Duration
    PROVE  /\ CacheTtl(e) \in Duration
           /\ CacheTtl(e) = NoExpiry \/ CacheTtl(e) <= MaxCacheTtl
           /\ (e # NoExpiry /\ now <= e) => CacheTtl(e) # NoExpiry /\ now + CacheTtl(e) <= e
           /\ (e # NoExpiry /\ e < now) => CacheTtl(e) = NoExpiry
  BY CacheConfigAssumption, RemoteAssumption DEF CacheTtl, Duration

\* Only an explicit `active: false' becomes invalid_credential.
LEMMA IntrospectionVerdicts ==
    ASSUME NEW response \in Introspections
    PROVE  /\ ClaimsFromResponse(response) \in {"claims"} \cup Errors
           /\ ClaimsFromResponse(response) = "claims" => IsActive(response)
           /\ ClaimsFromResponse(response) = "invalid_credential" => IsInactive(response)
  BY DEF Introspections, ClaimsFromResponse, IsActive, IsInactive, Errors

\* Only a refusal of the token endpoint becomes invalid_credential.
LEMMA TokenVerdicts ==
    ASSUME NEW response \in TokenResponses, NEW STATE kind
    PROVE  /\ TokenVerdict(kind, response) \in {"claims"} \cup Errors
           /\ TokenVerdict(kind, response) = "claims" => response.error = "none"
           /\ TokenVerdict(kind, response) = "invalid_credential" => response.error \in Refusals
  BY DEF TokenResponses, TokenErrors, Refusals, TokenVerdict, Errors

\* Only an ID token that was looked at and rejected becomes invalid_credential.
LEMMA IdTokenVerdicts ==
    ASSUME NEW token \in IdTokens \ {"good"}
    PROVE  /\ IdTokenVerdict(token) \in Errors
           /\ IdTokenVerdict(token) = "invalid_credential" => token = "rejected"
  BY DEF IdTokens, IdTokenVerdict, Errors

-----------------------------------------------------------------------------
\* What is known of the entry for a: whose it is and how late it can still hit.
Bounded(a) ==
    LET entry == entries[a]
    IN  /\ entry.who = a
        /\ entry.expires <= now + Longest(a)
        /\ revoked[a] # Never => entry.expires <= revoked[a] + Delay(a) + Longest(a)
        /\ (a.kind = "api_key" /\ entry.end # NoExpiry) =>
              \/ entry.expires <= entry.end
              \/ entry.expires + 1 <= entry.end + MaxFlight + Lifetime(NoExpiry)
        /\ (a.kind \in Grants /\ entry.end # NoExpiry) =>
              entry.expires + RefreshMargin <= entry.end + Delay(a)

EntriesBounded == \A a \in DOMAIN entries : Bounded(a)

\* What is known of a call: an answer on its way is recent, was given when its
\* credential was good, and reports a lifetime that answers report.
Recent(c) ==
    /\ c.at \in {"answered", "verifying"} =>
        /\ c.since <= now
        /\ now <= c.since + Patience(c)
        /\ revoked[c.ask] # Never => c.since <= revoked[c.ask]
        /\ c.life \in Lives[c.ask.kind]
    /\ c.at = "verifying" => c.ask.kind = "password"
    /\ (c.at = "failed" /\ c.error = "invalid_credential") =>
          revoked[c.ask] # Never \/ c.id_token = "rejected"

CallsRecent == \A r \in Requests : Recent(call[r])

IInv == TypeOK /\ EntriesBounded /\ CallsRecent

\* The inductive invariant holds of a new authenticator.
LEMMA RemoteInit == Init => IInv
<1> SUFFICES ASSUME Init PROVE IInv
  OBVIOUS
<1>1. DOMAIN entries = {} /\ entries \in [{} -> Entry]
  BY DEF Init
<1>2. TypeOK
  BY <1>1 DEF Init, TypeOK
<1>3. EntriesBounded
  BY <1>1 DEF EntriesBounded
<1>4. CallsRecent
  BY DEF Init, Idle, CallsRecent, Recent
<1> QED BY <1>2, <1>3, <1>4 DEF IInv

\* A call may move wherever its own new state is typed and recent.
LEMMA GotoStep ==
    ASSUME IInv, NEW r \in Requests, NEW STATE c, Goto(r, c),
           UNCHANGED <<mechanism, now, revoked, entries>>,
           c \in {Idle} \cup Asking \cup Answered \cup Failed, Recent(c)
    PROVE  IInv'
<1>1. TypeOK'
  BY DEF IInv, TypeOK, Goto
<1>2. EntriesBounded'
  BY DEF IInv, EntriesBounded, Bounded
<1>3. CallsRecent'
  <2> SUFFICES ASSUME NEW q \in Requests PROVE Recent(call[q])'
    BY DEF CallsRecent
  <2>1. call'[q] = c \/ call'[q] = call[q]
    BY DEF IInv, TypeOK, Goto
  <2>2. Recent(call[q])
    BY DEF IInv, CallsRecent
  <2> QED BY <2>1, <2>2 DEF Recent, Patience
<1> QED BY <1>1, <1>2, <1>3 DEF IInv

\* An honest answer leaves the call typed and recent.
LEMMA AnswerStep ==
    ASSUME IInv, NEW r \in Requests, NEW verdict \in {"claims"} \cup Errors, NEW life,
           call[r].at = "asking", life \in Lives[call[r].ask.kind],
           Answer(r, verdict, life),
           verdict = "claims" => IsGood(call[r].ask),
           verdict = "invalid_credential" => ~IsGood(call[r].ask)
    PROVE  IInv'
<1>1. call[r].ask \in Asks /\ now \in Nat /\ life \in Duration
  BY RemoteAssumption DEF IInv, TypeOK, Idle, Asking, Answered, Failed
<1>2. CASE verdict = "claims"
  <2> DEFINE c == [at |-> "answered", ask |-> call[r].ask, life |-> life, since |-> now]
  <2>1. c \in Answered
    BY <1>1 DEF Answered
  <2>2. Recent(c)
    BY <1>1, <1>2, RemoteAssumption DEF Recent, Patience, IsGood
  <2> QED BY <1>2, <2>1, <2>2, GotoStep DEF Answer
<1>3. CASE verdict # "claims"
  <2> DEFINE c == Failure(call[r].ask, verdict, "none")
  <2>1. c \in Failed /\ Recent(c)
    BY <1>1, <1>3 DEF Failure, Failed, Recent, IsGood
  <2> QED BY <1>3, <2>1, GotoStep DEF Answer
<1> QED BY <1>2, <1>3

\* What Conclude puts into the cache satisfies the bounds.
LEMMA NewEntryBounded ==
    ASSUME IInv, NEW r \in Requests, call[r].at \in {"answered", "verifying"},
           Ready(call[r]), NEW STATE ttl, ttl = Lifetime(ExpiresIn(call[r])),
           Cacheable(ttl), Representable(now + ttl)
    PROVE  LET a == call[r].ask
               end == EndOf(call[r])
               expires == now + ttl
           IN  /\ a \in Asks
               /\ end \in Duration
               /\ expires \in Nat
               /\ expires <= now + Longest(a)
               /\ revoked[a] # Never => expires <= revoked[a] + Delay(a) + Longest(a)
               /\ (a.kind = "api_key" /\ end # NoExpiry) =>
                     \/ expires <= end
                     \/ expires + 1 <= end + MaxFlight + Lifetime(NoExpiry)
               /\ (a.kind \in Grants /\ end # NoExpiry) =>
                     expires + RefreshMargin <= end + Delay(a)
<1> DEFINE a == call[r].ask
           since == call[r].since
           life == call[r].life
           end == EndOf(call[r])
<1>1. /\ a \in Asks /\ since \in Nat /\ life \in Duration /\ now \in Nat
      /\ revoked[a] = Never \/ revoked[a] \in Nat
      /\ a.kind \in Kinds
  BY RemoteAssumption DEF IInv, TypeOK, Idle, Asking, Answered, Failed
<1>2. /\ since <= now /\ now <= since + Patience(call[r])
      /\ revoked[a] # Never => since <= revoked[a]
      /\ life \in Lives[a.kind]
      /\ Patience(call[r]) <= Delay(a)
      /\ a.kind = "api_key" => Patience(call[r]) = MaxFlight
  BY RemoteAssumption DEF IInv, CallsRecent, Recent, Ready, Patience, Delay
<1>3. end \in Duration /\ (end # NoExpiry => life \in Nat /\ end = since + life)
  BY <1>1 DEF EndOf, Duration
<1>b. Longest(a) \in Nat /\ Delay(a) \in Nat /\ Lifetime(NoExpiry) \in Nat
      /\ MaxFlight \in Nat /\ RefreshMargin \in Nat /\ Patience(call[r]) \in Nat
  BY <1>1, Bounds, RemoteAssumption, CacheConfigAssumption DEF Patience
<1>4. ttl \in Nat /\ ttl <= Longest(a)
  <2>1. CASE a.kind = "api_key"
    <3>1. ExpiresIn(call[r]) = CacheTtl(end)
      BY <2>1 DEF ExpiresIn
    <3> QED BY <1>1, <1>3, <2>1, <3>1, CacheTtlBounds, LifetimeBounds
  <2>2. CASE a.kind # "api_key"
    <3>1. ExpiresIn(call[r]) = life /\ a.kind \in Grants
      BY <1>1, <2>2 DEF ExpiresIn, Grants
    <3>2. ttl \in Nat
      BY <1>1, <3>1, LifetimeBounds
    <3>3. CASE life = NoExpiry \/ life <= MaxLife
      BY <1>1, <2>2, <3>1, <3>3, LifetimeBounds
    <3>4. CASE life \in Nat /\ life > RefreshMargin + Horizon
      <4>1. ttl + RefreshMargin = life
        BY <1>1, <3>1, <3>4, CacheConfigAssumption, LifetimeBounds DEF Cacheable
      <4> QED BY <1>1, <1>b, <3>2, <3>4, <4>1, CacheConfigAssumption DEF Representable
    <3> QED BY <1>1, <1>2, <3>1, <3>3, <3>4, RemoteAssumption DEF Duration
  <2> QED BY <2>1, <2>2
<1>5. revoked[a] # Never => now + ttl <= revoked[a] + Delay(a) + Longest(a)
  BY <1>1, <1>2, <1>b, <1>4
<1>6. (a.kind = "api_key" /\ end # NoExpiry) =>
        \/ now + ttl <= end
        \/ now + ttl + 1 <= end + MaxFlight + Lifetime(NoExpiry)
  <2> SUFFICES ASSUME a.kind = "api_key", end # NoExpiry
               PROVE  \/ now + ttl <= end
                      \/ now + ttl + 1 <= end + MaxFlight + Lifetime(NoExpiry)
    OBVIOUS
  <2>1. ttl = Lifetime(CacheTtl(end))
    BY DEF ExpiresIn
  <2>2. life # 0 /\ end \in Nat
    BY <1>1, <1>2, <1>3, RemoteAssumption
  <2>3. CASE now <= end
    <3>1. CacheTtl(end) \in Nat /\ now + CacheTtl(end) <= end
      BY <1>1, <1>3, <2>3, CacheTtlBounds DEF Duration
    <3>2. ttl <= CacheTtl(end)
      BY <2>1, <3>1, CacheConfigAssumption, LifetimeBounds DEF Duration
    <3> QED BY <1>1, <1>4, <2>2, <3>1, <3>2
  <2>4. CASE end < now
    <3>1. ttl = Lifetime(NoExpiry)
      BY <1>1, <1>3, <2>1, <2>4, CacheTtlBounds
    <3> QED BY <1>1, <1>2, <1>3, <1>b, <2>2, <3>1
  <2> QED BY <1>1, <2>2, <2>3, <2>4
<1>7. (a.kind \in Grants /\ end # NoExpiry) => now + ttl + RefreshMargin <= end + Delay(a)
  <2> SUFFICES ASSUME a.kind \in Grants, end # NoExpiry
               PROVE  now + ttl + RefreshMargin <= end + Delay(a)
    OBVIOUS
  <2>1. ttl = Lifetime(life) /\ life # NoExpiry
    BY DEF ExpiresIn, Grants, EndOf
  <2>2. ttl + RefreshMargin = life
    BY <1>1, <2>1, LifetimeBounds DEF Cacheable
  <2> QED BY <1>1, <1>2, <1>3, <1>b, <1>4, <2>2
<1> QED BY <1>1, <1>3, <1>b, <1>4, <1>5, <1>6, <1>7

\* Every step preserves the inductive invariant.
LEMMA RemoteStep == IInv /\ [Next]_vars => IInv'
<1> SUFFICES ASSUME IInv, [Next]_vars PROVE IInv'
  OBVIOUS
<1>t. TypeOK
  BY DEF IInv
<1>n. now \in Nat /\ MaxFlight \in Nat /\ MaxWait \in Nat /\ RefreshMargin \in Nat
  BY <1>t, RemoteAssumption, CacheConfigAssumption DEF TypeOK
<1>p. PICK present \in SUBSET Asks : entries \in [present -> Entry]
  BY <1>t DEF TypeOK
<1>c. \A r \in Requests :
        /\ call[r] \in {Idle} \cup Asking \cup Answered \cup Failed
        /\ call[r] # Idle => call[r].ask \in Asks
        /\ call[r].at \in {"answered", "verifying"} =>
              call[r] \in Answered /\ call[r].since \in Nat
  BY <1>t DEF TypeOK, Idle, Asking, Answered, Failed
<1>0. ASSUME NEW r \in Requests, Goto(r, Idle), UNCHANGED <<mechanism, now, revoked, entries>>
      PROVE  IInv'
  BY <1>0, GotoStep DEF Recent, Idle
<1>1. ASSUME NEW r \in Requests, NEW a \in Asks, Lookup(r, a)
      PROVE  IInv'
  <2> DEFINE c == [at |-> "asking", ask |-> a]
  <2>1. c \in Asking /\ Recent(c)
    BY DEF Asking, Recent
  <2> QED BY <1>1, <2>1, GotoStep DEF Lookup
<1>2. ASSUME NEW r \in Requests, Introspected(r)
      PROVE  IInv'
  <2>1. PICK response \in Introspections, life \in Lives["api_key"] :
            /\ IsActive(response) => IsGood(call[r].ask)
            /\ IsInactive(response) => ~IsGood(call[r].ask)
            /\ Answer(r, ClaimsFromResponse(response), life)
    BY <1>2 DEF Introspected
  <2> QED BY <1>2, <2>1, AnswerStep, IntrospectionVerdicts DEF Introspected
<1>3. ASSUME NEW r \in Requests, Exchanged(r)
      PROVE  IInv'
  <2>1. PICK response \in TokenResponses, life \in Lives[call[r].ask.kind] :
            /\ response.error = "none" => IsGood(call[r].ask)
            /\ response.error \in Refusals => ~IsGood(call[r].ask)
            /\ Answer(r, TokenVerdict(call[r].ask.kind, response), life)
    BY <1>3 DEF Exchanged
  <2> QED BY <1>3, <2>1, AnswerStep, TokenVerdicts DEF Exchanged
<1>4. ASSUME NEW r \in Requests, Verify(r)
      PROVE  IInv'
  <2> DEFINE c == [call[r] EXCEPT !.at = "verifying"]
  <2>1. call[r] \in Answered /\ call[r].at = "answered" /\ call[r].ask.kind = "password"
    BY <1>4, <1>c DEF Verify
  <2>2. /\ c \in Answered /\ c.at = "verifying" /\ c.ask = call[r].ask
        /\ c.since = call[r].since /\ c.life = call[r].life
    BY <2>1 DEF Answered
  <2>3. Recent(call[r]) /\ call[r].since \in Nat
    BY <1>c, <2>1 DEF IInv, CallsRecent
  <2>4. now <= c.since + Patience(c)
    BY <1>n, <2>1, <2>2, <2>3 DEF Recent, Patience
  <2>5. Recent(c)
    BY <2>1, <2>2, <2>3, <2>4 DEF Recent
  <2> QED BY <1>4, <2>2, <2>5, GotoStep DEF Verify
<1>5. ASSUME NEW r \in Requests, Conclude(r)
      PROVE  IInv'
  <2> DEFINE a == call[r].ask
             ttl == Lifetime(ExpiresIn(call[r]))
             entry == [expires |-> now + ttl, used |-> 0, who |-> a, end |-> EndOf(call[r])]
  <2>u. /\ UNCHANGED <<mechanism, now, revoked>> /\ Goto(r, Idle)
        /\ call[r].at \in {"answered", "verifying"} /\ Ready(call[r])
    BY <1>5 DEF Conclude
  <2>1. ASSUME NEW kept \in SUBSET DOMAIN entries, entries' = Abandoned(entries, kept)
        PROVE  (\E there \in SUBSET Asks : entries' \in [there -> Entry]) /\ EntriesBounded'
    <3>1. entries' \in [kept -> Entry] /\ kept \subseteq Asks
      BY <1>p, <2>1 DEF Abandoned
    <3>2. ASSUME NEW x \in kept PROVE Bounded(x)'
      <4>1. entries'[x] = entries[x] /\ Bounded(x)
        BY <2>1 DEF Abandoned, IInv, EntriesBounded
      <4> QED BY <2>u, <4>1 DEF Bounded
    <3> QED BY <3>1, <3>2 DEF EntriesBounded
  <2>2. CASE UNCHANGED entries
    <3>1. IInv' \/ ~UNCHANGED <<mechanism, now, revoked, entries>>
      BY <1>0, <2>u
    <3> QED BY <2>2, <2>u, <3>1
  <2>3. ASSUME Cacheable(ttl), Representable(now + ttl),
               NEW kept \in SUBSET DOMAIN entries, entries' = Inserted(entries, kept, a, entry)
        PROVE  (\E there \in SUBSET Asks : entries' \in [there -> Entry]) /\ EntriesBounded'
    <3> HIDE DEF ttl
    <3>1. /\ a \in Asks
          /\ EndOf(call[r]) \in Duration
          /\ now + ttl \in Nat
          /\ now + ttl <= now + Longest(a)
          /\ revoked[a] # Never => now + ttl <= revoked[a] + Delay(a) + Longest(a)
          /\ (a.kind = "api_key" /\ EndOf(call[r]) # NoExpiry) =>
                \/ now + ttl <= EndOf(call[r])
                \/ now + ttl + 1 <= EndOf(call[r]) + MaxFlight + Lifetime(NoExpiry)
          /\ (a.kind \in Grants /\ EndOf(call[r]) # NoExpiry) =>
                now + ttl + RefreshMargin <= EndOf(call[r]) + Delay(a)
      BY <2>u, <2>3, NewEntryBounded DEF ttl
    <3>2. entry \in Entry
      BY <3>1 DEF Entry
    <3>3. entries' \in [kept \cup {a} -> Entry] /\ kept \cup {a} \subseteq Asks
      BY <1>p, <2>3, <3>1, <3>2 DEF Inserted
    <3>4. ASSUME NEW x \in kept \cup {a} PROVE Bounded(x)'
      <4>1. CASE x = a
        <5>1. entries'[x] = entry
          BY <2>3, <4>1 DEF Inserted
        <5> QED BY <2>u, <3>1, <4>1, <5>1 DEF Bounded
      <4>2. CASE x # a
        <5>1. entries'[x] = entries[x] /\ Bounded(x)
          BY <2>3, <4>2 DEF Inserted, IInv, EntriesBounded
        <5> QED BY <2>u, <5>1 DEF Bounded
      <4> QED BY <4>1, <4>2
    <3> QED BY <3>3, <3>4 DEF EntriesBounded
  <2>4. CASE ~UNCHANGED entries
    <3>1. PICK kept \in Kept(entries, CacheKey(a), now) :
              entries' = IF Representable(now + ttl)
                         THEN Inserted(entries, kept, CacheKey(a), entry)
                         ELSE Abandoned(entries, kept)
      BY <1>5, <2>4 DEF Conclude
    <3>2. kept \subseteq DOMAIN entries /\ Cacheable(ttl)
      BY <1>5, <2>4, KeptOld DEF Conclude
    <3>3. (\E there \in SUBSET Asks : entries' \in [there -> Entry]) /\ EntriesBounded'
      BY <2>1, <2>3, <3>1, <3>2 DEF CacheKey
    <3>4. TypeOK' /\ CallsRecent'
      <4>1. TypeOK'
        BY <1>t, <2>u, <3>3 DEF TypeOK, Goto
      <4>2. ASSUME NEW q \in Requests PROVE Recent(call[q])'
        <5>1. call'[q] = Idle \/ call'[q] = call[q]
          BY <1>t, <2>u DEF TypeOK, Goto
        <5>2. Recent(call[q])
          BY DEF IInv, CallsRecent
        <5> QED BY <2>u, <5>1, <5>2 DEF Recent, Patience, Idle
      <4> QED BY <4>1, <4>2 DEF CallsRecent
    <3> QED BY <3>3, <3>4 DEF IInv
  <2> QED BY <2>2, <2>4
<1>6. ASSUME NEW r \in Requests, End(r)
      PROVE  IInv'
  BY <1>0, <1>6 DEF End
<1>7. ASSUME NEW a \in Asks, Revoke(a)
      PROVE  IInv'
  <2>u. /\ UNCHANGED <<mechanism, now, entries, call>>
        /\ revoked[a] = Never
        /\ revoked' = [revoked EXCEPT ![a] = now]
    BY <1>7 DEF Revoke
  <2>r. \A x \in Asks : revoked'[x] = revoked[x] \/ (revoked[x] = Never /\ revoked'[x] = now)
    BY <1>t, <2>u DEF TypeOK
  <2>1. TypeOK'
    BY <1>t, <2>u DEF TypeOK
  <2>2. ASSUME NEW x \in DOMAIN entries PROVE Bounded(x)'
    <3>1. Bounded(x) /\ x \in Asks /\ entries[x].expires \in Nat
      BY <1>p DEF IInv, EntriesBounded, Entry
    <3>2. Longest(x) \in Nat /\ Delay(x) \in Nat
      BY <3>1, Bounds
    <3>3. revoked'[x] # Never => entries[x].expires <= revoked'[x] + Delay(x) + Longest(x)
      BY <1>n, <2>r, <3>1, <3>2 DEF Bounded
    <3> QED BY <2>u, <3>1, <3>3 DEF Bounded
  <2>3. ASSUME NEW q \in Requests PROVE Recent(call[q])'
    <3>1. Recent(call[q])
      BY DEF IInv, CallsRecent
    <3>2. CASE call[q] = Idle
      BY <2>u, <3>2 DEF Recent, Idle
    <3>3. CASE call[q] # Idle
      <4>1. call[q].ask \in Asks /\ Never # now
        BY <1>c, <1>n, <3>3, RemoteAssumption
      <4> QED BY <2>u, <2>r, <3>1, <4>1 DEF Recent, Patience
    <3> QED BY <3>2, <3>3
  <2> QED BY <2>1, <2>2, <2>3, <2>u DEF IInv, EntriesBounded, CallsRecent
<1>8. ASSUME Tick
      PROVE  IInv'
  <2>u. UNCHANGED <<mechanism, revoked, entries, call>> /\ now' = now + 1
    BY <1>8 DEF Tick
  <2>1. TypeOK'
    BY <1>t, <2>u DEF TypeOK
  <2>2. ASSUME NEW x \in DOMAIN entries PROVE Bounded(x)'
    <3>1. Bounded(x) /\ x \in Asks /\ entries[x].expires \in Nat
      BY <1>p DEF IInv, EntriesBounded, Entry
    <3>2. Longest(x) \in Nat
      BY <3>1, Bounds
    <3> QED BY <1>n, <2>u, <3>1, <3>2 DEF Bounded
  <2>3. ASSUME NEW q \in Requests PROVE Recent(call[q])'
    <3>1. Recent(call[q])
      BY DEF IInv, CallsRecent
    <3>2. CASE call[q].at \in {"answered", "verifying"}
      <4>1. call[q].since \in Nat /\ now < call[q].since + Patience(call[q])
            /\ Patience(call[q]) \in Nat
        BY <1>8, <1>c, <1>n, <3>2 DEF Tick, Patience
      <4> QED BY <1>n, <2>u, <3>1, <4>1 DEF Recent, Patience
    <3>3. CASE call[q].at \notin {"answered", "verifying"}
      BY <2>u, <3>1, <3>3 DEF Recent
    <3> QED BY <3>2, <3>3
  <2> QED BY <2>1, <2>2, <2>3, <2>u DEF IInv, EntriesBounded, CallsRecent
<1>9. ASSUME NEW r \in Requests, VerifyFails(r)
      PROVE  IInv'
  <2>1. PICK token \in IdTokens \ {"good"} :
            Goto(r, Failure(call[r].ask, IdTokenVerdict(token), token))
    BY <1>9 DEF VerifyFails
  <2> DEFINE c == Failure(call[r].ask, IdTokenVerdict(token), token)
  <2>2. c \in Failed /\ Recent(c)
    BY <1>9, <1>c, <2>1, IdTokenVerdicts DEF VerifyFails, Failure, Failed, Recent, Idle
  <2> QED BY <1>9, <2>1, <2>2, GotoStep DEF VerifyFails
<1>10. ASSUME NEW r \in Requests, Fault(r)
       PROVE  IInv'
  <2> DEFINE c == Failure(call[r].ask, "internal", "none")
  <2>1. c \in Failed /\ Recent(c)
    BY <1>10, <1>c DEF Fault, Failure, Failed, Errors, Recent, Idle
  <2> QED BY <1>10, <2>1, GotoStep DEF Fault
<1>11. CASE UNCHANGED vars
  BY <1>11 DEF vars, IInv, TypeOK, EntriesBounded, Bounded, CallsRecent, Recent, Patience
<1> QED BY <1>1, <1>2, <1>3, <1>4, <1>5, <1>6, <1>7, <1>8, <1>9, <1>10, <1>11 DEF Next

\* What a lookup finds is a bounded entry.
LEMMA ServedBounded ==
    ASSUME IInv, NEW a \in Asks, Served(a)
    PROVE  /\ CacheKey(a) = a
           /\ Bounded(a)
           /\ now < entries[a].expires
           /\ now \in Nat /\ entries[a].expires \in Nat
           /\ entries[a].end = NoExpiry \/ entries[a].end \in Nat
           /\ revoked[a] = Never \/ revoked[a] \in Nat
<1>1. PICK present \in SUBSET Asks : entries \in [present -> Entry]
  BY DEF IInv, TypeOK
<1>2. CacheKey(a) = a /\ a \in present /\ now < entries[a].expires
  BY <1>1 DEF Served, Hit, CacheKey
<1>3. entries[a] \in Entry
  BY <1>1, <1>2
<1>4. Bounded(a)
  BY <1>1, <1>2 DEF IInv, EntriesBounded
<1> QED BY <1>2, <1>3, <1>4 DEF Entry, Duration, IInv, TypeOK

\* The cache, its entries and the calls in progress always have their types.
THEOREM RemoteTypeCorrect == Spec => []TypeOK
<1>1. IInv => TypeOK
  BY DEF IInv
<1> QED BY <1>1, RemoteInit, RemoteStep, PTL DEF Spec

\* A revoked key or a replaced secret is served for less than the delay plus the
\* longest lifetime, and only ever to the scope, kind and credential that asked.
THEOREM RemoteRevocation == Spec => []RevocationLagBounded
<1>1. IInv => RevocationLagBounded
  BY ServedBounded, Bounds DEF RevocationLagBounded, Bounded
<1> QED BY <1>1, RemoteInit, RemoteStep, PTL DEF Spec

\* An expired key is served for less than one flight plus the fallback lifetime.
THEOREM RemoteOvershoot == Spec => []OvershootBounded
<1>1. IInv => OvershootBounded
  <2> SUFFICES ASSUME IInv, NEW a \in Asks, Served(a), a.kind = "api_key",
                      entries[CacheKey(a)].end # NoExpiry, entries[CacheKey(a)].end <= now
               PROVE  now + 1 < entries[CacheKey(a)].end + MaxFlight + Lifetime(NoExpiry)
    BY DEF OvershootBounded
  <2> QED BY ServedBounded, Bounds, RemoteAssumption DEF Bounded
<1> QED BY <1>1, RemoteInit, RemoteStep, PTL DEF Spec

\* A grant's principal outlives its token by less than what the delay exceeds the
\* refresh margin.
THEOREM RemoteGrantOvershoot == Spec => []GrantOvershootBounded
<1>1. IInv => GrantOvershootBounded
  <2> SUFFICES ASSUME IInv, NEW a \in Asks, Served(a), a.kind \in Grants,
                      entries[CacheKey(a)].end # NoExpiry
               PROVE  now + RefreshMargin < entries[CacheKey(a)].end + Delay(a)
    BY DEF GrantOvershootBounded
  <2> QED BY ServedBounded, Bounds, CacheConfigAssumption DEF Bounded
<1> QED BY <1>1, RemoteInit, RemoteStep, PTL DEF Spec

\* A request is told that its credential is invalid because it was revoked or
\* because its ID token was rejected: no outage and no malformed answer, of an
\* endpoint or of the refresh of the keys, ever becomes "invalid credential".
THEOREM RemoteRefusals == Spec => []RefusedForCause
<1>1. IInv => RefusedForCause
  BY DEF IInv, CallsRecent, Recent, RefusedForCause
<1> QED BY <1>1, RemoteInit, RemoteStep, PTL DEF Spec

-----------------------------------------------------------------------------
\* The cache keeps its bound although several requests may conclude at once.
Fits == IsFiniteSet(DOMAIN entries) /\ Cardinality(DOMAIN entries) <= MaxEntries

\* What Conclude stores or abandons still fits.
LEMMA ConcludeFits ==
    ASSUME Fits, NEW r \in Requests, Conclude(r)
    PROVE  Fits'
<1> DEFINE k == CacheKey(call[r].ask)
           ttl == Lifetime(ExpiresIn(call[r]))
           entry == [expires |-> now + ttl, used |-> 0, who |-> call[r].ask,
                     end |-> EndOf(call[r])]
<1>1. CASE ~Cacheable(ttl)
  BY <1>1 DEF Conclude, Fits
<1>2. CASE Cacheable(ttl)
  <2>0. MaxEntries # 0
    BY <1>2 DEF Cacheable
  <2>1. PICK kept \in Kept(entries, k, now) :
          entries' = IF Representable(now + ttl)
                     THEN Inserted(entries, kept, k, entry)
                     ELSE Abandoned(entries, kept)
    BY <1>2 DEF Conclude
  <2>2. kept \subseteq DOMAIN entries /\ Cardinality(kept \cup {k}) <= MaxEntries
    BY <2>0, <2>1, KeptFits DEF Fits
  <2>3. IsFiniteSet(kept \cup {k}) /\ Cardinality(kept \cup {k}) \in Nat
    BY <2>2, FS_Subset, FS_AddElement, FS_CardinalityType DEF Fits
  <2>4. DOMAIN entries' \subseteq kept \cup {k}
    BY <2>1 DEF Inserted, Abandoned
  <2>5. /\ IsFiniteSet(DOMAIN entries')
        /\ Cardinality(DOMAIN entries') \in Nat
        /\ Cardinality(DOMAIN entries') <= Cardinality(kept \cup {k})
    BY <2>3, <2>4, FS_Subset, FS_CardinalityType
  <2> QED BY <2>2, <2>3, <2>5, CacheConfigAssumption DEF Fits
<1> QED BY <1>1, <1>2

\* So it always does.
LEMMA RemoteFits == Spec => []Fits
<1>1. Init => Fits
  BY FS_EmptySet, CacheConfigAssumption DEF Init, Fits
<1>2. Fits /\ [Next]_vars => Fits'
  <2> SUFFICES ASSUME Fits, [Next]_vars PROVE Fits'
    OBVIOUS
  <2>1. CASE UNCHANGED entries
    BY <2>1 DEF Fits
  <2> QED BY <2>1, ConcludeFits
          DEF Next, Lookup, Introspected, Exchanged, Answer, Verify, VerifyFails, Fault, End,
              Revoke, Tick, vars
<1> QED BY <1>1, <1>2, PTL DEF Spec

\* The end of a call, seen as what a lookup finds: it learns the principal, fails
\* after it may have made room, or keeps the answer to itself.
LEMMA ConcludeLearns ==
    ASSUME IInv, Fits, NEW r \in Requests, Conclude(r)
    PROVE  \/ UNCHANGED <<entries, now>>
           \/ Promise!Learn(call[r].ask)
           \/ Promise!Fail(call[r].ask)
<1> DEFINE k == call[r].ask
           live == Live(entries, now)
           ttl == Lifetime(ExpiresIn(call[r]))
           entry == [expires |-> now + ttl, used |-> 0, who |-> k, end |-> EndOf(call[r])]
<1>u. now' = now
  BY DEF Conclude
<1>0. CASE ~Cacheable(ttl)
  BY <1>0 DEF Conclude
<1>c. CASE Cacheable(ttl)
  <2>n. now \in Nat /\ ttl \in Nat \ {0} /\ MaxEntries # 0
    <3>1. k \in Asks /\ call[r].life \in Duration /\ call[r].since \in Nat /\ now \in Nat
      BY DEF Conclude, IInv, TypeOK, Idle, Asking, Answered, Failed
    <3>2. EndOf(call[r]) \in Duration
      BY <3>1 DEF EndOf, Duration
    <3>3. ExpiresIn(call[r]) \in Duration
      BY <3>1, <3>2, CacheTtlBounds DEF ExpiresIn
    <3> QED BY <1>c, <3>1, <3>3, LifetimeBounds DEF Cacheable
  <2>1. PICK kept \in Kept(entries, k, now) :
          entries' = IF Representable(now + ttl)
                     THEN Inserted(entries, kept, k, entry)
                     ELSE Abandoned(entries, kept)
    BY <1>c DEF Conclude, CacheKey
  <2> DEFINE room == kept \cap live
  <2>2. entry.expires > now
    BY <2>n
  <2>3. /\ room \in Rooms(live, k)
        /\ Finds(Inserted(entries, kept, k, entry), now) =
              Learnt(Finds(entries, now), room, k, entry.expires)
        /\ Finds(Abandoned(entries, kept), now) = Only(Finds(entries, now), room)
    <3> HIDE DEF k, entry
    <3> QED BY <2>n, <2>1, <2>2, InsertFinds DEF Fits
  <2>4. room \in Promise!Room(k)
    <3>1. DOMAIN Finds(entries, now) = live
      BY DEF Finds
    <3>2. Promise!Cardinality(live) = Cardinality(live)
      BY DEF Promise!Cardinality, Cardinality
    <3> QED BY <2>3, <3>1, <3>2 DEF Rooms, Promise!Room
  <2>5. CASE Representable(now + ttl)
    <3>1. Finds(entries, now)' = Learnt(Finds(entries, now), room, k, now + ttl)
      BY <1>u, <2>1, <2>3, <2>5
    <3>2. Finds(entries', now')[k] = now + ttl
      BY <3>1 DEF Learnt
    <3>3. ttl \in 1 .. Horizon
      BY <2>n, <2>5, CacheConfigAssumption DEF Representable
    <3> QED BY <1>u, <2>n, <2>4, <3>1, <3>2, <3>3 DEF Promise!Learn, Learnt
  <2>6. CASE ~Representable(now + ttl)
    <3>1. Finds(entries, now)' = Only(Finds(entries, now), room)
      BY <1>u, <2>1, <2>3, <2>6
    <3> QED BY <1>u, <2>4, <3>1 DEF Promise!Fail, Promise!Only, Only
  <2> QED BY <2>5, <2>6
<1> QED BY <1>0, <1>c

\* Every step of the mechanisms is one of the promise, or none.
LEMMA RemoteSteps == IInv /\ Fits /\ [Next]_vars => [Promise!PNext]_(Promise!pvars)
<1> SUFFICES ASSUME IInv, Fits, [Next]_vars PROVE [Promise!PNext]_(Promise!pvars)
  OBVIOUS
<1> USE DEF Promise!pvars
<1>0. CASE UNCHANGED <<entries, now>>
  BY <1>0
<1>1. ASSUME NEW r \in Requests, Conclude(r)
      PROVE  [Promise!PNext]_(Promise!pvars)
  <2>1. call[r].ask \in Asks
    BY <1>1 DEF Conclude, IInv, TypeOK, Idle, Asking, Answered, Failed
  <2> QED BY <1>0, <1>1, <2>1, ConcludeLearns DEF Promise!PNext
<1>2. CASE Tick
  <2>1. entries' = entries /\ now' = now + 1 /\ now \in Nat
        /\ \A a \in DOMAIN entries : entries[a].expires \in Nat
    BY <1>2 DEF Tick, IInv, TypeOK, Entry
  <2>2. Live(entries', now') = {a \in Live(entries, now) : entries[a].expires > now'}
    BY <2>1 DEF Live
  <2>3. Promise!Pass
    BY <2>1, <2>2 DEF Promise!Pass, Promise!Only, Finds
  <2> QED BY <2>3 DEF Promise!PNext
<1> QED BY <1>0, <1>1, <1>2
        DEF Next, Lookup, Introspected, Exchanged, Answer, Verify, VerifyFails, Fault, End,
              Revoke, vars

\* However answers, conclusions and the clock interleave, a lookup finds what was
\* concluded for that very credential, for its lifetime: what this module has as
\* its cache promises no more than the concurrent one does.
THEOREM RemoteKeepsPromise == Spec => KeepsPromise
<1>1. Init => Promise!PInit
  BY DEF Init, Promise!PInit, Finds, Live
<1> QED BY <1>1, RemoteSteps, RemoteInit, RemoteStep, RemoteFits, PTL
        DEF Spec, KeepsPromise, Promise!PSpec
=============================================================================
