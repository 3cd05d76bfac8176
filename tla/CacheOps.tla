------------------------------ MODULE CacheOps ------------------------------
(***************************************************************************)
(* The sequential content of src/cache.rs: what one critical section of    *)
(* CredentialCache does to the entry map.  A map is a function whose       *)
(* domain is the set of keys present; an entry is a record with at least   *)
(* the fields `expires' (Entry::expires_at) and `used' (Entry::last_used). *)
(* The concurrent cache (CredentialCache) and the authenticators that own  *)
(* one are built from these operators.                                     *)
(***************************************************************************)
EXTENDS Integers, FiniteSets

CONSTANTS
    RefreshMargin,  \* CacheConfig::refresh_margin
    FallbackTtl,    \* CacheConfig::fallback_ttl
    MaxEntries,     \* CacheConfig::max_entries
    NoExpiry,       \* the `None' of an Option<Duration>
    Horizon         \* the latest Instant there is

ASSUME CacheConfigAssumption ==
    /\ RefreshMargin \in Nat
    /\ FallbackTtl \in Nat
    /\ MaxEntries \in Nat
    /\ NoExpiry \notin Nat
    /\ Horizon \in Nat

Duration == Nat \cup {NoExpiry}

\* Mutant: the subtraction does not saturate.
Lifetime_Unsaturated(expires_in) ==
    (IF expires_in = NoExpiry THEN FallbackTtl ELSE expires_in) - RefreshMargin

\* The time an entry is kept: `expires_in', or the fallback when the provider
\* gave none, less the margin, saturating at zero.
Lifetime(expires_in) ==
    LET full == IF expires_in = NoExpiry THEN FallbackTtl ELSE expires_in
    IN  IF full > RefreshMargin THEN full - RefreshMargin ELSE 0

\* Whether insert() stores anything at all.
Cacheable(ttl) == ttl # 0 /\ MaxEntries # 0

\* get(): present and not yet expired.
Hit(es, k, now) == k \in DOMAIN es /\ now < es[k].expires

\* The keys that survive `retain(|_, entry| entry.expires_at > now)'.
Live(es, now) == {k \in DOMAIN es : es[k].expires > now}

\* What get() finds, and until when.
Finds(es, now) == [k \in Live(es, now) |-> es[k].expires]

\* How many entries the eviction loop removes from a map with these keys.
Excess(live) ==
    IF Cardinality(live) < MaxEntries THEN 0
                                      ELSE Cardinality(live) - MaxEntries + 1

\* The sets of keys the eviction loop may remove: `Excess' of the smallest
\* last_used readings.  HashMap order breaks ties, hence a set of sets.
Coldest(es, live) ==
    {victims \in SUBSET live :
        /\ Cardinality(victims) = Excess(live)
        /\ \A v \in victims, s \in live \ victims : es[v].used <= es[s].used}

\* Mutant: capacity is enforced even when the key is already present.
Kept_IgnoresPresence(es, k, now) ==
    IF Cardinality(DOMAIN es) < MaxEntries
    THEN {DOMAIN es}
    ELSE {Live(es, now) \ victims : victims \in Coldest(es, Live(es, now))}

\* Mutant: the capacity test is off by one.
Kept_OffByOne(es, k, now) ==
    IF k \in DOMAIN es \/ Cardinality(DOMAIN es) <= MaxEntries
    THEN {DOMAIN es}
    ELSE {Live(es, now) \ victims : victims \in Coldest(es, Live(es, now))}

\* The sets of old keys an insert of k may leave behind.  Room is made only at
\* capacity and only for a new key.
Kept(es, k, now) ==
    IF k \in DOMAIN es \/ Cardinality(DOMAIN es) < MaxEntries
    THEN {DOMAIN es}
    ELSE {Live(es, now) \ victims : victims \in Coldest(es, Live(es, now))}

\* `Instant::now() + ttl' panics when the sum is beyond the last Instant.
Representable(time) == time <= Horizon

\* The map after insert() stored `entry' under k, keeping `kept' of the others.
Inserted(es, kept, k, entry) ==
    [x \in kept \cup {k} |-> IF x = k THEN entry ELSE es[x]]

\* The map when insert() panicked at its last statement, under the write lock:
\* room has been made, and nothing stored.  Every later lock() recovers the map
\* from the poisoned lock (`into_inner').
Abandoned(es, kept) == [x \in kept |-> es[x]]

\* The map after invalidate().
Removed(es, k) == [x \in DOMAIN es \ {k} |-> es[x]]
=============================================================================
