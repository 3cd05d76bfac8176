--------------------------- MODULE CredentialCache ---------------------------
(***************************************************************************)
(* The concurrent cache of src/cache.rs.  get() and insert() draw their    *)
(* reading of the logical clock BEFORE they queue for the RwLock, so each  *)
(* is two steps: the tick, then the critical section.  Between them any    *)
(* other thread may run, and time may pass.  A critical section is one     *)
(* step: writers exclude everyone, and readers touch nothing of each other *)
(* but the atomic last_used, whose stores happen in the order of the read  *)
(* steps.                                                                  *)
(*                                                                         *)
(* Cached values are left out: a key determines which entry is found, and  *)
(* the authenticators' modules say what the value stands for.              *)
(***************************************************************************)
EXTENDS CacheOps

CONSTANTS
    Keys,       \* CacheKey values
    Threads,    \* concurrent callers
    ExpiresIn,  \* the expires_in arguments insert() is called with
    MaxClock,   \* bound on the logical clock (an AtomicU64 in the code)
    MaxTime     \* bound on Instant::now()

ASSUME CacheModelAssumption ==
    /\ IsFiniteSet(Keys)
    /\ ExpiresIn \subseteq Duration
    /\ MaxClock \in Nat
    /\ MaxTime \in Nat

VARIABLES
    entries,    \* RwLock<HashMap<CacheKey, Entry>>
    clock,      \* AtomicU64: the next reading tick() returns
    now,        \* Instant::now()
    op          \* the call each thread is inside, after its tick

vars == <<entries, clock, now, op>>

Entry == [expires : Nat, used : Nat]
Idle == [kind |-> "idle"]
GetOp == [kind : {"get"}, key : Keys, tick : Nat]
InsertOp == [kind : {"insert"}, key : Keys, ttl : Nat, tick : Nat]

TypeOK ==
    /\ \E present \in SUBSET Keys : entries \in [present -> Entry]
    /\ clock \in Nat
    /\ now \in Nat
    /\ op \in [Threads -> {Idle} \cup GetOp \cup InsertOp]

Init ==
    /\ entries = [k \in {} |-> [expires |-> 0, used |-> 0]]
    /\ clock = 0
    /\ now = 0
    /\ op = [t \in Threads |-> Idle]

-----------------------------------------------------------------------------
\* Mutant: the clock is read with load() instead of fetch_add(1).
Tick_LoadOnly ==
    /\ clock < MaxClock
    /\ clock' \in {clock, clock + 1}

\* tick(): fetch_add(1) returns the old reading.
Tick ==
    /\ clock < MaxClock
    /\ clock' = clock + 1

\* get(key), up to its tick.
GetTick(t, k) ==
    /\ op[t] = Idle
    /\ Tick
    /\ op' = [op EXCEPT ![t] = [kind |-> "get", key |-> k, tick |-> clock]]
    /\ UNCHANGED <<entries, now>>

\* Mutant: a hit also extends the life of the entry.
GetRead_Extends(t) ==
    /\ op[t].kind = "get"
    /\ entries' = IF Hit(entries, op[t].key, now)
                  THEN [entries EXCEPT ![op[t].key] =
                            [expires |-> @.expires + 1, used |-> op[t].tick]]
                  ELSE entries
    /\ op' = [op EXCEPT ![t] = Idle]
    /\ UNCHANGED <<clock, now>>

\* get(), under the read lock: a hit stores the reading drawn earlier.
GetRead(t) ==
    /\ op[t].kind = "get"
    /\ entries' = IF Hit(entries, op[t].key, now)
                  THEN [entries EXCEPT ![op[t].key].used = op[t].tick]
                  ELSE entries
    /\ op' = [op EXCEPT ![t] = Idle]
    /\ UNCHANGED <<clock, now>>

\* insert(key, _, expires_in), up to its tick.  An uncacheable lifetime returns
\* at once and changes nothing, so only the cacheable ones are steps.
InsertTick(t, k, expires_in) ==
    /\ op[t] = Idle
    /\ Cacheable(Lifetime(expires_in))
    /\ Tick
    /\ op' = [op EXCEPT ![t] = [kind |-> "insert", key |-> k,
                                ttl |-> Lifetime(expires_in), tick |-> clock]]
    /\ UNCHANGED <<entries, now>>

\* Mutant: the old entry of the key is taken out before the expiry of the new one
\* is computed, so a panic there costs it.
InsertWrite_DropsOldFirst(t) ==
    /\ op[t].kind = "insert"
    /\ LET k == op[t].key
           entry == [expires |-> now + op[t].ttl, used |-> op[t].tick]
       IN  \E kept \in Kept(entries, k, now) :
               entries' = IF Representable(entry.expires)
                          THEN Inserted(entries, kept, k, entry)
                          ELSE Abandoned(entries, kept \ {k})
    /\ op' = [op EXCEPT ![t] = Idle]
    /\ UNCHANGED <<clock, now>>

\* insert(), under the write lock, up to its end or its panic.
InsertWrite(t) ==
    /\ op[t].kind = "insert"
    /\ LET k == op[t].key
           entry == [expires |-> now + op[t].ttl, used |-> op[t].tick]
       IN  \E kept \in Kept(entries, k, now) :
               entries' = IF Representable(entry.expires)
                          THEN Inserted(entries, kept, k, entry)
                          ELSE Abandoned(entries, kept)
    /\ op' = [op EXCEPT ![t] = Idle]
    /\ UNCHANGED <<clock, now>>

\* invalidate(key) takes only the write lock: it draws no tick.
Invalidate(t, k) ==
    /\ op[t] = Idle
    /\ k \in DOMAIN entries
    /\ entries' = Removed(entries, k)
    /\ UNCHANGED <<clock, now, op>>

\* Time passes between any two steps.
Advance ==
    /\ now < MaxTime
    /\ now' = now + 1
    /\ UNCHANGED <<entries, clock, op>>

Next ==
    \/ \E t \in Threads :
        \/ GetRead(t)
        \/ InsertWrite(t)
        \/ \E k \in Keys :
            \/ GetTick(t, k)
            \/ Invalidate(t, k)
            \/ \E e \in ExpiresIn : InsertTick(t, k, e)
    \/ Advance

Spec == Init /\ [][Next]_vars

-----------------------------------------------------------------------------
\* insert() keeps the map within max_entries, whatever interleaving of slow
\* writers reaches the write lock: the check and the eviction happen under the
\* same lock acquisition as the insertion.
CapacityBound == Cardinality(DOMAIN entries) <= MaxEntries

Pending(t) == op[t].kind # "idle"

\* No reading of the clock is ever held twice, in the map or by a call still on
\* its way to the lock, and none is ahead of the clock.  This is what makes the
\* `min_by_key' of the eviction loop a choice of ONE entry.
TicksUnique ==
    /\ \A k \in DOMAIN entries : entries[k].used < clock
    /\ \A t \in Threads : Pending(t) => op[t].tick < clock
    /\ \A j, k \in DOMAIN entries : entries[j].used = entries[k].used => j = k
    /\ \A s, t \in Threads :
        Pending(s) /\ Pending(t) /\ op[s].tick = op[t].tick => s = t
    /\ \A k \in DOMAIN entries, t \in Threads :
        Pending(t) => entries[k].used # op[t].tick

\* A step of insert() for a key that is not there.
InsertsNew ==
    \E t \in Threads :
        /\ op[t].kind = "insert"
        /\ op[t].key \notin DOMAIN entries
        /\ op'[t] = Idle

\* Why a step may lose k.  Nobody was inside a call that ended: it is the
\* invalidation of k, and costs k alone.  Or an insert of a new key, whether it
\* ends or panics, met a cache full of usable entries: then everything else
\* usable stays, and was used later than k.
CostIsTheColdest(k) ==
    \/ /\ UNCHANGED op
       /\ entries' = Removed(entries, k)
    \/ /\ InsertsNew
       /\ Cardinality(Live(entries, now)) = MaxEntries
       /\ \A s \in Live(entries, now) \ {k} :
              /\ s \in DOMAIN entries'
              /\ entries[k].used < entries[s].used

\* One insert costs at most one credential that was still usable, and only when
\* the cache was full of usable ones; the one it costs is strictly colder than
\* every one it keeps.  Re-inserting a present key costs nothing, not even when it
\* panics under the lock, and the one a panicking insert of a new key costs is
\* the coldest as well: `op' changes in every step of an insert, so only
\* invalidate() can take the first disjunct of CostIsTheColdest.
EvictsOnlyTheColdest ==
    [][\A k \in Live(entries, now) \ DOMAIN entries' : CostIsTheColdest(k)]_vars

Promise == INSTANCE CachePromise WITH
    found <- Finds(entries, now),
    Lifetimes <- {Lifetime(e) : e \in ExpiresIn}

\* With its locks, its readings drawn too early, and expired entries still in the
\* map, the cache does what CachePromise says in one step per call: a hit extends
\* nothing, a lifetime counts from the write, and expired entries cost no live one.
KeepsPromise == Promise!PSpec
=============================================================================
