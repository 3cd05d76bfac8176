------------------------ MODULE CredentialCacheProofs ------------------------
(***************************************************************************)
(* What the concurrent cache guarantees for every number of keys and       *)
(* threads, every configuration and every clock bound.                     *)
(***************************************************************************)
EXTENDS CredentialCache, CacheOpsProofs

\* insert() computes a lifetime that is a natural number, whatever expires_in.
LEMMA LifetimeType ==
    ASSUME NEW e \in ExpiresIn
    PROVE  Lifetime(e) \in Nat
  BY CacheConfigAssumption, CacheModelAssumption DEF Lifetime, Duration

-----------------------------------------------------------------------------
\* insert() draws a tick only after it has found the lifetime cacheable, so a
\* writer on its way to the lock implies a cache that may hold something, and
\* brings a lifetime that was asked for.
CacheableInserts ==
    \A t \in Threads : op[t].kind = "insert" =>
        /\ MaxEntries # 0
        /\ op[t].ttl \in {Lifetime(e) : e \in ExpiresIn} \ {0}

IInv == TypeOK /\ CapacityBound /\ CacheableInserts

\* The inductive invariant of the cache.
LEMMA CacheInductive == Spec => []IInv
<1>1. Init => IInv
  <2> SUFFICES ASSUME Init PROVE IInv
    OBVIOUS
  <2>1. DOMAIN entries = {}
    BY DEF Init
  <2>2. TypeOK
    <3>1. entries \in [{} -> Entry]
      BY DEF Init
    <3> QED BY <3>1 DEF Init, TypeOK
  <2>3. CapacityBound
    BY <2>1, FS_EmptySet, CacheConfigAssumption DEF CapacityBound
  <2>4. CacheableInserts
    BY DEF Init, CacheableInserts, Idle
  <2> QED BY <2>2, <2>3, <2>4 DEF IInv
<1>2. IInv /\ [Next]_vars => IInv'
  <2> SUFFICES ASSUME IInv, [Next]_vars PROVE IInv'
    OBVIOUS
  <2> USE DEF IInv
  <2>p. PICK present \in SUBSET Keys : entries \in [present -> Entry]
    BY DEF TypeOK
  <2>d. /\ DOMAIN entries = present
        /\ IsFiniteSet(DOMAIN entries)
    BY <2>p, FS_Subset, CacheModelAssumption
  <2>1. ASSUME NEW t \in Threads, NEW k \in Keys, GetTick(t, k)
        PROVE  IInv'
    <3>1. op' \in [Threads -> {Idle} \cup GetOp \cup InsertOp] /\ clock' \in Nat
      BY <2>1 DEF GetTick, Tick, TypeOK, GetOp
    <3>2. TypeOK'
      BY <2>1, <2>p, <3>1 DEF GetTick, TypeOK
    <3>3. CacheableInserts'
      BY <2>1 DEF GetTick, CacheableInserts, TypeOK
    <3> QED BY <2>1, <3>2, <3>3 DEF GetTick, CapacityBound
  <2>2. ASSUME NEW t \in Threads, GetRead(t)
        PROVE  IInv'
    <3>1. op[t].tick \in Nat
      BY <2>2 DEF GetRead, TypeOK, Idle, GetOp, InsertOp
    <3>2. entries' \in [present -> Entry]
      BY <2>2, <2>p, <3>1 DEF GetRead, Entry, Hit
    <3>3. TypeOK'
      BY <2>2, <3>2 DEF GetRead, TypeOK
    <3>4. CacheableInserts'
      BY <2>2 DEF GetRead, CacheableInserts, TypeOK, Idle
    <3> QED BY <2>d, <3>2, <3>3, <3>4 DEF CapacityBound
  <2>3. ASSUME NEW t \in Threads, NEW k \in Keys, NEW e \in ExpiresIn,
               InsertTick(t, k, e)
        PROVE  IInv'
    <3>1. op' \in [Threads -> {Idle} \cup GetOp \cup InsertOp] /\ clock' \in Nat
      BY <2>3, LifetimeType DEF InsertTick, Tick, TypeOK, InsertOp
    <3>2. TypeOK'
      BY <2>3, <2>p, <3>1 DEF InsertTick, TypeOK
    <3>3. CacheableInserts'
      BY <2>3 DEF InsertTick, Cacheable, CacheableInserts, TypeOK
    <3> QED BY <2>3, <3>2, <3>3 DEF InsertTick, CapacityBound
  <2>4. ASSUME NEW t \in Threads, InsertWrite(t)
        PROVE  IInv'
    <3>1. /\ op[t].key \in Keys /\ op[t].ttl \in Nat /\ op[t].tick \in Nat
          /\ MaxEntries # 0
      BY <2>4 DEF InsertWrite, TypeOK, Idle, GetOp, InsertOp, CacheableInserts
    <3> DEFINE k == op[t].key
               entry == [expires |-> now + op[t].ttl, used |-> op[t].tick]
    <3>2. PICK kept \in Kept(entries, k, now) :
            entries' = IF Representable(entry.expires)
                       THEN Inserted(entries, kept, k, entry)
                       ELSE Abandoned(entries, kept)
      BY <2>4 DEF InsertWrite
    <3>3. entry \in Entry
      BY <3>1 DEF Entry, TypeOK
    <3>4. /\ kept \subseteq present
          /\ Cardinality(kept \cup {k}) <= MaxEntries
      BY <2>d, <3>1, <3>2, KeptFits DEF CapacityBound
    <3>a. PICK stored \in {kept, kept \cup {k}} :
            entries' \in [stored -> Entry]
      BY <2>p, <3>1, <3>2, <3>3, <3>4 DEF Inserted, Abandoned
    <3>5. /\ stored \in SUBSET Keys
          /\ Cardinality(stored) <= MaxEntries
      <4>1. kept \cup {k} \subseteq Keys /\ IsFiniteSet(kept \cup {k})
        BY <3>1, <3>4, FS_Subset, CacheModelAssumption
      <4>2. Cardinality(stored) <= Cardinality(kept \cup {k})
        BY <4>1, FS_Subset
      <4>3. Cardinality(stored) \in Nat /\ Cardinality(kept \cup {k}) \in Nat
        BY <4>1, FS_Subset, FS_CardinalityType
      <4> QED BY <3>4, <4>1, <4>2, <4>3, CacheConfigAssumption
    <3>6. TypeOK'
      BY <2>4, <3>a, <3>5 DEF InsertWrite, TypeOK
    <3>7. CacheableInserts'
      BY <2>4 DEF InsertWrite, CacheableInserts, TypeOK, Idle
    <3> QED BY <3>a, <3>5, <3>6, <3>7 DEF CapacityBound
  <2>5. ASSUME NEW t \in Threads, NEW k \in Keys, Invalidate(t, k)
        PROVE  IInv'
    <3>1. entries' \in [present \ {k} -> Entry]
      BY <2>5, <2>p DEF Invalidate, Removed
    <3>2. TypeOK'
      BY <2>5, <3>1 DEF Invalidate, TypeOK
    <3>3. Cardinality(DOMAIN entries') <= Cardinality(DOMAIN entries)
      BY <2>d, <3>1, FS_Subset
    <3>4. /\ Cardinality(DOMAIN entries') \in Nat
          /\ Cardinality(DOMAIN entries) \in Nat
      BY <2>d, <3>1, FS_Subset, FS_CardinalityType
    <3>5. CapacityBound'
      BY <3>3, <3>4, CacheConfigAssumption DEF CapacityBound
    <3> QED BY <2>5, <3>2, <3>5 DEF Invalidate, CacheableInserts
  <2>6. CASE Advance
    BY <2>6, <2>p DEF Advance, TypeOK, CapacityBound, CacheableInserts
  <2>7. CASE UNCHANGED vars
    BY <2>7, <2>p DEF vars, TypeOK, CapacityBound, CacheableInserts
  <2> QED BY <2>1, <2>2, <2>3, <2>4, <2>5, <2>6, <2>7 DEF Next
<1> QED BY <1>1, <1>2, PTL DEF Spec

\* The cache's state keeps its type: the map's keys are cache keys, expiries
\* and readings are natural numbers, every thread is in a known call.
THEOREM CacheTypeCorrect == Spec => []TypeOK
<1>1. IInv => TypeOK
  BY DEF IInv
<1> QED BY <1>1, CacheInductive, PTL

\* The cache never holds more than max_entries, for any number of threads.
THEOREM CacheStaysBounded == Spec => []CapacityBound
<1>1. IInv => CapacityBound
  BY DEF IInv
<1> QED BY <1>1, CacheInductive, PTL

-----------------------------------------------------------------------------
\* A reading is unique when it is drawn, being ahead of all others, and moves
\* from a call into one entry: every step keeps readings apart.
LEMMA TicksStep == IInv /\ TicksUnique /\ [Next]_vars => TicksUnique'
<1> SUFFICES ASSUME IInv, TicksUnique, [Next]_vars PROVE TicksUnique'
  OBVIOUS
<1>p. PICK present \in SUBSET Keys : entries \in [present -> Entry]
  BY DEF IInv, TypeOK
<1>n. /\ clock \in Nat
      /\ \A k \in DOMAIN entries : entries[k].used \in Nat
      /\ \A t \in Threads : Pending(t) => op[t].tick \in Nat /\ op[t].key \in Keys
  BY <1>p DEF IInv, TypeOK, Entry, Pending, Idle, GetOp, InsertOp
<1>d. op \in [Threads -> {Idle} \cup GetOp \cup InsertOp]
  BY DEF IInv, TypeOK
\* A call draws its reading.
<1>a. ASSUME NEW t \in Threads, NEW c,
             c.kind # "idle", c.tick = clock,
             op' = [op EXCEPT ![t] = c], clock' = clock + 1, UNCHANGED entries
      PROVE  TicksUnique'
  <2>1. \A s \in Threads : op'[s] = IF s = t THEN c ELSE op[s]
    BY <1>a, <1>d
  <2>2. \A s \in Threads : Pending(s)' => s = t \/ Pending(s)
    BY <2>1 DEF Pending
  <2>3. (\A k \in DOMAIN entries : entries[k].used < clock)'
    BY <1>a, <1>n DEF TicksUnique
  <2>4. (\A s \in Threads : Pending(s) => op[s].tick < clock)'
    BY <1>a, <1>n, <2>1, <2>2 DEF TicksUnique
  <2>5. (\A s, u \in Threads :
            Pending(s) /\ Pending(u) /\ op[s].tick = op[u].tick => s = u)'
    BY <1>a, <1>n, <2>1, <2>2 DEF TicksUnique
  <2>6. (\A k \in DOMAIN entries, s \in Threads :
            Pending(s) => entries[k].used # op[s].tick)'
    BY <1>a, <1>n, <2>1, <2>2 DEF TicksUnique
  <2> QED BY <1>a, <2>3, <2>4, <2>5, <2>6 DEF TicksUnique
\* A call leaves its reading with one entry, or with none.
<1>b. ASSUME NEW t \in Threads, Pending(t),
             op' = [op EXCEPT ![t] = Idle], UNCHANGED clock,
             \A j \in DOMAIN entries' :
                \/ j \in DOMAIN entries /\ entries'[j].used = entries[j].used
                \/ j = op[t].key /\ entries'[j].used = op[t].tick
      PROVE  TicksUnique'
  <2>1. \A s \in Threads : Pending(s)' => s # t /\ Pending(s) /\ op'[s] = op[s]
    BY <1>b, <1>d DEF Pending, Idle
  <2>2. (\A j \in DOMAIN entries : entries[j].used < clock)'
    BY <1>b DEF TicksUnique
  <2>3. (\A s \in Threads : Pending(s) => op[s].tick < clock)'
    BY <1>b, <2>1 DEF TicksUnique
  <2>4. (\A i, j \in DOMAIN entries : entries[i].used = entries[j].used => i = j)'
    BY <1>b DEF TicksUnique
  <2>5. (\A s, u \in Threads :
            Pending(s) /\ Pending(u) /\ op[s].tick = op[u].tick => s = u)'
    BY <2>1 DEF TicksUnique
  <2>6. (\A j \in DOMAIN entries, s \in Threads :
            Pending(s) => entries[j].used # op[s].tick)'
    BY <1>b, <2>1 DEF TicksUnique
  <2> QED BY <2>2, <2>3, <2>4, <2>5, <2>6 DEF TicksUnique
<1>1. ASSUME NEW t \in Threads, NEW k \in Keys, GetTick(t, k)
      PROVE  TicksUnique'
  BY <1>1, <1>a DEF GetTick, Tick
<1>2. ASSUME NEW t \in Threads, NEW k \in Keys, NEW e \in ExpiresIn, InsertTick(t, k, e)
      PROVE  TicksUnique'
  BY <1>2, <1>a DEF InsertTick, Tick
<1>3. ASSUME NEW t \in Threads, GetRead(t)
      PROVE  TicksUnique'
  <2>1. \A j \in DOMAIN entries' :
            \/ j \in DOMAIN entries /\ entries'[j].used = entries[j].used
            \/ j = op[t].key /\ entries'[j].used = op[t].tick
    BY <1>3, <1>p DEF GetRead, Hit, Entry
  <2> QED BY <1>3, <1>b, <2>1 DEF GetRead, Pending
<1>4. ASSUME NEW t \in Threads, InsertWrite(t)
      PROVE  TicksUnique'
  <2> DEFINE k == op[t].key
             entry == [expires |-> now + op[t].ttl, used |-> op[t].tick]
  <2>1. PICK kept \in Kept(entries, k, now) :
            entries' = IF Representable(entry.expires)
                       THEN Inserted(entries, kept, k, entry)
                       ELSE Abandoned(entries, kept)
    BY <1>4 DEF InsertWrite
  <2>2. kept \subseteq DOMAIN entries
    BY <2>1 DEF Kept, Live
  <2>3. \A j \in DOMAIN entries' :
            \/ j \in DOMAIN entries /\ entries'[j].used = entries[j].used
            \/ j = op[t].key /\ entries'[j].used = op[t].tick
    BY <2>1, <2>2 DEF Inserted, Abandoned
  <2> QED BY <1>4, <1>b, <2>3 DEF InsertWrite, Pending
<1>5. ASSUME NEW t \in Threads, NEW k \in Keys, Invalidate(t, k)
      PROVE  TicksUnique'
  BY <1>5 DEF Invalidate, Removed, TicksUnique, Pending
<1>6. CASE Advance
  BY <1>6 DEF Advance, TicksUnique, Pending
<1>7. CASE UNCHANGED vars
  BY <1>7 DEF vars, TicksUnique, Pending
<1> QED BY <1>1, <1>2, <1>3, <1>4, <1>5, <1>6, <1>7 DEF Next

\* No reading of the LRU clock is ever held twice, whatever the number of
\* threads between their tick and the lock.
THEOREM CacheTicksUnique == Spec => []TicksUnique
<1>1. Init => TicksUnique
  BY DEF Init, TicksUnique, Pending, Idle
<1> QED BY <1>1, TicksStep, CacheInductive, PTL DEF Spec

-----------------------------------------------------------------------------
\* No step costs more than one usable credential, and an insert, one that panics
\* under the lock included, costs none or the one used longest ago: with readings
\* unique, the coldest is one entry.
THEOREM CacheEvictsOnlyTheColdest == Spec => EvictsOnlyTheColdest
<1>1. ASSUME IInv, TicksUnique, Next
      PROVE  \A k \in Live(entries, now) \ DOMAIN entries' : CostIsTheColdest(k)
  <2> SUFFICES ASSUME NEW k \in Live(entries, now) \ DOMAIN entries' PROVE CostIsTheColdest(k)
    OBVIOUS
  <2>p. PICK present \in SUBSET Keys : entries \in [present -> Entry]
    BY <1>1 DEF IInv, TypeOK
  <2>d. /\ IsFiniteSet(DOMAIN entries)
        /\ k \in DOMAIN entries
        /\ \A j \in DOMAIN entries : entries[j].used \in Nat
    BY <2>p, FS_Subset, CacheModelAssumption DEF Live, Entry
  <2>1. CASE UNCHANGED entries
    BY <2>1, <2>d
  <2>2. ASSUME NEW t \in Threads, GetRead(t) PROVE CostIsTheColdest(k)
    BY <2>2, <2>p, <2>d DEF GetRead
  <2>3. ASSUME NEW t \in Threads, NEW j \in Keys, Invalidate(t, j) PROVE CostIsTheColdest(k)
    <3>1. k = j
      BY <2>3, <2>d DEF Invalidate, Removed
    <3> QED BY <2>3, <3>1 DEF Invalidate, CostIsTheColdest
  <2>4. ASSUME NEW t \in Threads, InsertWrite(t) PROVE CostIsTheColdest(k)
    <3> DEFINE new == op[t].key
               entry == [expires |-> now + op[t].ttl, used |-> op[t].tick]
    <3>1. PICK kept \in Kept(entries, new, now) :
            entries' = IF Representable(entry.expires)
                       THEN Inserted(entries, kept, new, entry)
                       ELSE Abandoned(entries, kept)
      BY <2>4 DEF InsertWrite
    <3>2. kept \subseteq DOMAIN entries'
      BY <3>1 DEF Inserted, Abandoned
    <3>3. k \in Live(entries, now) /\ k \notin kept
      BY <3>2
    <3>6. op[t].kind = "insert" /\ op'[t] = Idle
      BY <1>1, <2>4 DEF InsertWrite, IInv, TypeOK
    <3>4. /\ new \notin DOMAIN entries
          /\ Cardinality(Live(entries, now)) = MaxEntries
          /\ kept = Live(entries, now) \ {k}
          /\ \A s \in kept : entries[k].used <= entries[s].used
      BY <1>1, <2>d, <3>1, <3>3, EvictionIsOne DEF IInv, CapacityBound
    <3>5. \A s \in kept : entries[k].used < entries[s].used
      <4> SUFFICES ASSUME NEW s \in kept PROVE entries[k].used < entries[s].used
        OBVIOUS
      <4>1. s \in DOMAIN entries /\ s # k
        BY <3>4 DEF Live
      <4>2. entries[k].used # entries[s].used
        BY <1>1, <2>d, <4>1 DEF TicksUnique
      <4> QED BY <2>d, <3>4, <4>1, <4>2
    <3> QED BY <3>2, <3>4, <3>5, <3>6 DEF CostIsTheColdest, InsertsNew
  <2> QED BY <1>1, <2>1, <2>2, <2>3, <2>4
          DEF Next, GetTick, InsertTick, Advance
<1>2. IInv /\ TicksUnique /\ [Next]_vars =>
        [\A k \in Live(entries, now) \ DOMAIN entries' : CostIsTheColdest(k)]_vars
  BY <1>1
<1> QED BY <1>2, CacheInductive, CacheTicksUnique, PTL DEF Spec, EvictsOnlyTheColdest

-----------------------------------------------------------------------------
\* An insert, seen as what get() finds: it learns the new principal, or fails
\* after it may have made room.
LEMMA InsertLearns ==
    ASSUME IInv, NEW t \in Threads, InsertWrite(t)
    PROVE  Promise!Learn(op[t].key) \/ Promise!Fail(op[t].key)
<1> DEFINE k == op[t].key
           live == Live(entries, now)
           entry == [expires |-> now + op[t].ttl, used |-> op[t].tick]
<1>n. /\ op[t].ttl \in Nat /\ now \in Nat /\ MaxEntries # 0
      /\ op[t].ttl \in {Lifetime(e) : e \in ExpiresIn} \ {0}
  BY DEF InsertWrite, IInv, TypeOK, Idle, GetOp, InsertOp, CacheableInserts
<1>d. IsFiniteSet(DOMAIN entries) /\ Cardinality(DOMAIN entries) <= MaxEntries
  BY FS_Subset, CacheModelAssumption DEF IInv, TypeOK, CapacityBound
<1>1. PICK kept \in Kept(entries, k, now) :
        entries' = IF Representable(entry.expires)
                   THEN Inserted(entries, kept, k, entry)
                   ELSE Abandoned(entries, kept)
  BY DEF InsertWrite
<1> DEFINE room == kept \cap live
<1>2. entry.expires > now /\ now' = now
  BY <1>n DEF InsertWrite
<1>3. /\ room \in Rooms(live, k)
      /\ Finds(Inserted(entries, kept, k, entry), now) =
            Learnt(Finds(entries, now), room, k, entry.expires)
      /\ Finds(Abandoned(entries, kept), now) = Only(Finds(entries, now), room)
  <2> HIDE DEF k, entry
  <2> QED BY <1>n, <1>d, <1>1, <1>2, InsertFinds
<1>4. room \in Promise!Room(k)
  <2>1. DOMAIN Finds(entries, now) = live
    BY DEF Finds
  <2>2. Promise!Cardinality(live) = Cardinality(live)
    BY DEF Promise!Cardinality, Cardinality
  <2> QED BY <1>3, <2>1, <2>2 DEF Rooms, Promise!Room
<1>5. CASE Representable(entry.expires)
  <2>1. Finds(entries, now)' = Learnt(Finds(entries, now), room, k, now + op[t].ttl)
    BY <1>1, <1>2, <1>3, <1>5
  <2>2. Finds(entries', now')[k] = now + op[t].ttl
    BY <2>1 DEF Learnt
  <2> QED BY <1>n, <1>2, <1>4, <2>1, <2>2 DEF Promise!Learn, Learnt
<1>6. CASE ~Representable(entry.expires)
  <2>1. Finds(entries, now)' = Only(Finds(entries, now), room)
    BY <1>1, <1>2, <1>3, <1>6
  <2> QED BY <1>2, <1>4, <2>1 DEF Promise!Fail, Promise!Only, Only
<1> QED BY <1>5, <1>6

\* Every step of the cache is one of the promise, or none.
LEMMA CacheSteps == IInv /\ [Next]_vars => [Promise!PNext]_(Promise!pvars)
<1> SUFFICES ASSUME IInv, [Next]_vars PROVE [Promise!PNext]_(Promise!pvars)
  OBVIOUS
<1> USE DEF Promise!pvars
<1>p. PICK present \in SUBSET Keys : entries \in [present -> Entry]
  BY DEF IInv, TypeOK
<1>0. CASE UNCHANGED <<entries, now>>
  BY <1>0
<1>1. ASSUME NEW t \in Threads, GetRead(t)
      PROVE  UNCHANGED Promise!pvars
  <2>1. /\ DOMAIN entries' = DOMAIN entries /\ now' = now
        /\ \A k \in DOMAIN entries : entries'[k].expires = entries[k].expires
    BY <1>1, <1>p DEF GetRead, Entry
  <2>2. Live(entries', now') = Live(entries, now)
    BY <2>1 DEF Live
  <2>3. \A k \in Live(entries, now) : entries'[k].expires = entries[k].expires
    BY <2>1 DEF Live
  <2> QED BY <2>1, <2>2, <2>3 DEF Finds
<1>2. ASSUME NEW t \in Threads, InsertWrite(t)
      PROVE  Promise!PNext
  <2>1. op[t].key \in Keys
    BY <1>2 DEF InsertWrite, IInv, TypeOK, Idle, GetOp, InsertOp
  <2> QED BY <1>2, <2>1, InsertLearns DEF Promise!PNext
<1>3. ASSUME NEW t \in Threads, NEW k \in Keys, Invalidate(t, k)
      PROVE  [Promise!PNext]_(Promise!pvars)
  <2>1. entries' = Removed(entries, k) /\ now' = now
    BY <1>3 DEF Invalidate
  <2>2. Live(entries', now') = Live(entries, now) \ {k}
    BY <2>1 DEF Live, Removed
  <2>3. Finds(entries, now)' = [x \in Live(entries, now) \ {k} |-> Finds(entries, now)[x]]
    BY <2>1, <2>2 DEF Finds, Removed, Live
  <2>4. CASE k \in Live(entries, now)
    BY <2>1, <2>3, <2>4 DEF Promise!PNext, Promise!Forget, Promise!Only, Finds
  <2>5. CASE k \notin Live(entries, now)
    BY <2>1, <2>3, <2>5 DEF Finds
  <2> QED BY <2>4, <2>5
<1>4. CASE Advance
  <2>1. entries' = entries /\ now' = now + 1 /\ now \in Nat
    BY <1>4 DEF Advance, IInv, TypeOK
  <2>2. Live(entries', now') = {k \in Live(entries, now) : entries[k].expires > now'}
    BY <1>p, <2>1 DEF Live, Entry
  <2>3. Promise!Pass
    BY <2>1, <2>2 DEF Promise!Pass, Promise!Only, Finds
  <2> QED BY <2>3 DEF Promise!PNext
<1> QED BY <1>0, <1>1, <1>2, <1>3, <1>4 DEF Next, GetTick, InsertTick, vars

\* Whatever the threads, their slow steps between tick and lock, and the expired
\* entries that lie about: what get() finds is what was inserted for that key, for
\* its own lifetime, and only a drop or a full cache takes it away.
THEOREM CacheKeepsPromise == Spec => KeepsPromise
<1>1. Init => Promise!PInit
  BY DEF Init, Promise!PInit, Finds, Live
<1> QED BY <1>1, CacheSteps, CacheInductive, PTL DEF Spec, KeepsPromise, Promise!PSpec
=============================================================================
