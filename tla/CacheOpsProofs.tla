---------------------------- MODULE CacheOpsProofs ----------------------------
(***************************************************************************)
(* What one critical section of the cache does to its map, for every map,  *)
(* every configuration and every reading of the LRU clock: the facts the   *)
(* proofs about CredentialCache and RemoteMechanisms share.                *)
(***************************************************************************)
EXTENDS CacheOps, FiniteSetTheorems, TLAPS

\* insert() invents no key.
LEMMA KeptOld ==
    ASSUME NEW es, NEW k, NEW time, NEW kept \in Kept(es, k, time)
    PROVE  kept \subseteq DOMAIN es
  BY DEF Kept, Live

\* The eviction of insert() leaves old keys only, and room for the new one: a
\* map within capacity stays within it.
LEMMA KeptFits ==
    ASSUME NEW es, IsFiniteSet(DOMAIN es),
           NEW k, NEW time,
           Cardinality(DOMAIN es) <= MaxEntries,
           MaxEntries # 0,
           NEW kept \in Kept(es, k, time)
    PROVE  /\ kept \subseteq DOMAIN es
           /\ Cardinality(kept \cup {k}) <= MaxEntries
<1> DEFINE live == Live(es, time)
<1>a. MaxEntries \in Nat
  BY CacheConfigAssumption
<1>b. /\ live \subseteq DOMAIN es
      /\ IsFiniteSet(live)
      /\ Cardinality(DOMAIN es) \in Nat
      /\ Cardinality(live) \in Nat
  BY FS_Subset, FS_CardinalityType DEF Live
<1>1. CASE k \in DOMAIN es
  <2>1. kept = DOMAIN es
    BY <1>1 DEF Kept
  <2>2. kept \cup {k} = DOMAIN es
    BY <1>1, <2>1
  <2> QED BY <2>1, <2>2
<1>2. CASE k \notin DOMAIN es /\ Cardinality(DOMAIN es) < MaxEntries
  <2>1. kept = DOMAIN es
    BY <1>2 DEF Kept
  <2>2. Cardinality(kept \cup {k}) = Cardinality(DOMAIN es) + 1
    BY <1>2, <2>1, FS_AddElement
  <2> QED BY <1>2, <2>1, <2>2, <1>a, <1>b
<1>3. CASE k \notin DOMAIN es /\ ~(Cardinality(DOMAIN es) < MaxEntries)
  <2>1. PICK victims \in Coldest(es, live) : kept = live \ victims
    BY <1>3 DEF Kept
  <2>2. victims \subseteq live /\ Cardinality(victims) = Excess(live)
    BY <2>1 DEF Coldest
  <2>3. IsFiniteSet(victims) /\ IsFiniteSet(kept) /\ k \notin kept
    BY <1>3, <1>b, <2>1, <2>2, FS_Subset DEF Live
  <2>4. Cardinality(kept) = Cardinality(live) - Excess(live)
    <3>1. live \cap victims = victims
      BY <2>2
    <3> QED BY <1>b, <2>1, <2>2, <3>1, FS_Difference
  <2>5. Cardinality(kept) < MaxEntries
    BY <1>a, <1>b, <2>4 DEF Excess
  <2>6. Cardinality(kept \cup {k}) = Cardinality(kept) + 1
    BY <2>3, FS_AddElement
  <2>7. kept \subseteq DOMAIN es
    BY <1>b, <2>1
  <2> QED BY <1>a, <2>3, <2>5, <2>6, <2>7, FS_CardinalityType
<1> QED BY <1>1, <1>2, <1>3

\* The eviction loop of a map within capacity removes nothing live, or else the
\* map was full of live entries and it removes exactly one, the coldest.
LEMMA EvictionIsOne ==
    ASSUME NEW es, IsFiniteSet(DOMAIN es), Cardinality(DOMAIN es) <= MaxEntries,
           NEW new, NEW time,
           NEW kept \in Kept(es, new, time),
           NEW k \in Live(es, time), k \notin kept
    PROVE  /\ new \notin DOMAIN es
           /\ Cardinality(Live(es, time)) = MaxEntries
           /\ kept = Live(es, time) \ {k}
           /\ \A s \in kept : es[k].used <= es[s].used
<1> DEFINE live == Live(es, time)
<1>a. MaxEntries \in Nat
  BY CacheConfigAssumption
<1>b. /\ live \subseteq DOMAIN es
      /\ IsFiniteSet(live)
      /\ Cardinality(DOMAIN es) \in Nat
      /\ Cardinality(live) \in Nat
      /\ Cardinality(live) <= Cardinality(DOMAIN es)
  BY FS_Subset, FS_CardinalityType DEF Live
<1>1. /\ new \notin DOMAIN es
      /\ \E victims \in Coldest(es, live) : kept = live \ victims
  BY <1>b DEF Kept
<1>2. PICK victims \in Coldest(es, live) : kept = live \ victims
  BY <1>1
<1>3. /\ victims \subseteq live
      /\ IsFiniteSet(victims)
      /\ k \in victims
      /\ Cardinality(victims) = Excess(live)
      /\ \A v \in victims, s \in live \ victims : es[v].used <= es[s].used
  BY <1>b, <1>2, FS_Subset DEF Coldest
<1>4. Cardinality(victims) # 0
  BY <1>3, FS_EmptySet
<1>5. Cardinality(live) = MaxEntries /\ Cardinality(victims) = 1
  BY <1>a, <1>b, <1>3, <1>4 DEF Excess
<1>6. victims = {k}
  BY <1>3, <1>5, FS_Singleton
<1> QED BY <1>1, <1>2, <1>3, <1>5, <1>6

\* An insert costs no live entry while k is live or fewer are than fit, and
\* exactly one otherwise: expired entries never cost a live one.
LEMMA KeptMakesRoom ==
    ASSUME NEW es, IsFiniteSet(DOMAIN es), Cardinality(DOMAIN es) <= MaxEntries,
           MaxEntries # 0,
           NEW k, NEW time,
           NEW kept \in Kept(es, k, time)
    PROVE  IF k \in Live(es, time) \/ Cardinality(Live(es, time)) < MaxEntries
           THEN kept \cap Live(es, time) = Live(es, time)
           ELSE \E victim \in Live(es, time) :
                    kept \cap Live(es, time) = Live(es, time) \ {victim}
<1> DEFINE live == Live(es, time)
<1>a. MaxEntries \in Nat
  BY CacheConfigAssumption
<1>b. /\ live \subseteq DOMAIN es
      /\ IsFiniteSet(live)
      /\ Cardinality(DOMAIN es) \in Nat
      /\ Cardinality(live) \in Nat
      /\ Cardinality(live) <= Cardinality(DOMAIN es)
      /\ Cardinality(live) = Cardinality(DOMAIN es) => live = DOMAIN es
  BY FS_Subset, FS_CardinalityType DEF Live
<1>1. CASE k \in live \/ Cardinality(live) < MaxEntries
  <2>1. \A x \in live : x \in kept
    BY <1>1, <1>a, <1>b, EvictionIsOne
  <2> QED BY <1>1, <2>1
<1>2. CASE ~(k \in live \/ Cardinality(live) < MaxEntries)
  <2>1. live = DOMAIN es /\ Cardinality(live) = MaxEntries /\ k \notin DOMAIN es
    BY <1>2, <1>a, <1>b
  <2>2. kept \subseteq live /\ Cardinality(kept \cup {k}) <= MaxEntries
    BY <2>1, KeptFits
  <2>3. IsFiniteSet(kept) /\ k \notin kept
    BY <1>b, <2>1, <2>2, FS_Subset
  <2>4. Cardinality(kept \cup {k}) = Cardinality(kept) + 1 /\ Cardinality(kept) \in Nat
    BY <2>3, FS_AddElement, FS_CardinalityType
  <2>5. PICK victim \in live : victim \notin kept
    BY <1>a, <2>1, <2>2, <2>4
  <2>6. kept = live \ {victim}
    BY <2>5, EvictionIsOne
  <2> QED BY <1>2, <2>5, <2>6
<1> QED BY <1>1, <1>2

\* The sets of live keys an insert of k may keep, as CachePromise has them.
Rooms(live, k) ==
    IF k \in live \/ Cardinality(live) < MaxEntries
    THEN {live}
    ELSE {live \ {victim} : victim \in live}

\* What is found of `room' alone, and with k found until then.
Only(found, room) == [x \in room |-> found[x]]
Learnt(found, room, k, until) ==
    [x \in room \cup {k} |-> IF x = k THEN until ELSE found[x]]

\* What is found after an insert that stored an entry, or panicked before it did.
LEMMA InsertFinds ==
    ASSUME NEW es, IsFiniteSet(DOMAIN es), Cardinality(DOMAIN es) <= MaxEntries,
           MaxEntries # 0,
           NEW k, NEW time, NEW entry, entry.expires > time,
           NEW kept \in Kept(es, k, time)
    PROVE  LET room == kept \cap Live(es, time)
           IN  /\ room \in Rooms(Live(es, time), k)
               /\ Finds(Inserted(es, kept, k, entry), time) =
                     Learnt(Finds(es, time), room, k, entry.expires)
               /\ Finds(Abandoned(es, kept), time) = Only(Finds(es, time), room)
<1> DEFINE room == kept \cap Live(es, time)
<1>1. kept \subseteq DOMAIN es
  BY KeptOld
<1>2. room \in Rooms(Live(es, time), k)
  BY KeptMakesRoom DEF Rooms
<1>3. Live(Inserted(es, kept, k, entry), time) = room \cup {k}
  BY <1>1 DEF Live, Inserted
<1>4. Live(Abandoned(es, kept), time) = room
  BY <1>1 DEF Live, Abandoned
<1>5. \A x \in room \cup {k} :
        Inserted(es, kept, k, entry)[x].expires =
            IF x = k THEN entry.expires ELSE Finds(es, time)[x]
  BY DEF Inserted, Finds
<1>6. \A x \in room : Abandoned(es, kept)[x].expires = Finds(es, time)[x]
  BY DEF Abandoned, Finds
<1> QED BY <1>2, <1>3, <1>4, <1>5, <1>6 DEF Finds, Only, Learnt

\* The same map with every entry as recently used as any other.
Flat(es) == [x \in DOMAIN es |-> [expires |-> es[x].expires, used |-> 0]]

\* Whatever the readings, what eviction may leave is also left by a cache whose
\* readings are all alike: RemoteMechanisms, which has only such a cache, leaves
\* out no choice of the real one.
THEOREM ReadingsIgnorable ==
    ASSUME NEW es, NEW k, NEW time
    PROVE  Kept(es, k, time) \subseteq Kept(Flat(es), k, time)
<1>1. /\ DOMAIN Flat(es) = DOMAIN es
      /\ \A x \in DOMAIN es : Flat(es)[x].expires = es[x].expires /\ Flat(es)[x].used = 0
  BY DEF Flat
<1>2. Live(Flat(es), time) = Live(es, time)
  BY <1>1 DEF Live
<1>3. Coldest(es, Live(es, time)) \subseteq Coldest(Flat(es), Live(es, time))
  BY <1>1 DEF Coldest, Live
<1> QED BY <1>1, <1>2, <1>3 DEF Kept
=============================================================================
