----------------------------- MODULE CachePromise -----------------------------
(***************************************************************************)
(* What a CredentialCache promises to the authenticator that owns it, with *)
(* no locks, readings, expired entries or pruning: what a lookup finds is  *)
(* what was written for that very key, for the lifetime it was written     *)
(* with and no longer; nothing is lost but the key dropped, or one key     *)
(* that makes room for a new one when as many as fit can all be found.     *)
(* CredentialCache implements it, and so does RemoteMechanisms, which has  *)
(* the cache as one atomic step.                                           *)
(***************************************************************************)
EXTENDS Integers, FiniteSets

CONSTANTS
    Keys,
    MaxEntries, \* CacheConfig::max_entries
    Lifetimes   \* for how long a principal may be kept

VARIABLES
    found,  \* until when each key is found; a key not in its domain is a miss
    now

pvars == <<found, now>>

PInit ==
    /\ found = [k \in {} |-> 0]
    /\ now = 0

Only(kept) == [k \in kept |-> found[k]]

\* The sets of keys a write of k may leave.
Room(k) ==
    IF k \in DOMAIN found \/ Cardinality(DOMAIN found) < MaxEntries
    THEN {DOMAIN found}
    ELSE {DOMAIN found \ {victim} : victim \in DOMAIN found}

\* A principal is written for k.
Learn(k) ==
    /\ UNCHANGED now
    /\ k \in DOMAIN found'
    /\ found'[k] - now \in Lifetimes \ {0}
    /\ \E kept \in Room(k) : found' = [x \in kept \cup {k} |-> IF x = k THEN found'[k] ELSE found[x]]

\* A write of k that panics may have made room already.
Fail(k) ==
    /\ UNCHANGED now
    /\ \E kept \in Room(k) : found' = Only(kept)

\* k is dropped.
Forget(k) ==
    /\ UNCHANGED now
    /\ k \in DOMAIN found
    /\ found' = Only(DOMAIN found \ {k})

\* Time passes, and with it what has been kept for long enough.
Pass ==
    /\ now' = now + 1
    /\ found' = Only({k \in DOMAIN found : found[k] > now'})

PNext ==
    \/ \E k \in Keys : Learn(k) \/ Fail(k) \/ Forget(k)
    \/ Pass

PSpec == PInit /\ [][PNext]_pvars
=============================================================================
