----------------------------- MODULE OidcProvider -----------------------------
(***************************************************************************)
(* src/oidc/provider.rs: ID-token verification against the stored snapshot *)
(* of the issuer's keys, and the single-flight, debounced refresh that     *)
(* replaces the snapshot when stale keys would explain a failure.  Each    *)
(* request runs verify_id_token(); it is a process because it awaits the   *)
(* refresh mutex and the issuer, and any other request, the issuer or the  *)
(* clock may move in between.                                              *)
(*                                                                         *)
(* The issuer (a discovery endpoint and its JWKS) and the openidconnect    *)
(* verifier are external, modelled from how the code uses them.            *)
(***************************************************************************)
EXTENDS Naturals

CONSTANTS
    Requests,           \* concurrent calls of verify_id_token()
    Keys,               \* signing keys
    MinRefreshInterval, \* OidcConfig::min_refresh_interval
    None                \* nobody holds the refresh mutex

ASSUME ProviderAssumption ==
    /\ MinRefreshInterval \in Nat
    /\ None \notin Requests

VARIABLES
    published,  \* the keys the issuer serves now
    snap,       \* the keys of the stored ProviderState
    age,        \* ProviderState::age(), which saturates at the interval: the
                \* code only ever compares the two
    holder,     \* the request inside refresh_lock
    pc,         \* where each request is
    token,      \* the ID token each request presents
    same,       \* Arc::ptr_eq(observed, the stored snapshot), while a request
                \* queues for the mutex
    answer      \* the keys of the discovery answer on its way to each request

vars == <<published, snap, age, holder, pc, token, same, answer>>

\* What a token fails on besides its key, by when the verifier looks: at
\* parsing; before the signature (issuer, audience, algorithm); after it
\* (expiry, nonce).
Forms == {"malformed", "foreign", "lapsed", "valid"}
Token == [form : Forms, key : Keys]

Terminal == {"accepted", "rejected", "unknown_key", "unavailable"}
Refreshing == {"fetching", "answered"}
Pcs == {"idle", "verify", "refresh", "lock", "retry"} \cup Refreshing \cup Terminal

TypeOK ==
    /\ published \in SUBSET Keys
    /\ snap \in SUBSET Keys
    /\ age \in 0 .. MinRefreshInterval
    /\ holder \in Requests \cup {None}
    /\ pc \in [Requests -> Pcs]
    /\ token \in [Requests -> Token]
    /\ same \in [Requests -> BOOLEAN]
    /\ answer \in [Requests -> SUBSET Keys]

\* discover() has returned a provider.
Init ==
    /\ published \in SUBSET Keys
    /\ snap = published
    /\ age = 0
    /\ holder = None
    /\ pc = [r \in Requests |-> "idle"]
    /\ token \in [Requests -> [form : {"valid"}, key : Keys]]
    /\ same = [r \in Requests |-> FALSE]
    /\ answer = [r \in Requests |-> {}]

-----------------------------------------------------------------------------
\* Mutant: an unknown key is a definitive rejection, as is_possibly_stale_keys
\* without NoMatchingKey would make it.
Verdict_NeverStale(t, keys) ==
    IF t.form = "valid" /\ t.key \in keys THEN "accepted" ELSE "rejected"

\* verify(): what one look at the token against `keys' says.  "stale" is
\* is_possibly_stale_keys: no key, or no single key, of the set verifies it.
Verdict(t, keys) ==
    CASE t.form \in {"malformed", "foreign"} -> "rejected"
      [] t.form \in {"lapsed", "valid"} /\ t.key \notin keys -> "stale"
      [] t.form = "lapsed" /\ t.key \in keys -> "rejected"
      [] t.form = "valid" /\ t.key \in keys -> "accepted"

Goto(r, label) == pc' = [pc EXCEPT ![r] = label]
Forget(r) == answer' = [answer EXCEPT ![r] = {}]

\* A request arrives with an ID token.
Begin(r, t) ==
    /\ pc[r] = "idle"
    /\ token' = [token EXCEPT ![r] = t]
    /\ Goto(r, "verify")
    /\ UNCHANGED <<published, snap, age, holder, same, answer>>

\* verify_id_token(), up to the call of refresh().
Verify(r) ==
    /\ pc[r] = "verify"
    /\ LET verdict == Verdict(token[r], snap)
       IN  Goto(r, IF verdict = "stale" THEN "refresh" ELSE verdict)
    /\ UNCHANGED <<published, snap, age, holder, token, same, answer>>

\* Mutant: refresh() queues for the mutex without the debounce.
Observe_NoDebounce(r) ==
    /\ pc[r] = "refresh"
    /\ Goto(r, "lock")
    /\ same' = [same EXCEPT ![r] = TRUE]
    /\ UNCHANGED <<published, snap, age, holder, token, answer>>

\* refresh(), up to the mutex: a snapshot younger than the interval is treated
\* as already refreshed.
Observe(r) ==
    /\ pc[r] = "refresh"
    /\ Goto(r, IF age < MinRefreshInterval THEN "retry" ELSE "lock")
    /\ same' = [same EXCEPT ![r] = ~(age < MinRefreshInterval)]
    /\ UNCHANGED <<published, snap, age, holder, token, answer>>

\* Mutant: the snapshot is not looked at again once the mutex is held.
Acquire_NoRecheck(r) ==
    /\ pc[r] = "lock"
    /\ holder = None
    /\ holder' = r
    /\ Goto(r, "fetching")
    /\ same' = [same EXCEPT ![r] = FALSE]
    /\ UNCHANGED <<published, snap, age, token, answer>>

\* Mutant: refresh() takes no mutex at all.
Acquire_NoLock(r) ==
    /\ pc[r] = "lock"
    /\ IF same[r] /\ ~(age < MinRefreshInterval)
       THEN holder' = r /\ Goto(r, "fetching")
       ELSE UNCHANGED holder /\ Goto(r, "retry")
    /\ same' = [same EXCEPT ![r] = FALSE]
    /\ UNCHANGED <<published, snap, age, token, answer>>

\* The mutex is granted and the snapshot checked again.  Only its holder stores
\* a snapshot, so nothing but the clock moves between the two.
Acquire(r) ==
    /\ pc[r] = "lock"
    /\ holder = None
    /\ IF same[r] /\ ~(age < MinRefreshInterval)
       THEN holder' = r /\ Goto(r, "fetching")
       ELSE UNCHANGED holder /\ Goto(r, "retry")
    /\ same' = [same EXCEPT ![r] = FALSE]
    /\ UNCHANGED <<published, snap, age, token, answer>>

\* The issuer reads its key set and answers.
IssuerAnswers(r) ==
    /\ pc[r] = "fetching"
    /\ answer' = [answer EXCEPT ![r] = published]
    /\ Goto(r, "answered")
    /\ UNCHANGED <<published, snap, age, holder, token, same>>

\* Mutant: an early return that leaves the mutex held.
FetchFails_LeaksLock(r) ==
    /\ pc[r] \in Refreshing
    /\ Goto(r, "unavailable")
    /\ Forget(r)
    /\ UNCHANGED <<published, snap, age, holder, token, same>>

\* fetch_state() fails: `?' returns, the guard is dropped, nothing is stored.
FetchFails(r) ==
    /\ pc[r] \in Refreshing
    /\ holder' = None
    /\ Goto(r, "unavailable")
    /\ Forget(r)
    /\ UNCHANGED <<published, snap, age, token, same>>

\* fetch_state() returns: store() swaps the Arc, refresh() drops its guard.
\* fetched_at is read after the answer arrived, whenever it was written.
Store(r) ==
    /\ pc[r] = "answered"
    /\ snap' = answer[r]
    /\ age' = 0
    /\ same' = [q \in Requests |-> FALSE]
    /\ holder' = None
    /\ Goto(r, "retry")
    /\ Forget(r)
    /\ UNCHANGED <<published, token>>

\* Mutant: the second look uses the snapshot taken before the refresh.
Retry_OldSnapshot(r) ==
    /\ pc[r] = "retry"
    /\ Goto(r, "unknown_key")
    /\ UNCHANGED <<published, snap, age, holder, token, same, answer>>

\* Mutant: the second look does not settle what the first left open.
Retry_Unsettled(r) ==
    /\ pc[r] = "retry"
    /\ Goto(r, Verdict(token[r], snap))
    /\ UNCHANGED <<published, snap, age, holder, token, same, answer>>

\* The second and last verify(), against a new snapshot().
Retry(r) ==
    /\ pc[r] = "retry"
    /\ LET verdict == Verdict(token[r], snap)
       IN  Goto(r, IF verdict = "stale" THEN "unknown_key" ELSE verdict)
    /\ UNCHANGED <<published, snap, age, holder, token, same, answer>>

\* The server drops the future of a disconnected client at an await: the guard,
\* if held, goes with it.
Cancel(r) ==
    /\ pc[r] \in {"lock"} \cup Refreshing
    /\ holder' = IF holder = r THEN None ELSE holder
    /\ Goto(r, "idle")
    /\ same' = [same EXCEPT ![r] = FALSE]
    /\ Forget(r)
    /\ UNCHANGED <<published, snap, age, token>>

\* The answer is sent and the next request may come.
Finish(r) ==
    /\ pc[r] \in Terminal
    /\ Goto(r, "idle")
    /\ UNCHANGED <<published, snap, age, holder, token, same, answer>>

\* A token expires while its request waits.
Lapse(r) ==
    /\ pc[r] \notin Terminal \cup {"idle"}
    /\ token[r].form = "valid"
    /\ token' = [token EXCEPT ![r].form = "lapsed"]
    /\ UNCHANGED <<published, snap, age, holder, pc, same, answer>>

\* The issuer rotates its keys.
Rotate(ks) ==
    /\ ks # published
    /\ published' = ks
    /\ UNCHANGED <<snap, age, holder, pc, token, same, answer>>

Tick ==
    /\ age < MinRefreshInterval
    /\ age' = age + 1
    /\ UNCHANGED <<published, snap, holder, pc, token, same, answer>>

\* The program's own steps, and the issuer's.
Local(r) ==
    \/ Verify(r)
    \/ Observe(r)
    \/ Acquire(r)
    \/ Store(r)
    \/ Retry(r)
    \/ Finish(r)

Remote(r) == IssuerAnswers(r) \/ FetchFails(r)

Move ==
    \/ \E r \in Requests :
        \/ Local(r)
        \/ Remote(r)
        \/ Cancel(r)
        \/ Lapse(r)
        \/ \E t \in Token : Begin(r, t)
    \/ \E ks \in SUBSET Keys : Rotate(ks)

Next == Move \/ Tick

Spec == Init /\ [][Next]_vars

-----------------------------------------------------------------------------
\* Single-flight: whoever is between the decision to fetch and the end of the
\* fetch holds the mutex, so there is one discovery request at a time.
SingleFlight == \A r \in Requests : pc[r] \in Refreshing <=> holder = r

\* Debounced: a snapshot is replaced only when it is at least the minimum
\* interval old, however many requests queued up behind the refresh that made
\* it; without the second check under the mutex each of them would replace it.
RefreshesSpaced ==
    [][\A r \in Requests : Store(r) => age = MinRefreshInterval]_vars

\* How far KeySnapshot has a request at a label: the debounce, the mutex, the fetch and the
\* second look are one doubt.
Stage(label) ==
    IF label = "verify" THEN "pending"
    ELSE IF label \in {"refresh", "lock", "retry"} \cup Refreshing THEN "doubted"
    ELSE label

Snapshot == INSTANCE KeySnapshot WITH
    offers <- {answer[r] : r \in {q \in Requests : pc[q] = "answered"}},
    stage <- [r \in Requests |-> Stage(pc[r])]

\* Whatever queues, fails or is dropped around the refresh, the provider does what
\* KeySnapshot says: a token is judged in one step by the snapshot of that moment,
\* an unknown key is looked up before it is reported, and a snapshot is replaced
\* only by the one answer given since it was stored.
FollowsIssuer == Snapshot!SSpec

\* Every discovery request ends.  The code does not see to it: its HTTP client
\* has no timeout, so this is an assumption about the issuer and the network.
CallsEnd == \A r \in Requests : WF_vars(Remote(r))

\* If calls end, requests end, unless their clients leave: no request waits for
\* ever on the mutex, though its holder may fail or be dropped at any point.
EveryRequestEnds ==
    CallsEnd =>
        \A r \in Requests : pc[r] = "verify" ~> pc[r] \in Terminal \cup {"idle"}

\* An issuer that does not fail, or lose its client, every time it is asked.
HealthyIssuer ==
    /\ SF_vars(\E r \in Requests : IssuerAnswers(r))
    /\ SF_vars(\E r \in Requests : Store(r))

Presented(k) ==
    \E r \in Requests :
        pc[r] = "verify" /\ token[r].key = k /\ token[r].form \in {"valid", "lapsed"}

\* "A long-lived process recovers from key rotation without a restart": a key
\* that stays published and keeps being presented is learnt for good.
RotationHeals ==
    HealthyIssuer =>
        \A k \in Keys :
            (<>[](k \in published) /\ []<>Presented(k)) => <>[](k \in snap)
=============================================================================
