# A verification project for authn_kit

`authn_kit` is a Rust crate that authenticates HTTP requests: an application
assembles a chain of authenticators, and for every request a gateway answers
with a principal, an anonymous visit, a redirect into a login, or an error. This
directory holds TLA+ models of the crate's own logic, TLC configurations that
check them on small instances, and TLAPS proofs for instances of any size.

Paths below are relative to the repository; `src/cache.rs` is the crate's
source file. `PROJECT.json` maps every definition to the lines it models.

- [1. The system](#1-the-system)
- [2. The modules](#2-the-modules)
- [3. What each run checks](#3-what-each-run-checks)
- [4. Bounds](#4-bounds)
- [5. Fairness](#5-fairness)
- [6. What is proved](#6-what-is-proved)
- [7. Where code and comments disagree](#7-where-code-and-comments-disagree)
- [8. What is not modelled](#8-what-is-not-modelled)
- [9. Plan](#9-plan)

## 1. The system

A request enters through a framework adapter (`src/adapters/`), which converts it
and calls `AuthGateway::authenticate` (`src/gateway.rs`). The gateway resolves
the scope and runs the `AuthChain` (`src/authenticator.rs`), which asks its
`Authenticator`s one await at a time. The OIDC mechanisms share one
`OidcProvider`; the ones that call out per request own a `CredentialCache`; the
session mechanism may hand the browser to a `LoginFlow`, whose two cookies come
back with later requests.

| Component | State it keeps | Operations | What makes it correct |
|---|---|---|---|
| Credential cache, `src/cache.rs` | entries under an `RwLock`, an atomic LRU clock | `get`, `insert`, `invalidate`, each drawing its clock reading *before* it waits for the lock | bounded size; an eviction costs one credential, the coldest; nothing lives past its lifetime |
| OIDC provider, `src/oidc/provider.rs` | one `RwLock<Arc<..>>` snapshot of the issuer's keys with its fetch time, a refresh mutex | `discover`, `snapshot`, `verify_id_token`, `refresh` | one discovery request at a time; no refresh before the debounce; a rotated key is learnt; nobody waits for ever |
| Chain, builder, gateway | the ordered authenticators and the public-scope policy, fixed after `build` | `with`, `public_scope_policy`, `build`, `authenticate` | the earliest claimant decides; a bad credential never ends as a weaker identity; order of registration does not matter |
| Bearer, session, disabled, `src/mechanisms/` | none of their own | `authenticate` | each claims its own credentials and no other; an outage is not a logout |
| API tokens, `src/mechanisms/api_token.rs` | static tokens, a cache of validated keys | `authenticate`, with a remote validator | a revoked or expired key stops working within a known time |
| Login flow, `src/oidc/login.rs` | nothing on the server: two cookies in the browser | `authorize`, `complete` | secrets are used once; no login leaves the previous session; the round trip ends |
| Session codec and cookies, `src/oidc/session.rs`, `src/cookie.rs` | none | set, clear, encode, decode | the session is written under the name it is read under |
| Basic authenticator, `src/mechanisms/basic.rs` | a cache of exchanged grants | `authenticate` by client credentials or password grant | the grant that was asked for is the one cached; a changed secret and an expired token stop working within a known time |
| Introspection, `src/mechanisms/introspection.rs` | none | `validate` | inactive is 401, failure is 503: unknown is never invalid |
| Framework adapters, `src/adapters/`, `src/request.rs` | none | `From<..> for AuthRequest`, the middleware's `call` | the framework decides nothing |
| Credential, errors, scopes, claims, configuration | none | parsing and conversion | one meaning per input |

**Concurrency.** Requests are independent futures. They meet at the cache lock,
the LRU clock, the refresh mutex and the provider snapshot; and a browser's tabs
meet in its cookie jar. A future may be dropped at any await when its client
disconnects.

**Failure.** The issuer, the validator and the token endpoint can fail, answer
late, or answer with what was true when they looked. Keys rotate, tokens expire
and are revoked while an answer is in flight. A login can be abandoned, denied,
reloaded, duplicated or outlived by its cookie.

**Time.** The refresh is debounced, entries have lifetimes, cookies have a
`max_age`. The HTTP client has no timeout (`src/oidc/provider.rs:115`).

Nothing is persisted by the crate, so there is no crash recovery to check; a
restart is `discover()` with empty caches, the initial state of the modules.

## 2. The modules

    CacheOps ──────────┬── CacheOpsProofs ─────────┐
                       ├── CredentialCache ── CredentialCacheProofs
                       └── RemoteMechanisms ─ RemoteMechanismsProofs
    RemoteAnswers ─────────┘
    OidcProvider ──────┬── OidcRotation ───── OidcProofs
                       └── MCOidcAttempts
    ChainDecision ─────── AuthChain ───────── AuthChainProofs
    Authenticators ──┐        │                     │
                     └── Gateway ──────────── GatewayProofs
                              │                     │
                         Adapters ─────────── AdaptersProofs
    LoginFlow ─────────── LoginFlowProofs

Four modules say what a component promises without saying how, and the detailed
module shows itself to be an instance (`INSTANCE .. WITH`, a `PROPERTY` of its run
and a theorem):

| Promise | Implemented by | What the mapping forgets |
|---|---|---|
| `CachePromise` | `CredentialCache`, `RemoteMechanisms` | threads, clock readings, expired entries still in the map |
| `KeySnapshot` | `OidcProvider` | mutex, queue, `Arc::ptr_eq`, the second look |
| `ChainDecision` | `AuthChain` | the loop |
| `SessionLife` | `LoginFlow` | cookies, tabs, callbacks |

The `MC*` modules give constants their values and nothing else, except
`MCOidcAttempts`, which adds a watch on the issuer's side.

**CacheOps**: what one critical section does to the map, as operators:
`Lifetime` (fallback, margin, saturation), `Hit`, `Kept` (pruning and the
eviction loop, with `HashMap` order as a set of possible victims), `Inserted`,
`Abandoned` (the insert that panics under the lock because `Instant::now() + ttl`
overflows, after room was made), `Removed`. Shared by the two modules that own a
cache.

**CredentialCache**: the concurrent cache. `get` and `insert` are two steps
each, the tick and the critical section, because the code draws the reading
before the lock; any thread, and the clock, may move in between. A reader's store
of `last_used` is atomic and commutes with other readers, so one read is one step.

**CachePromise**: what the owner of a cache may rely on: until when each key is
found (`CacheOps!Finds`), as a function of time. A lookup finds what was written
for that key and for that lifetime; a write costs one findable key at most, and
only when as many as fit can be found (`Room`); nothing else is lost before its
time. Which key goes is left open, as `EvictsOnlyTheColdest` says it. An insert
that panics is `Fail`.

**OidcProvider**: `verify_id_token` as a process: first look (`Verify`), the
debounce (`Observe`), the mutex with the second check under it (`Acquire`), the
request to the issuer, `Store`, second look (`Retry`). `same[r]` is
`Arc::ptr_eq(observed, stored)`. `FetchFails` returns through `?` and drops the
guard; `Cancel` drops the future. `Verdict` is the verifier's order of checks as
`is_possibly_stale_keys` sees it. The issuer rotates at any moment, also between
reading its keys and the answer arriving.

**KeySnapshot**: what a caller of the provider may rely on. `Settle` judges a token
in one step, by the one snapshot there is then, and tells nobody that a key is
unknown who has not been through a doubt (`Doubt`: the debounce, the mutex, the
fetch and the second look are one stage, `OidcProvider!Stage`). The issuer is asked
only while somebody doubts and the snapshot is old, one question at a time
(`Offer`), and a snapshot gives way only to the answer to it (`Learn`).

**OidcRotation**: the same with time measured: how long each key has been
published, how long each answer is in flight.

**ChainDecision** and **AuthChain**: the abstract contract, one decision per
request and no loop, and the builder, the loop with its early returns and the
gateway that implement it. Mechanisms are an operator parameter, so the
refinement is proved for any set of mechanisms.

**Authenticators** and **Gateway**: the five mechanisms as pure operators on a
request (the shape of what it carries plus what the outside would say of it), put
into the chain. Every early return of each `authenticate` is a case.

**RemoteMechanisms**: `ApiTokenAuthenticator` with its validator and
`BasicAuthenticator` with its two grants, each with a cache of its own; a
behaviour is about one of the two. A miss is `Lookup`, the endpoint's answer
`Introspected` or `Exchanged`; the ID token of a password grant is waited for from
`Verify` on, and rejected or left unchecked in `VerifyFails`; `Fault` is an
endpoint nobody configured or an identity that does not convert, and `Conclude`
what follows the last await when all went well. An error keeps what caused it
until it is sent (`End`, which is also a client that goes away). A hit changes
nothing and is the state predicate `Served`. Answers take time, credentials are revoked, tokens expire and
clients go away meanwhile. LRU readings are left at zero, which lets any entry be
evicted.

**RemoteAnswers**: what the two endpoints and the verifier of ID tokens may answer,
and what `claims_from_response` and the `From<..> for AuthError` of
`src/oidc/error.rs` make of it, as operators.

**Adapters**: the wire in front of the gateway. A wire has Authorization lines
and cookie pairs in order. A pair has two readings, `raw` as axum takes it and
`decoded` as actix does, which percent-decodes name and value and trims around the
`=`; its form says whether the two differ (`encoded`) or actix cannot read it at
all, and `ascii` whether axum reads the line it is on. `Extracted` is what each
framework's conversion and the maps of `AuthRequest` leave of all that. `Call` and
`Reply` are the gateway's `Receive` and `Respond` with a wire in hand. What actix,
its cookie parser and the HTTP types do inside `HttpRequest::cookies` and `to_str`
is external.

**LoginFlow**: one browser, tabs that share its jar. An attempt names all that
`authorize()` gives rise to: the secrets, the code, the ID token. A request
carries the cookies it was sent with (`sent`), and a response writes into the jar
as it is when it arrives; that gap is where the hazards are. `authorize` is
`Authorize`, reached from a challenge (`Challenge`) or the application's own
login route (`Begin`); `complete` is `Accept`/`Refuse`, `Exchange`/
`ExchangeFails`, `Complete`/`VerifyFails`, split at its two awaits. The user, the
browser (`Replay`: reload or copied tab) and the provider are external.

**SessionLife**: what becomes of an attempt. Its code is good once, what it earned
becomes the session once at most, there is one session at a time, and one that was
replaced, cleared or superseded never comes back. `LoginFlow!Life` reads the stage
off the session cookie, the codes spent and the tabs that verify.

Operators whose name has a suffix after an underscore (`Kept_OffByOne`) are
deliberate bugs. Each replaces the definition it is named after, and the property
it is meant for is then violated; `PROJECT.json` lists the pairs.

## 3. What each run checks

| Run | Module, configuration | Question | Answer |
|---|---|---|---|
| `cache` | `MCCredentialCache` | Can two threads, between tick and lock, overfill the cache, share a reading, or make it evict more than the coldest? Does it keep its promise to the owner? | no; yes |
| `provider` | `MCOidcProvider` | Three requests, two keys, rotation, failure, disconnects: two discovery requests at once, or a snapshot replaced before the interval? Are tokens judged by one snapshot, and do snapshots follow the issuer? | no; yes |
| `rotation` | `MCOidcRotation` | Is a key published for the interval plus one flight ever unknown? Can a request wait for ever on the mutex? Is a rotated key learnt? | no, no, yes |
| `gateway` | `MCGateway` | Every chain of up to three of four mechanisms against every kind of request: is it the contract, does it fail closed, do order, an old cookie or the framework matter, does an outage log anyone out? | yes, yes, no, no |
| `remote` | `MCRemoteMechanisms` | How long can a revoked or an expired credential be served, with answers in flight? Is any called invalid because an endpoint or a refresh failed? Does the cache keep its promise? | less than the delay plus the longest lifetime; a key less than a flight plus the fallback lifetime, a grant less than the delay less the margin; no; yes |
| `login` | `MCLoginFlow` | Two tabs, replays, failures: does a login ever leave, or bring back, the session it began with? Do secrets survive their login? Can an attempt become the session twice? | no |
| `login_live` | `MCLoginFlow`, `MCLoginFlowLive.cfg` | Does the round trip end for a cooperative user? | yes |
| `attempts` | `MCOidcAttempts` | Are discovery *attempts* spaced by the interval? | no, see 7 |
| `prefix` | `MCGateway`, `MCGatewayPrefix.cfg` | Does order matter for an API key shaped like a JWT? | yes, see 7 |
| `remote_refused` | `MCRemoteMechanisms`, `MCRemoteRefused.cfg` | Is a good password ever called invalid? | yes, see 7 |
| `remote_expiry` | `MCRemoteMechanisms`, `MCRemoteExpiry.cfg` | Is a key ever served past its expiry? | yes, see 7 |
| `login_loop` | `MCLoginFlow`, `MCLoginFlowLoop.cfg` | Does the round trip end when the scope's name is not the flow's? | no, see 7 |

The properties worth a second look:

- `TicksUnique` is what makes `min_by_key` evict one entry: no reading is held
  twice, in the map or by a thread on its way to the lock. `EvictsOnlyTheColdest`
  is an action property over the same steps: only `invalidate` may remove a live
  entry just so, and an insert, also one that panics under the lock, costs none for
  a key it finds there and otherwise the coldest of a full map.
- `RefreshesSpaced` fails as soon as the age is not looked at again under the
  mutex: the queue behind a refresh would then refresh once per request.
- `KeepsPromise` relates the map of one moment to the map of the next as a lookup
  sees them. It fails when a read prolongs an entry, and when a write leaves the
  cache above its limit or makes room it need not make.
- `FollowsIssuer` fails when the retry goes on with the snapshot of the first look:
  a request would be told by an old snapshot what a new one denies.
- `SessionOnce` fails as soon as a code can be redeemed twice: two copies of one
  callback would give one login two sessions.
- `OutageBounded`: a token whose key was published for `MinRefreshInterval +
  MaxFlight` is never reported unknown. The routes to that report (debounce,
  another request's answer from before the rotation, its own fetch) are each
  bounded by the age of the snapshot.
- `NoDowngrade` is about pairs of credentials: a bad `Authorization` header
  together with a good cookie, or on a public scope, ends in an error when the
  mechanism it is meant for is registered.
- `CookiesDecideNothingClaimed` compares a request with itself under every other
  session cookie. It fails when a mechanism leaves a bad token of its own to the
  session authenticator behind it.
- `FrameworksAgree` compares the answer with what the other framework's reading of
  the same wire would have got. Repeated headers and cookies are where two
  readings easily differ. Cookie pairs that are not plain are where they do: then
  no claimed credential is affected, and a pair that actix cannot parse never
  yields two users. It does not say this of an encoded pair, where the code lets
  it happen (section 7).
- `RevocationLagBounded` also says that a hit is for the very scope, kind and
  credential that was asked, and that answers in flight, concurrent misses and
  re-inserts do not stretch the lag.
- `GrantOvershootBounded` is about `expires_in` being counted from the wrong
  moment: the refresh margin pays for the delay, as far as it goes.
- `RefusedForCause` runs through every class of answer: a client told 401 throws
  its credential away, so silence and nonsense of an endpoint, and keys that could
  not be refreshed, must not become one. Its stronger form, that only a revoked
  credential is refused, is false (`remote_refused`).
- `FailedLoginLeavesNothing` holds through replays because a code is spent once
  and the session is cleared at the start. Without the clear, TLC shows a failed
  login next to the old identity.
- `EveryVisitLands` is the absence of redirect loops.

## 4. Bounds

| Run | Bounds | Why they suffice |
|---|---|---|
| `cache` | 3 keys, 2 threads, 2 entries, 5 clock readings, 2 ticks of time | one key more than fits, so eviction, re-insertion and pruning happen; two threads are enough to commit readings out of order; lifetimes below, above and without the margin, and one beyond the last `Instant` (`Horizon`) |
| `provider` | 3 requests, 2 keys, interval 2 | one request holds the mutex and two queue; a rotation replaces a key by another |
| `rotation` | 2 requests, 1 key, interval 2, flight 1 | the bound is about one key; the other request supplies the stale answer. An interval above the flight separates the two terms of the horizon |
| `gateway` | chains up to 3 of 4 mechanisms, 729 kinds of request, and 650 wires more with up to two Authorization lines and cookie pairs of 12 sorts | a mechanism before, at and after the claimant; header fields without use are pinned; two pairs are enough for one to shadow or spoil another, and two users for it to matter. `disabled` accepts all, and is left out of the registrations |
| `remote` | a key in 2 scopes, a pair under 2 grants, 2 requests, 1 entry, margin 2, fallback 3, cap 4, flight 2, wait 1, time 5, last Instant 10 | fallback and cap differ, either side of the margin; lifetimes of a key: none, one that a slow answer outlives, one beyond the cap; of a client's token: none, one beyond the last Instant; of a password's: one that a slow answer outlives, one that it does not. One entry makes every insert of another key an eviction |
| `login` | 2 tabs, 4 attempts | tab against tab, with the jar, the requests in flight and the history all holding attempts; names are reused when nothing refers to them, so the number of logins is not bounded |
| `login_live`, `login_loop` | 1 tab, 4 attempts | at most three attempts are referred to when a login starts, so the fourth is always free |

`MaxClock` and `MaxTime` (CredentialCache), `MaxTime` (RemoteMechanisms) and
`MaxChain` (AuthChain) are guards that stop counters; at those bounds the model may
stop, and a builder without authenticators is refused for good, hence
`CHECK_DEADLOCK FALSE` there. `OidcProvider`, `OidcRotation` and
`LoginFlow` need no such guard: their clocks saturate and their names are reused,
and TLC checks them for deadlock. `MaxFlight` and `MaxWait` are assumptions about the
network, not about the code: how long an answer, and a refresh, may be under way.

Symmetry is used in the safety runs over keys, threads, requests, scopes, tabs
and attempts, which the modules never compare but for equality, and in no run
that checks liveness.

## 5. Fairness

`RFairSpec` (OidcRotation): the executor polls every ready request (weak
fairness of `Local`), time passes (`RTick`), and the mutex is FIFO, as tokio's is,
so a request that keeps its place while the mutex keeps being released gets it
(strong fairness of `Acquire`). The code does *not* bound how long a discovery
request takes: its HTTP client has no timeout. `EveryRequestEnds` therefore has
the premise `CallsEnd`, and `RotationHeals` the premise `HealthyIssuer` (the
issuer does not fail every time). Without `CallsEnd` a single hanging discovery
blocks every request with an unknown key.

`FairSpec` (LoginFlow): server and browser do their part (weak fairness of the
steps that serve a page, check a callback, exchange a code and verify a token).
The user owes nothing; `EveryVisitLands` has the premise `Cooperative`: strong
fairness of coming back, of signing in and of the good end of each remote step,
and in the end no expiry of the protection cookie during a login. The same
premise holds in `login_loop`, where it does not help.

## 6. What is proved

TLAPS checks these for every value of the constants that satisfies the named
`ASSUME`s, which are type declarations and distinctness of names except where
stated.

| Theorem | Says |
|---|---|
| `CacheTypeCorrect`, `CacheStaysBounded` | the map never exceeds `max_entries`, for any keys, threads and configuration |
| `CacheKeepsPromise`, `RemoteKeepsPromise` | the concurrent cache, and the one filled through answers in flight, implement `CachePromise` |
| `ReadingsIgnorable` | a cache whose readings are all alike may keep whatever the real one may keep, so leaving them at zero in `RemoteMechanisms` hides nothing |
| `CacheTicksUnique`, `CacheEvictsOnlyTheColdest` | no reading is shared; an insert, panics included, costs a live entry only for a new key in a full cache, and then the coldest |
| `ProviderTypeCorrect`, `ProviderSingleFlight`, `ProviderDebounced` | one discovery at a time and no early replacement, for any number of requests |
| `ProviderFollowsIssuer` | the provider implements `KeySnapshot` |
| `RotationIsProvider` | the provider with its measures of time is the provider: every safety theorem above holds next to the outage bound |
| `RotationOutageBounded` | the outage bound, for any interval above zero and any flight |
| `ChainTypeCorrect`, `ChainImplementsContract` | the loop refines the one-step contract, for any mechanisms and answers |
| `GatewayNoDowngrade`, `GatewayCookies`, `GatewayOrderIrrelevant`, `GatewayOutage` | what the crate's mechanisms make of any request in a chain of any length and order |
| `ServiceImplementsChain`, `ServiceKeepsGateway`, `ServiceFrameworks` | the chain behind an adapter is the chain and gives clients its four guarantees, and the framework does not matter to a claimed credential or with plain cookies, for wires of any length |
| `RemoteTypeCorrect`, `RemoteRevocation`, `RemoteOvershoot`, `RemoteGrantOvershoot`, `RemoteRefusals` | the lag bounds, and that a 401 has a revoked credential or a rejected ID token behind it, in any configuration and for any answers |
| `LoginTypeCorrect`, `LoginLeavesNothing`, `LoginSecretsDie` | the login's safety, for any number of tabs and any cookie names |
| `LoginOnce` | the login implements `SessionLife` |

How the arguments go, and what the invariants add to the property:

- *Cache.* `CapacityBound` alone is not inductive: an insert needs to know that
  its thread was let through only with room to make (`CacheableInserts`, so
  `MaxEntries` is not zero). `KeptFits` counts what the eviction loop leaves.
  `TicksUnique` is about the map, and its invariant also about the readings of
  the threads on their way to the lock. With it the eviction loop has one victim
  at most (`Excess` is one), and no other entry has a smaller reading.
- *Cache promise.* `InsertFinds` says what a lookup finds after an insert, in terms
  of what it found before and of the keys kept; `KeptMakesRoom` that among those at
  most one could be found and is gone, and none unless the findable keys alone
  fill the cache. The map's size enters as the bound proved before (`CapacityBound`,
  `Fits`): above the limit the loop would drop several. `CacheSteps` and
  `RemoteSteps` then map every step, most of them to none: a lock, a reading, an
  entry that nobody can find any longer are invisible to the owner.
- *Provider.* `SingleFlight` ties program counters to the mutex; `FetchJustified`
  carries the age check from the moment the mutex was granted to the store.
- *Key snapshot.* `VerdictJudges` equates the verifier's order of checks with the
  judgement. That at most one answer is on its way is `SingleFlight`, by which the
  offers are those of the holder of the mutex (`OffersOfHolder`, `OffersGone`); that
  the snapshot is old enough whenever the issuer is asked is `FetchJustified`, and
  neither the abstract guards nor the steps would hold without the two.
- *Rotation.* The snapshot is compared with the keys published through three
  lags: a key missing from an answer has stood for no longer than the answer has
  been in flight (`AnswerLag`), a key missing from the snapshot for no longer than
  its age plus one flight (`SnapshotLag`), and a trusted request's key has stood
  for the horizon (`TrustJustified`). An age that saturates at the interval is
  enough because a refresh is possible exactly there. An interval of zero is
  excluded: the age then never says anything.
- *Chain.* `LoopInv`: in the loop, the scope was not waved through and everything
  before the current position declined. `LoopFindsEarliest` turns that into the
  contract's choice.
- *Gateway.* `ChainDecides`: an answer is the contract's decision. The rest is
  about decisions: `DecidedAt` finds the earliest claimant (the natural numbers
  are well founded), `Claiming` says who claims a credential, `CookieBlind` who
  looks at cookies. The configuration enters as `GatewayAssumption`: the
  mechanisms are those of `Authenticators`, and requests are of `AnyRequest`.
- *Adapters.* `ServiceSteps` maps each step to one of the chain. `Carried` keeps
  the wire next to the request made of it; readings differ in the cookie at most
  (`CookieApart`), and not at all when the pairs are plain (`PlainCookies`). With a
  pair actix cannot parse there is no session on that side (`UnparsableCookies`),
  and taking a session away makes nobody another user (`OneUser`).
- *Remote.* The properties speak of hits; the invariant bounds the expiry of
  every entry and the age of every answer in flight, and hits by entries. A
  lifetime that is absurd is either beyond `Horizon`, and then nothing is stored,
  or below `MaxLife` (`RemoteAssumption`). For refusals the invariant keeps, with
  each error, that its cause was seen: the verdict lemmas (`IntrospectionVerdicts`,
  `TokenVerdicts`, `IdTokenVerdicts`) say which answers become a 401, and a
  revocation is never undone.
- *Login.* `Fresh`: a token about to be handed out is spent, is being verified in
  one tab only, and is neither in the jar nor the session some login found there.
  It follows from codes being spent once, and `FailedLoginLeavesNothing` from it.
- *Session life.* `OneStage`, from `Fresh`, makes the stages exclusive: a session is
  not being verified any more, and what is verified has been spent. A tab that
  turns away from a verification drops the attempt (`DropStep`) because no other
  tab can be verifying it; a replay of a callback whose code is spent never
  reaches `Redeem`.

Every safety property of a passing run is the subject of a theorem. Only
model-checked are the liveness properties (`EveryRequestEnds`, `RotationHeals`,
`EveryVisitLands`): they need fairness and `ENABLED`, which this prover does not
handle. The five properties of section 7 are false, and have counterexamples.

## 7. Where code and comments disagree

With a run that shows it:

- `attempts`: a failed refresh stores nothing and leaves the age, so the next
  request asks the issuer at once. The interval spaces successful refreshes, and
  not attempts as `src/oidc/config.rs:15` has it.
- `prefix`: a prefixed API key with two dots is a compact JWS to
  `BearerAuthenticator`; which of the two is registered first decides, against
  `src/mechanisms/api_token.rs:135`.
- `remote_refused`: a password that the token endpoint has just accepted is
  answered 401 when the ID token of the response does not verify, because of a
  clock, an audience, or a key not yet learnt within the refresh interval
  (`src/mechanisms/basic.rs:108`). `src/error.rs:27` gives that error the meaning "A
  credential was presented but is invalid, expired or revoked"; `src/oidc/error.rs:48`
  describes the conversion, which does not know that nobody presented the token.
- `remote_expiry`: an expiry already past when the answer arrives makes
  `duration_since` fail, `.ok()?` turns that into "no expiry", and the key is
  cached for the fallback lifetime, against `src/cache.rs:5`.
- `login_loop`: `LoginFlow` writes the session under `"session"` unless told
  otherwise, `SessionAuthenticator` reads the name the scope's `Display` gives.
  They agree for `NoScope`. The example's scopes are named `user` and `org_<id>`
  and its flow is not given a name (`examples/actix_service.rs`).

Met while reading, without a run of their own:

- The LRU order is that of the ticks, drawn before the lock, so an entry used
  after another can be evicted first (`src/cache.rs:152`).
- With a session cookie present the session authenticator does not consider the
  `Authorization` header. A credential that no registered mechanism is there for
  (an opaque token, say) is redirected into a login when a stale cookie comes with
  it, against `src/mechanisms/session.rs:101`. `CookiesDecideNothingClaimed` is
  therefore about credentials that one is there for.
- On a public scope a credential that every mechanism declines (an opaque token, a
  malformed Basic header) is anonymous. This is no disagreement: the code says so
  (`src/authenticator.rs:196`) and a test has it as a row (`tests/core.rs:634`);
  `NoDowngrade` is about credentials that somebody judges.
- `UNIX_EPOCH + Duration` panics for an `exp` that `SystemTime` cannot hold
  (`src/mechanisms/introspection.rs:168`), where a malformed response is meant to
  be 503. `Instant::now() + ttl` panics likewise for a lifetime out of range, under
  the cache's write lock (`src/cache.rs:190`); later calls recover the map, but an
  entry may have been evicted for nothing.
- One cookie pair that actix cannot parse drops all cookies of the request
  (`src/adapters/actix.rs:53`), so that a browser that has one, from any
  application of the domain, cannot log in; with axum it is that pair, or with
  raw characters outside ASCII the whole line (`src/adapters/axum.rs:57`).
- Actix percent-decodes the names and values of cookies and trims around the `=`,
  `cookies_from_headers` (`src/adapters/axum.rs:53`) does neither. So a pair with an
  encoded name or value, next to or in place of a plain one, can be the session of
  one user on one framework and of another user, or of nobody, on the other; a
  session on a Cookie line of its own that is not ASCII exists for actix only. That
  is against the spirit of `src/gateway.rs`, for which an adapter is only a
  translation layer. The value
  `IdTokenCodec` writes is a compact JWT, which has nothing to decode.
- An `Authorization` value outside visible ASCII is dropped by both adapters and
  so counts as no credential: anonymous on a public scope, a redirect elsewhere
  (`src/adapters/actix.rs:48`).
- Without a login flow the session authenticator returns an error and does not
  decline (`src/mechanisms/session.rs:31`).
- A key without an expiry escapes `max_cache_ttl` when the fallback lifetime is
  longer (`src/mechanisms/api_token.rs:211`).
- "A revoked ... token stops working" (`src/oidc/session.rs:13`): verification is
  by signature and expiry, so revocation at the provider has no effect before
  expiry.
- A protection cookie is cleared by a success only; after a failed callback it
  stays until it expires or the next login replaces it.
- A challenge answers a request as it was sent, and clears a session another tab
  earned in the meantime (`src/oidc/login.rs:309`).

## 8. What is not modelled

- *Text*: parsing of headers, URLs and queries, rendering of `Set-Cookie`,
  messages. Shapes that lead to different behaviour are kept as values.
- *Cryptography*: signatures, digests and random secrets are what they are for:
  distinct names. The openidconnect verifier is external, modelled by the order
  in which it fails.
- *`RedirectPolicy`*: whether a path may be returned to is an input; its string
  matching is not modelled.
- *Claims, configuration, metadata types*: conversion with no state. Whether an
  application's `TryFrom<IdentityClaims>` succeeds is an input of the modules.
- *Rendering of answers* in the adapters: status, `Location` and `Set-Cookie` are
  copied from the error; the extension hook is the application's.
- *`query_param`, `path_param` and `ScopeResolver`*: the application's business;
  the scope is part of the request in the modules.
- *Two tabs and liveness*: tabs that keep restarting their logins can refuse each
  other's callbacks for ever (`src/oidc/login.rs:382`), so `EveryVisitLands` is
  stated and checked for one tab.
- *Caches inside the gateway*: `Authenticators` has no cache, because a hit
  answers like the call it saves; how long that may be wrong is what
  `RemoteMechanisms` bounds.
- Overflow of the `u64` LRU clock is out of reach of any run of the program.

## 9. Plan

Done, in the order in which they matter: the shared provider and its refresh,
the chain and its contract, the cache, the mechanisms in the chain, the login
round trip, the mechanisms that ask outside, the adapters in front of the chain;
a theorem for every safety property that a run checks; and for the cache, the
provider and the login the specification each implements.

Next:

1. Consequences of the promises, proved once from the abstract module and so for
   every implementation: how long a principal can be found after its key was last
   written (`CachePromise`), and that a snapshot is never older in the issuer's
   history than the one before it (`KeySnapshot`, with a history of publications).
2. A login joined with the provider: `Complete` through `verify_id_token`, so
   that a rotation meets a code already spent. `VerifyFails` covers its outcome
   today.
3. The provider joined with `RemoteMechanisms`, which would replace `MaxWait` by
   the refresh it stands for; `KeySnapshot` is small enough to stand in for it.
4. Liveness of two tabs under the assumption that one of them comes to rest.
