---------------------------- MODULE GatewayProofs ----------------------------
(***************************************************************************)
(* What the crate's mechanisms make of a request in any chain, however     *)
(* long and in whatever order.  AuthChainProofs reduces an answer to the   *)
(* contract's decision, which is the answer of the earliest claimant; what *)
(* remains is who claims what, and that a catch-all comes last.            *)
(***************************************************************************)
EXTENDS Gateway, AuthChainProofs, WellFoundedInduction

Authorized == {"bearer", "api_token", "basic"}

\* The catch-alls are the mechanisms that look past the Authorization header.
LEMMA NamesSplit ==
    /\ Names = Authorized \cup CatchAll
    /\ Authorized \cap CatchAll = {}
    /\ \A q \in AnyRequest : MeantFor(q) \subseteq Authorized
  BY DEF Names, Authorized, CatchAll, MeantFor

\* Who claims an Authorization credential: the mechanism it is meant for, and no
\* other but for an API key of the shape of a JWT.
LEMMA Claiming ==
    ASSUME NEW q \in AnyRequest
    PROVE  /\ \A m \in MeantFor(q) : Authenticate(m, q) # NotApplicable
           /\ \A m \in Authorized : Authenticate(m, q) # NotApplicable =>
                m \in MeantFor(q) \/ (m = "bearer" /\ q.header = "api_jws")
           /\ \A m, n \in MeantFor(q) : m = n
           /\ MeantFor(q) # {} => ~CredentialIsNone(q)
  BY DEF AnyRequest, Headers, Bearers, Grants, Ends, MeantFor, Authorized, Authenticate, Bearer,
         ApiToken, Basic, Concluded, NotApplicable, User, Err, Credential, CredentialIsNone,
         IsCompactJws, HasPrefix

\* A worthless credential earns nobody an identity.
LEMMA WorthlessFails ==
    ASSUME NEW q \in AnyRequest, Worthless(q), NEW m \in Authorized,
           Authenticate(m, q) # NotApplicable
    PROVE  Authenticate(m, q).kind = "error"
  BY DEF AnyRequest, Headers, Bearers, Grants, Ends, Worthless, Authorized, Authenticate, Bearer,
         ApiToken, Basic, Concluded, NotApplicable, User, Err, Credential, IsCompactJws, HasPrefix

\* The three mechanisms of the Authorization header do not look at cookies.
LEMMA CookieBlind ==
    ASSUME NEW q \in AnyRequest, NEW cookie \in Cookies
    PROVE  LET other == [q EXCEPT !.cookie = cookie]
           IN  /\ other \in AnyRequest
               /\ \A m \in Authorized : Authenticate(m, other) = Authenticate(m, q)
               /\ PublicScope(other) = PublicScope(q)
               /\ CredentialIsNone(other) = CredentialIsNone(q)
<1> DEFINE other == [q EXCEPT !.cookie = cookie]
<1>1. other \in AnyRequest
  BY DEF AnyRequest
<1>2. /\ other.header = q.header /\ other.grant = q.grant /\ other.known = q.known
      /\ other.verify = q.verify /\ other.remote = q.remote /\ other.public = q.public
      /\ other.password = q.password /\ other.fallback = q.fallback
  BY DEF AnyRequest
<1> HIDE DEF other
<1>3. Credential(other) = Credential(q) /\ IsCompactJws(other) = IsCompactJws(q)
      /\ HasPrefix(other) = HasPrefix(q)
  BY <1>2 DEF Credential, IsCompactJws, HasPrefix
<1>4. \A m \in Authorized : Authenticate(m, other) = Authenticate(m, q)
  BY <1>2, <1>3 DEF Authorized, Authenticate, Bearer, ApiToken, Basic
<1> QED BY <1>1, <1>2, <1>3, <1>4 DEF PublicScope, CredentialIsNone, other

\* Only the session authenticator redirects, and not upon an outage.
LEMMA RedirectsFrom ==
    ASSUME NEW q \in AnyRequest, NEW m \in Names, Authenticate(m, q) = Err("redirect")
    PROVE  q.cookie \in {"absent", "empty", "invalid_credential"}
  BY DEF AnyRequest, Headers, Bearers, Grants, Ends, Cookies, Sessions, Names, Authenticate, Bearer,
         ApiToken, Basic, Session, Disabled, Challenged, Concluded, NotApplicable, User, Err, Status, Credential,
         CredentialIsNone, IsCompactJws, HasPrefix

-----------------------------------------------------------------------------
\* The earliest of some positions is one of them, and before all others.
LEMMA EarliestIs ==
    ASSUME NEW S \in SUBSET Nat, S # {}
    PROVE  /\ Contract!Earliest(S) \in S
           /\ \A j \in S : Contract!Earliest(S) <= j
<1> DEFINE less == {ss \in Nat \X Nat : ss[1] < ss[2]}
<1>1. OpToRel(<, Nat) = less
  BY DEF OpToRel
<1>2. IsWellFoundedOn(less, Nat)
  BY <1>1, NatLessThanWellFounded
<1>3. PICK i \in S : \A j \in S : <<j, i>> \notin less
  <2> HIDE DEF less
  <2> QED BY <1>2, WFMin
<1>4. ASSUME NEW j \in S PROVE i <= j
  <2>1. i \in Nat /\ j \in Nat
    OBVIOUS
  <2>2. j < i => <<j, i>> \in less
    BY <2>1
  <2> QED BY <1>3, <2>1, <2>2
<1> QED BY <1>4 DEF Contract!Earliest

\* A mechanism of a chain in service.
LEMMA Members ==
    ASSUME NEW c \in Seq(Mechanisms), NEW i \in 1 .. Len(c)
    PROVE  c[i] \in Mechanisms /\ c[i] \in Names
  BY GatewayAssumption

\* Where a chain decides: at its earliest claimant.
LEMMA DecidedAt ==
    ASSUME NEW STATE c, c \in Seq(Mechanisms), NEW STATE p, NEW STATE q, q \in Requests,
           ~Contract!WavedThrough(p, q),
           NEW STATE i, i \in 1 .. Len(c), Authenticate(c[i], q) # NotApplicable
    PROVE  \E e \in 1 .. i :
              /\ Authenticate(c[e], q) # NotApplicable
              /\ \A j \in 1 .. e - 1 : Authenticate(c[j], q) = NotApplicable
              /\ Contract!Decision(c, p, q) = Authenticate(c[e], q)
<1> DEFINE S == Contract!Claimants(c, q)
           e == Contract!Earliest(S)
<1>1. \A j \in 1 .. Len(c) : Answer(c[j], q) = Authenticate(c[j], q)
  BY Members, GatewayAssumption
<1>2. S \in SUBSET Nat /\ i \in S /\ S \subseteq 1 .. Len(c)
  BY <1>1, GatewayAssumption DEF Contract!Claimants
<1> HIDE DEF S
<1>3. e \in S /\ \A j \in S : e <= j
  BY <1>2, EarliestIs
<1> HIDE DEF e
<1>4. e \in 1 .. i
  <2>1. e \in 1 .. Len(c) /\ e <= i
    BY <1>2, <1>3
  <2> QED BY <2>1
<1>5. Answer(c[e], q) # Declined /\ \A j \in 1 .. e - 1 : Answer(c[j], q) = Declined
  <2>1. e \in Contract!Claimants(c, q) /\ \A j \in Contract!Claimants(c, q) : e <= j
    BY <1>3 DEF S
  <2>2. e \in Nat /\ \A j \in 1 .. e - 1 : j \in 1 .. Len(c) /\ ~(e <= j)
    BY <1>4
  <2> QED BY <2>1, <2>2 DEF Contract!Claimants
<1>6. Contract!Decision(c, p, q) = Answer(c[e], q)
  BY <1>2 DEF Contract!Decision, S, e
<1>7. \A j \in 1 .. e : j \in 1 .. Len(c)
  BY <1>4
<1> QED BY <1>1, <1>4, <1>5, <1>6, <1>7, GatewayAssumption

\* A claimed request is decided by a mechanism of the Authorization header.
LEMMA ClaimedDecision ==
    ASSUME NEW STATE c, c \in Seq(Mechanisms), NEW STATE p, NEW STATE q, q \in Requests,
           ~Contract!WavedThrough(p, q), CatchAllLast(c),
           NEW STATE i, i \in 1 .. Len(c), c[i] \in MeantFor(q)
    PROVE  \E e \in 1 .. Len(c) :
              /\ c[e] \in Authorized
              /\ Authenticate(c[e], q) # NotApplicable
              /\ \A j \in 1 .. e - 1 :
                    c[j] \in Authorized /\ Authenticate(c[j], q) = NotApplicable
              /\ Contract!Decision(c, p, q) = Authenticate(c[e], q)
<1>1. q \in AnyRequest /\ c[i] \in Authorized
  BY GatewayAssumption, NamesSplit
<1>2. PICK e \in 1 .. i :
        /\ Authenticate(c[e], q) # NotApplicable
        /\ \A j \in 1 .. e - 1 : Authenticate(c[j], q) = NotApplicable
        /\ Contract!Decision(c, p, q) = Authenticate(c[e], q)
  BY <1>1, Claiming, DecidedAt
<1>3. \A j \in 1 .. e : j \in 1 .. Len(c) /\ c[j] \in Authorized
  <2> SUFFICES ASSUME NEW j \in 1 .. e PROVE j \in 1 .. Len(c) /\ c[j] \in Authorized
    OBVIOUS
  <2>1. j \in 1 .. Len(c) /\ j \in DOMAIN c /\ i \in DOMAIN c
    OBVIOUS
  <2>2. CASE j = Len(c)
    BY <1>1, <2>1, <2>2
  <2>3. CASE j # Len(c)
    BY <2>1, <2>3, Members, NamesSplit DEF CatchAllLast
  <2> QED BY <2>2, <2>3
<1>4. e \in 1 .. Len(c) /\ e \in 1 .. e /\ \A j \in 1 .. e - 1 : j \in 1 .. e
  OBVIOUS
<1> QED BY <1>2, <1>3, <1>4

-----------------------------------------------------------------------------
\* A position of the mechanism the request is meant for.
LEMMA ClaimedAt ==
    ASSUME TypeOK, Claimed(request)
    PROVE  \E i \in 1 .. Len(chain) : chain[i] \in MeantFor(request)
  BY DEF TypeOK, Claimed, Consulted

\* A request that some mechanism is meant for is waved through only by policy.
LEMMA NotWaved ==
    ASSUME NEW STATE q, q \in Requests, MeantFor(q) # {}, ~(q.public /\ policy = "AlwaysAnonymous")
    PROVE  ~Contract!WavedThrough(policy, q)
  BY GatewayAssumption, Claiming DEF Contract!WavedThrough, PublicScope

\* The chain fails closed, whatever is registered and however many requests there
\* have been.
THEOREM GatewayNoDowngrade == Spec => []NoDowngrade
<1>1. Decided /\ TypeOK => NoDowngrade
  <2> SUFFICES ASSUME Decided, TypeOK, phase = "answered", CatchAllLast(chain),
                      ~(request.public /\ policy = "AlwaysAnonymous"),
                      Worthless(request), Claimed(request)
               PROVE  result.kind = "error"
    BY DEF NoDowngrade
  <2>1. request \in Requests /\ request \in AnyRequest
        /\ result = Contract!Decision(chain, policy, request)
    BY GatewayAssumption DEF Decided
  <2>2. PICK i \in 1 .. Len(chain) : chain[i] \in MeantFor(request)
    BY ClaimedAt
  <2>3. ~Contract!WavedThrough(policy, request)
    BY <2>1, <2>2, NotWaved
  <2>4. PICK e \in 1 .. Len(chain) :
            /\ chain[e] \in Authorized
            /\ Authenticate(chain[e], request) # NotApplicable
            /\ Contract!Decision(chain, policy, request) = Authenticate(chain[e], request)
    BY <2>1, <2>2, <2>3, ClaimedDecision DEF TypeOK
  <2> QED BY <2>1, <2>4, WorthlessFails
<1> QED BY <1>1, ChainDecides, PTL

\* An outage is never answered by a redirect into the login flow.
THEOREM GatewayOutage == Spec => []OutageNeverLogsOut
<1>1. Decided /\ TypeOK => OutageNeverLogsOut
  <2> SUFFICES ASSUME Decided, TypeOK, phase = "answered", result = Err("redirect")
               PROVE  request.cookie \in {"absent", "empty", "invalid_credential"}
    BY DEF OutageNeverLogsOut
  <2>1. request \in Requests /\ request \in AnyRequest
        /\ result = Contract!Decision(chain, policy, request)
    BY GatewayAssumption DEF Decided
  <2>2. Err("redirect") # Anonymous /\ Err("redirect") # Challenge
    BY GatewayAssumption DEF Err, AnonymousVisit, Unauthenticated
  <2>3. /\ ~Contract!WavedThrough(policy, request)
        /\ Contract!Claimants(chain, request) # {}
    BY <2>1, <2>2 DEF Contract!Decision
  <2>4. PICK i \in 1 .. Len(chain) : Answer(chain[i], request) # Declined
    BY <2>3 DEF Contract!Claimants
  <2>5. Authenticate(chain[i], request) # NotApplicable
    BY <2>1, <2>4, Members, GatewayAssumption DEF TypeOK
  <2>6. PICK e \in 1 .. i :
            Contract!Decision(chain, policy, request) = Authenticate(chain[e], request)
    BY <2>1, <2>3, <2>5, DecidedAt DEF TypeOK
  <2>7. chain[e] \in Names
    BY Members DEF TypeOK
  <2> QED BY <2>1, <2>6, <2>7, RedirectsFrom
<1> QED BY <1>1, ChainDecides, PTL

\* No session cookie, whatever its state, changes the answer to a request whose
\* Authorization credential is claimed.
THEOREM GatewayCookies == Spec => []CookiesDecideNothingClaimed
<1>1. Decided /\ TypeOK => CookiesDecideNothingClaimed
  <2> SUFFICES ASSUME Decided, TypeOK, phase = "answered", CatchAllLast(chain), Claimed(request),
                      NEW cookie \in Cookies,
                      [request EXCEPT !.cookie = cookie] \in Requests
               PROVE  Contract!Decision(chain, policy, [request EXCEPT !.cookie = cookie]) = result
    BY DEF CookiesDecideNothingClaimed
  <2> DEFINE other == [request EXCEPT !.cookie = cookie]
  <2>1. request \in Requests /\ request \in AnyRequest
        /\ result = Contract!Decision(chain, policy, request)
    BY GatewayAssumption DEF Decided
  <2>2. /\ other \in Requests
        /\ \A m \in Authorized : Authenticate(m, other) = Authenticate(m, request)
        /\ IsPublic(other) = IsPublic(request)
        /\ NoCredential(other) = NoCredential(request)
    BY <2>1, CookieBlind, GatewayAssumption
  <2> HIDE DEF other
  <2>3. PICK i \in 1 .. Len(chain) : chain[i] \in MeantFor(request)
    BY ClaimedAt
  <2>4. CASE Contract!WavedThrough(policy, request)
    BY <2>1, <2>2, <2>4 DEF Contract!WavedThrough, Contract!Decision, other
  <2>5. CASE ~Contract!WavedThrough(policy, request)
    <3>1. PICK e \in 1 .. Len(chain) :
            /\ chain[e] \in Authorized
            /\ Authenticate(chain[e], request) # NotApplicable
            /\ \A j \in 1 .. e - 1 :
                  chain[j] \in Authorized /\ Authenticate(chain[j], request) = NotApplicable
            /\ Contract!Decision(chain, policy, request) = Authenticate(chain[e], request)
      BY <2>1, <2>3, <2>5, ClaimedDecision DEF TypeOK
    <3>2. ~Contract!WavedThrough(policy, other)
      BY <2>2, <2>5 DEF Contract!WavedThrough
    <3>3. Authenticate(chain[e], other) # NotApplicable
      BY <2>2, <3>1
    <3>4. PICK f \in 1 .. e :
            /\ Authenticate(chain[f], other) # NotApplicable
            /\ Contract!Decision(chain, policy, other) = Authenticate(chain[f], other)
      BY <2>2, <3>2, <3>3, DecidedAt DEF TypeOK
    <3>5. f = e
      BY <2>2, <3>1, <3>4
    <3> QED BY <2>1, <2>2, <3>1, <3>4, <3>5 DEF other
  <2> QED BY <2>4, <2>5 DEF other
<1> QED BY <1>1, ChainDecides, PTL

-----------------------------------------------------------------------------
\* Two chains of the same mechanisms.
SameMembers(c, d) ==
    /\ \A i \in 1 .. Len(c) : \E j \in 1 .. Len(d) : d[j] = c[i]
    /\ \A j \in 1 .. Len(d) : \E i \in 1 .. Len(c) : c[i] = d[j]

\* A chain decides as its only mechanism of the Authorization header that claims
\* the request, if one does, else as its catch-all, if that does.
LEMMA OrderlessDecision ==
    ASSUME NEW STATE c, c \in Seq(Mechanisms), NEW STATE d, d \in Seq(Mechanisms), NEW STATE p,
           NEW STATE q, q \in Requests, q.header # "api_jws",
           CatchAllLast(c), CatchAllLast(d),
           SameMembers(c, d)
    PROVE  Contract!Decision(c, p, q) = Contract!Decision(d, p, q)
<1>q. q \in AnyRequest
  BY GatewayAssumption
<1>n. /\ \A i \in 1 .. Len(c) : c[i] \in Names /\ Answer(c[i], q) = Authenticate(c[i], q)
      /\ \A i \in 1 .. Len(d) : d[i] \in Names /\ Answer(d[i], q) = Authenticate(d[i], q)
  BY Members, GatewayAssumption
<1>1. CASE Contract!WavedThrough(p, q)
  BY <1>1 DEF Contract!Decision
<1>2. CASE ~Contract!WavedThrough(p, q) /\ Contract!Claimants(c, q) = {}
  <2>1. \A i \in 1 .. Len(c) : Authenticate(c[i], q) = NotApplicable
    BY <1>2, <1>n, GatewayAssumption DEF Contract!Claimants
  <2>2. Contract!Claimants(d, q) = {}
    BY <2>1, <1>n, GatewayAssumption DEF Contract!Claimants, SameMembers
  <2> QED BY <1>2, <2>2 DEF Contract!Decision
<1>3. CASE ~Contract!WavedThrough(p, q) /\ Contract!Claimants(c, q) # {}
  <2>1. PICK i \in 1 .. Len(c) : Authenticate(c[i], q) # NotApplicable
    BY <1>3, <1>n, GatewayAssumption DEF Contract!Claimants
  <2>2. PICK j \in 1 .. Len(d) : Authenticate(d[j], q) # NotApplicable
    BY <2>1 DEF SameMembers
  <2>3. PICK e \in 1 .. i :
            /\ Authenticate(c[e], q) # NotApplicable
            /\ \A k \in 1 .. e - 1 : Authenticate(c[k], q) = NotApplicable
            /\ Contract!Decision(c, p, q) = Authenticate(c[e], q)
    BY <1>3, <2>1, DecidedAt
  <2>4. PICK f \in 1 .. j :
            /\ Authenticate(d[f], q) # NotApplicable
            /\ \A k \in 1 .. f - 1 : Authenticate(d[k], q) = NotApplicable
            /\ Contract!Decision(d, p, q) = Authenticate(d[f], q)
    BY <1>3, <2>2, DecidedAt
  <2>5. /\ e \in 1 .. Len(c) /\ f \in 1 .. Len(d) /\ c[e] \in Names /\ d[f] \in Names
    BY <1>n
  <2>6. PICK ce \in 1 .. Len(d) : d[ce] = c[e]
    BY <2>5 DEF SameMembers
  <2>7. PICK df \in 1 .. Len(c) : c[df] = d[f]
    BY <2>5 DEF SameMembers
  <2>8. f <= ce /\ e <= df
    BY <2>3, <2>4, <2>5, <2>6, <2>7
  <2>9. c[e] = d[f]
    <3>1. CASE c[e] \in CatchAll
      <4>1. e = Len(c) /\ df = e
        BY <2>5, <2>7, <2>8, <3>1 DEF CatchAllLast
      <4> QED BY <2>7, <4>1
    <3>2. CASE d[f] \in CatchAll
      <4>1. f = Len(d) /\ ce = f
        BY <2>5, <2>6, <2>8, <3>2 DEF CatchAllLast
      <4> QED BY <2>6, <4>1
    <3>3. CASE c[e] \notin CatchAll /\ d[f] \notin CatchAll
      <4>1. c[e] \in Authorized /\ d[f] \in Authorized
        BY <2>5, <3>3, NamesSplit
      <4>2. c[e] \in MeantFor(q) /\ d[f] \in MeantFor(q)
        BY <1>q, <2>3, <2>4, <4>1, Claiming
      <4> QED BY <1>q, <4>2, Claiming
    <3> QED BY <3>1, <3>2, <3>3
  <2> QED BY <2>3, <2>4, <2>9
<1> QED BY <1>1, <1>2, <1>3

\* As long as the catch-all is last, the order of registration decides nothing.
THEOREM GatewayOrderIrrelevant == Spec => []OrderIrrelevant
<1>1. Decided /\ TypeOK => OrderIrrelevant
  <2> SUFFICES ASSUME Decided, TypeOK, phase = "answered", CatchAllLast(chain),
                      request.header # "api_jws", NEW other \in Reorderings(chain)
               PROVE  Contract!Decision(other, policy, request) = result
    BY DEF OrderIrrelevant
  <2>1. request \in Requests /\ result = Contract!Decision(chain, policy, request)
    BY DEF Decided
  <2>2. chain \in Seq(Mechanisms) /\ DOMAIN chain = 1 .. Len(chain) /\ Len(chain) \in Nat
    BY DEF TypeOK
  <2>3. PICK p \in Bijection(DOMAIN chain, DOMAIN chain) : other = [i \in DOMAIN chain |-> chain[p[i]]]
    BY DEF Reorderings
  <2>4. /\ p \in [DOMAIN chain -> DOMAIN chain]
        /\ \A i \in DOMAIN chain : \E j \in DOMAIN chain : p[j] = i
    BY DEF Bijection, Injection, Surjection
  <2>5. other \in Seq(Mechanisms) /\ Len(other) = Len(chain)
    <3>1. \A i \in DOMAIN chain : chain[p[i]] \in Mechanisms
      BY <2>2, <2>4
    <3>2. other \in [1 .. Len(chain) -> Mechanisms]
      BY <2>2, <2>3, <3>1
    <3> QED BY <2>2, <3>2
  <2>6. SameMembers(chain, other)
    BY <2>2, <2>3, <2>4, <2>5 DEF SameMembers
  <2>7. CatchAllLast(other)
    BY DEF Reorderings
  <2> QED BY <2>1, <2>2, <2>5, <2>6, <2>7, OrderlessDecision
<1> QED BY <1>1, ChainDecides, PTL
=============================================================================
