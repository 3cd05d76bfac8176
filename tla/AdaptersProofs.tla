---------------------------- MODULE AdaptersProofs ----------------------------
(***************************************************************************)
(* Behind an adapter the gateway does nothing that it would not do with    *)
(* requests handed to it directly, so what GatewayProofs shows of Spec     *)
(* holds of the service; and the adapters decide nothing themselves.       *)
(***************************************************************************)
EXTENDS Adapters, GatewayProofs

Busy == phase \in {"received", "consulting", "answered"}

\* The request in hand is what some adapter made of the wire.
Carried ==
    Busy => /\ wire \in Wires
            /\ \E f \in Frameworks : request = Extracted(f, wire)

\* The adapter's steps are the gateway's.
LEMMA ServiceSteps == [ServiceNext]_serviceVars => [Next]_vars
<1> SUFFICES ASSUME [ServiceNext]_serviceVars PROVE [Next]_vars
  OBVIOUS
<1>1. ASSUME NEW f \in Frameworks, Call(f) PROVE Next
  <2>1. PICK w \in Wires : Receive(Extracted(f, w))
    BY <1>1 DEF Call
  <2>2. Extracted(f, w) \in Requests
    BY AdaptersAssumption
  <2> QED BY <2>1, <2>2 DEF Next
<1>2. CASE Configuring
  BY <1>2 DEF Configuring, Next
<1>3. CASE Deciding
  BY <1>3 DEF Deciding, Next
<1>4. CASE Reply
  BY <1>4 DEF Reply, Next
<1>5. CASE UNCHANGED serviceVars
  BY <1>5 DEF serviceVars
<1> QED BY <1>1, <1>2, <1>3, <1>4, <1>5 DEF ServiceNext

\* The service is an instance of the chain: every property of Spec is one of
\* ServiceSpec, whichever framework carries the requests.
THEOREM ServiceImplementsChain == ServiceSpec => Spec
<1>1. ServiceInit => Init
  BY DEF ServiceInit
<1> QED BY <1>1, ServiceSteps, PTL DEF ServiceSpec, Spec

\* What a request was made from stays with it until the answer.
LEMMA ServiceCarries == ServiceSpec => []Carried
<1>1. ServiceInit => Carried
  BY DEF ServiceInit, Init, Carried, Busy
<1>2. Carried /\ [ServiceNext]_serviceVars => Carried'
  <2> SUFFICES ASSUME Carried, [ServiceNext]_serviceVars PROVE Carried'
    OBVIOUS
  <2>1. ASSUME NEW f \in Frameworks, Call(f) PROVE Carried'
    <3>1. PICK w \in Wires : request' = Extracted(f, w) /\ wire' = w
      BY <2>1 DEF Call, Receive
    <3> QED BY <3>1 DEF Carried
  <2>2. CASE Configuring
    BY <2>2 DEF Configuring, With, SetPolicy, Build, Carried, Busy
  <2>3. CASE Deciding
    BY <2>3 DEF Deciding, Enter, Consult, Exhaust, Carried, Busy
  <2>4. CASE Reply
    BY <2>4 DEF Reply, Respond, Carried, Busy
  <2>5. CASE UNCHANGED serviceVars
    BY <2>5 DEF serviceVars, vars, Carried, Busy
  <2> QED BY <2>1, <2>2, <2>3, <2>4, <2>5 DEF ServiceNext
<1> QED BY <1>1, <1>2, PTL DEF ServiceSpec

-----------------------------------------------------------------------------
\* Plain cookies are read alike.
LEMMA PlainCookies ==
    ASSUME NEW pairs \in Seq(CookiePairs), PlainPairs(pairs)
    PROVE  ActixCookie(pairs) = AxumCookie(pairs)
<1>0. \A i \in DOMAIN pairs : pairs[i].form = "plain" /\ pairs[i].ascii
  BY DEF PlainPairs
<1>1. Split(pairs) = DOMAIN pairs
  BY <1>0 DEF Split
<1>2. Unparsable(pairs) = {}
  BY <1>0 DEF Unparsable, UnparsableForms
<1>3. Raw(pairs) = Decoded(pairs)
  BY <1>0 DEF Raw, Decoded, CookiePairs
<1> QED BY <1>1, <1>2, <1>3 DEF ActixCookie, AxumCookie

\* Two adapters differ in the session cookie at most.
LEMMA CookieApart ==
    ASSUME NEW f \in Frameworks, NEW g \in Frameworks, NEW w \in Wires
    PROVE  \E cookie \in Cookies :
              Extracted(g, w) = [Extracted(f, w) EXCEPT !.cookie = cookie]
<1>1. w.rest \in AnyRequest /\ Extracted(g, w) \in AnyRequest
  BY AdaptersAssumption, GatewayAssumption DEF AnyWire
<1>2. Extracted(g, w).cookie \in Cookies
  BY <1>1 DEF AnyRequest
<1>3. Extracted(g, w) = [Extracted(f, w) EXCEPT !.cookie = Extracted(g, w).cookie]
  BY <1>1 DEF Extracted, AnyRequest
<1> QED BY <1>2, <1>3

\* A user comes from the first mechanism that claims the request.
LEMMA UserFrom ==
    ASSUME NEW STATE c, c \in Seq(Mechanisms), NEW STATE p, NEW STATE q, q \in Requests,
           Contract!Decision(c, p, q).kind = "user"
    PROVE  \E e \in 1 .. Len(c) :
              /\ Authenticate(c[e], q) # NotApplicable
              /\ \A k \in 1 .. e - 1 : Authenticate(c[k], q) = NotApplicable
              /\ Contract!Decision(c, p, q) = Authenticate(c[e], q)
<1>1. Anonymous.kind # "user" /\ Challenge.kind # "user"
  BY GatewayAssumption DEF AnonymousVisit, Unauthenticated, Err
<1>2. ~Contract!WavedThrough(p, q) /\ Contract!Claimants(c, q) # {}
  BY <1>1 DEF Contract!Decision
<1>3. PICK i \in 1 .. Len(c) : Authenticate(c[i], q) # NotApplicable
  BY <1>2, Members, GatewayAssumption DEF Contract!Claimants
<1>4. \E e \in 1 .. i :
        /\ Authenticate(c[e], q) # NotApplicable
        /\ \A k \in 1 .. e - 1 : Authenticate(c[k], q) = NotApplicable
        /\ Contract!Decision(c, p, q) = Authenticate(c[e], q)
  BY <1>2, <1>3, DecidedAt
<1>5. 1 .. i \subseteq 1 .. Len(c)
  OBVIOUS
<1> QED BY <1>4, <1>5

\* Leaving out the session cookie never makes another user of a request: as long
\* as the catch-all is last, the user is the one of the Authorization header, or
\* else the one of the catch-all, and that is nobody without the cookie.
LEMMA OneUser ==
    ASSUME NEW STATE c, c \in Seq(Mechanisms), NEW STATE p, NEW STATE q, q \in Requests,
           NEW STATE other, other \in Requests, NEW STATE cookie, cookie \in Cookies,
           other = [q EXCEPT !.cookie = cookie], CatchAllLast(c),
           q.cookie = "absent" \/ cookie = "absent",
           Contract!Decision(c, p, q).kind = "user",
           Contract!Decision(c, p, other).kind = "user"
    PROVE  Contract!Decision(c, p, q) = Contract!Decision(c, p, other)
<1>1. /\ q \in AnyRequest /\ other \in AnyRequest
      /\ \A m \in Authorized : Authenticate(m, other) = Authenticate(m, q)
  BY CookieBlind, GatewayAssumption
<1>2. PICK e \in 1 .. Len(c) :
        /\ Authenticate(c[e], q) # NotApplicable
        /\ \A k \in 1 .. e - 1 : Authenticate(c[k], q) = NotApplicable
        /\ Contract!Decision(c, p, q) = Authenticate(c[e], q)
  BY UserFrom
<1>3. PICK d \in 1 .. Len(c) :
        /\ Authenticate(c[d], other) # NotApplicable
        /\ \A k \in 1 .. d - 1 : Authenticate(c[k], other) = NotApplicable
        /\ Contract!Decision(c, p, other) = Authenticate(c[d], other)
  BY UserFrom
<1>4. \A k \in 1 .. Len(c) : c[k] \in Names /\ (k # Len(c) => c[k] \in Authorized)
  BY Members, NamesSplit DEF CatchAllLast
<1>5. d = e
  <2>1. CASE d < e
    <3>1. c[d] \in Authorized /\ d \in 1 .. e - 1
      BY <1>4, <2>1
    <3> QED BY <1>1, <1>2, <1>3, <3>1
  <2>2. CASE e < d
    <3>1. c[e] \in Authorized /\ e \in 1 .. d - 1
      BY <1>4, <2>2
    <3> QED BY <1>1, <1>2, <1>3, <3>1
  <2> QED BY <2>1, <2>2
<1>6. CASE c[e] \in Authorized
  BY <1>1, <1>2, <1>3, <1>5, <1>6
<1>7. CASE c[e] \in CatchAll
  <2>1. other.cookie = cookie
    BY <1>1 DEF AnyRequest
  <2>2. ASSUME NEW r \in AnyRequest, r.cookie = "absent" PROVE Session(r).kind # "user"
    <3>1. Session(r) \in {Challenged(r, "unauthenticated"), NotApplicable}
      BY <2>2 DEF Session, Sessions, Ends
    <3> QED BY <3>1 DEF AnyRequest, Challenged, NotApplicable, Err
  <2>3. /\ Authenticate("session", q) = Session(q)
        /\ Authenticate("session", other) = Session(other)
        /\ Authenticate("disabled", q) = Authenticate("disabled", other)
    BY DEF Authenticate, Disabled
  <2> QED BY <1>1, <1>2, <1>3, <1>5, <1>7, <2>1, <2>2, <2>3 DEF CatchAll
<1> QED BY <1>4, <1>6, <1>7, NamesSplit

\* A request whose Cookie lines actix cannot parse has no session there.
LEMMA UnparsableCookies ==
    ASSUME NEW w \in Wires, Unparsable(w.pairs) # {}
    PROVE  Extracted("actix", w).cookie = "absent"
<1>1. Extracted("actix", w).cookie = ActixCookie(w.pairs)
  BY AdaptersAssumption DEF AnyWire, AnyRequest, Extracted
<1> QED BY <1>1 DEF ActixCookie, Cookie

\* A request gets the same answer through either framework, whatever the cookies
\* when a credential of a registered mechanism comes with them; and one that does
\* not, gets it when its cookie pairs are plain, and never another user's because
\* a pair cannot be parsed.
THEOREM ServiceFrameworks == ServiceSpec => []FrameworksAgree
<1>1. Carried /\ Decided /\ TypeOK /\ CookiesDecideNothingClaimed => FrameworksAgree
  <2> SUFFICES ASSUME Carried, Decided, TypeOK, CookiesDecideNothingClaimed,
                      phase = "answered", CatchAllLast(chain), NEW g \in Frameworks
               PROVE  LET there == Contract!Decision(chain, policy, Extracted(g, wire))
                      IN  \/ there = result
                          \/ /\ ~Claimed(request)
                             /\ ~PlainPairs(wire.pairs)
                             /\ Unparsable(wire.pairs) # {} =>
                                    {there.kind, result.kind} # {"user"}
    BY DEF FrameworksAgree
  <2> DEFINE other == Extracted(g, wire)
  <2>1. request \in Requests /\ result = Contract!Decision(chain, policy, request)
    BY DEF Decided
  <2>2. PICK f \in Frameworks : request = Extracted(f, wire)
    BY DEF Carried, Busy
  <2>3. wire \in Wires /\ other \in Requests
    BY AdaptersAssumption DEF Carried, Busy
  <2>4. PICK cookie \in Cookies : other = [request EXCEPT !.cookie = cookie]
    BY <2>2, <2>3, CookieApart
  <2>5. Claimed(request) => Contract!Decision(chain, policy, other) = result
    <3> HIDE DEF other
    <3> QED BY <2>3, <2>4 DEF CookiesDecideNothingClaimed
  <2>6. PlainPairs(wire.pairs) => Contract!Decision(chain, policy, other) = result
    <3> SUFFICES ASSUME PlainPairs(wire.pairs) PROVE other = request
      BY <2>1
    <3>1. ActixCookie(wire.pairs) = AxumCookie(wire.pairs)
      BY <2>3, AdaptersAssumption, PlainCookies DEF AnyWire
    <3>2. (IF g = "actix" THEN ActixCookie(wire.pairs) ELSE AxumCookie(wire.pairs))
          = (IF f = "actix" THEN ActixCookie(wire.pairs) ELSE AxumCookie(wire.pairs))
      BY <3>1
    <3> QED BY <2>2, <3>2, Zenon DEF Extracted
  <2>7. ASSUME Unparsable(wire.pairs) # {}, Contract!Decision(chain, policy, other) # result
        PROVE  {Contract!Decision(chain, policy, other).kind, result.kind} # {"user"}
    <3>1. other # request
      BY <2>1, <2>7
    <3>2. g = "actix" \/ f = "actix"
      BY <2>2, <3>1 DEF Frameworks
    <3>3. request.cookie = "absent" \/ other.cookie = "absent"
      BY <2>2, <2>3, <2>7, <3>2, UnparsableCookies
    <3> HIDE DEF other
    <3>4. request \in AnyRequest
      BY <2>1, GatewayAssumption
    <3>5. other.cookie = cookie
      BY <2>4, <3>4 DEF AnyRequest
    <3>6. \/ Contract!Decision(chain, policy, other) = result
          \/ Contract!Decision(chain, policy, other).kind # "user"
          \/ result.kind # "user"
      BY <2>1, <2>3, <2>4, <3>3, <3>5, OneUser DEF TypeOK
    <3> QED BY <2>7, <3>6 DEF other
  <2> QED BY <2>5, <2>6, <2>7
<1> QED BY <1>1, ServiceCarries, ServiceImplementsChain, ChainDecides, GatewayCookies, PTL

\* What the chain guarantees its callers it guarantees the clients of a service,
\* through either adapter and whatever is on the wire.
THEOREM ServiceKeepsGateway ==
    ServiceSpec => [](/\ NoDowngrade
                      /\ CookiesDecideNothingClaimed
                      /\ OrderIrrelevant
                      /\ OutageNeverLogsOut)
BY ServiceImplementsChain, GatewayNoDowngrade, GatewayCookies,
   GatewayOrderIrrelevant, GatewayOutage, PTL
=============================================================================
