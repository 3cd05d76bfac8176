------------------------------- MODULE Adapters -------------------------------
(***************************************************************************)
(* src/adapters and src/request.rs: how a framework's request becomes the  *)
(* AuthRequest that the gateway decides about.  A request on the wire has  *)
(* the Authorization lines and the pairs of the Cookie lines in the order  *)
(* the client sent them; "rest" is everything that an AuthRequest has of   *)
(* it besides, and what the outside would say of it.                       *)
(***************************************************************************)
EXTENDS Gateway

CONSTANTS
    Wires,      \* what clients send
    NoWire      \* no request is in hand

VARIABLE wire   \* what the request in hand was made from

serviceVars == <<vars, wire>>

Frameworks == {"actix", "axum"}

\* A header value outside visible ASCII is "unreadable" (HeaderValue::to_str).
AuthorizationLines == (Headers \ {"absent"}) \cup {"unreadable"}

\* What a pair says: whether its name is the session cookie's, and its value.
Reading == [session : BOOLEAN, value : Cookies \ {"absent"}]

\* What stops a parser of cookies that decodes: "bare" has no '=', "nameless"
\* nothing before it, and "undecodable" is percent-encoded and not UTF-8.
UnparsableForms == {"bare", "nameless", "undecodable"}

\* A pair as it stands and as it reads after percent-decoding and trimming, which
\* differ in an "encoded" one: it has percent signs, or spaces around its '='.  A
\* client may send several Cookie lines, and `ascii' is of the line of the pair.
CookiePairs ==
    {pair \in [form : {"plain", "encoded"} \cup UnparsableForms, ascii : BOOLEAN,
               raw : Reading, decoded : Reading] :
        /\ pair.form # "encoded" => pair.decoded = pair.raw
        /\ pair.form = "nameless" => ~pair.raw.session}

AnyWire ==
    [lines : Seq(AuthorizationLines), pairs : Seq(CookiePairs), rest : AnyRequest]

-----------------------------------------------------------------------------
First(S) == CHOOSE i \in S : \A j \in S : i <= j
Last(S) == CHOOSE i \in S : \A j \in S : j <= i

\* AuthRequest::header: the first of the values the adapter could read.
Header(lines) ==
    LET readable == {i \in DOMAIN lines : lines[i] # "unreadable"}
    IN  IF readable = {} THEN "absent" ELSE lines[First(readable)]

\* AuthRequestBuilder::cookie: of two readings of a name, the map keeps the later.
Cookie(readings, taken) ==
    LET named == {i \in taken : readings[i].session}
    IN  IF named = {} THEN "absent" ELSE readings[Last(named)].value

Raw(pairs) == [i \in DOMAIN pairs |-> pairs[i].raw]
Decoded(pairs) == [i \in DOMAIN pairs |-> pairs[i].decoded]

\* The pairs of ASCII lines that have a '='.
Split(pairs) == {i \in DOMAIN pairs : pairs[i].ascii /\ pairs[i].form # "bare"}
Unparsable(pairs) == {i \in DOMAIN pairs : pairs[i].form \in UnparsableForms}

\* Mutant: the builder keeps the first pair of a name on this framework.
AxumCookie_FirstWins(pairs) ==
    LET named == {i \in Split(pairs) : pairs[i].raw.session}
    IN  IF named = {} THEN "absent" ELSE pairs[First(named)].raw.value

\* cookies_from_headers: a line that is not ASCII is left out, and so is a pair
\* without '='; nothing is decoded, and a name may be empty.
AxumCookie(pairs) == Cookie(Raw(pairs), Split(pairs))

\* HttpRequest::cookies parses and decodes all pairs of all lines or fails, and the
\* adapter goes on without any cookie when it fails.
ActixCookie(pairs) ==
    Cookie(Decoded(pairs), IF Unparsable(pairs) = {} THEN DOMAIN pairs ELSE {})

\* The two From<..> for AuthRequest.
Extracted(f, w) ==
    [w.rest EXCEPT
        !.header = Header(w.lines),
        !.cookie = IF f = "actix" THEN ActixCookie(w.pairs) ELSE AxumCookie(w.pairs)]

ASSUME AdaptersAssumption ==
    /\ Wires \subseteq AnyWire
    /\ NoWire \notin AnyWire
    /\ \A f \in Frameworks, w \in Wires : Extracted(f, w) \in Requests

-----------------------------------------------------------------------------
ServiceInit == Init /\ wire = NoWire

\* The middleware's call, and axum's authenticate: the snapshot is taken before
\* anything is awaited.
Call(f) ==
    /\ phase = "idle"
    /\ \E w \in Wires : Receive(Extracted(f, w)) /\ wire' = w

\* The handler runs, or the error is rendered; the wire request is gone.
Reply ==
    /\ Respond
    /\ wire' = NoWire

Configuring ==
    /\ \/ \E m \in Mechanisms : With(m)
       \/ \E p \in Policies : SetPolicy(p)
       \/ Build
    /\ UNCHANGED wire

Deciding == (Enter \/ Consult \/ Exhaust) /\ UNCHANGED wire

ServiceNext ==
    \/ Configuring
    \/ \E f \in Frameworks : Call(f)
    \/ Deciding
    \/ Reply

ServiceSpec == ServiceInit /\ [][ServiceNext]_serviceVars

-----------------------------------------------------------------------------
\* Both frameworks read the same in such a pair.
PlainPairs(pairs) == \A i \in DOMAIN pairs : pairs[i].form = "plain" /\ pairs[i].ascii

\* "A framework adapter is only a translation layer" (gateway.rs): which of them
\* carried a request does not matter to what becomes of it, whatever cookies came
\* with a credential that a registered mechanism is there for.  The exception is a
\* request that no such credential decides, with a cookie pair, of whatever name,
\* that the frameworks read differently: actix decodes it and axum does not, one
\* of them cannot parse it, or axum leaves its line out.  A pair that actix cannot
\* parse costs a client its session there, and never turns one user into another;
\* an encoded pair, or one on a line of its own that is not ASCII, can be the
\* session of somebody else on one of the two.
FrameworksAgree ==
    phase = "answered" /\ CatchAllLast(chain) =>
        \A f \in Frameworks :
            LET there == Contract!Decision(chain, policy, Extracted(f, wire))
            IN  \/ there = result
                \/ /\ ~Claimed(request)
                   /\ ~PlainPairs(wire.pairs)
                   /\ Unparsable(wire.pairs) # {} => {there.kind, result.kind} # {"user"}
=============================================================================
