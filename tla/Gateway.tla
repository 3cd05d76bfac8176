------------------------------- MODULE Gateway -------------------------------
(***************************************************************************)
(* The chain of AuthChain with the mechanisms of Authenticators in it (a   *)
(* configuration gives Answer the value Authenticate, and so on):          *)
(* what the crate as a whole answers, for every order of registration.     *)
(***************************************************************************)
EXTENDS AuthChain, Authenticators, Functions

ASSUME GatewayAssumption ==
    /\ Mechanisms \subseteq Names
    /\ Requests \subseteq AnyRequest
    /\ Declined = NotApplicable
    /\ Anonymous = AnonymousVisit
    /\ Challenge = Unauthenticated
    /\ \A q \in Requests :
        /\ \A m \in Mechanisms : Answer(m, q) = Authenticate(m, q)
        /\ IsPublic(q) = PublicScope(q)
        /\ NoCredential(q) = CredentialIsNone(q)

-----------------------------------------------------------------------------
Consulted == {chain[i] : i \in DOMAIN chain}

\* "A session authenticator configured to redirect should be registered last"
\* (builder.rs); the same holds for the one that accepts everything.
CatchAll == {"session", "disabled"}
CatchAllLast(c) ==
    \A i \in DOMAIN c : c[i] \in CatchAll => i = Len(c)

Reorderings(c) ==
    {d \in {[i \in DOMAIN c |-> c[p[i]]] : p \in Bijection(DOMAIN c, DOMAIN c)} :
        CatchAllLast(d)}

\* Which mechanism an Authorization credential is meant for.
MeantFor(q) ==
    CASE q.header = "jws" -> {"bearer"}
      [] q.header \in {"api_key", "api_jws"} -> {"api_token"}
      [] q.header = "basic" -> {"basic"}
      [] OTHER -> {}

\* The credential is not good for the mechanism it is meant for, nor for the
\* other that its shape suits.
Worthless(q) ==
    CASE q.header = "jws" -> q.verify # "ok"
      [] q.header \in {"api_key", "api_jws"} ->
            /\ \/ q.known = "internal"
               \/ q.known = "no" /\ (~q.fallback \/ q.remote # "ok")
            /\ q.header = "api_jws" => q.verify # "ok"
      [] q.header = "basic" -> q.remote # "ok"
      [] OTHER -> FALSE

\* What came with an Authorization credential that some registered mechanism is
\* there for.
Claimed(q) == MeantFor(q) \cap Consulted # {}

\* The chain fails closed: a credential whose mechanism is registered and that
\* is not good for it ends in an error, and never in the identity of a session
\* cookie sent along or, on a public scope, in an anonymous visit.
NoDowngrade ==
    phase = "answered" /\ CatchAllLast(chain)
        /\ ~(request.public /\ policy = "AlwaysAnonymous")
        /\ Worthless(request) /\ Claimed(request) =>
            result.kind = "error"

\* A session cookie, good, expired or unverifiable, decides nothing for a client
\* that presents a credential of a registered mechanism: no redirect, no error and
\* no identity comes of it.
CookiesDecideNothingClaimed ==
    phase = "answered" /\ CatchAllLast(chain) /\ Claimed(request) =>
        \A cookie \in Cookies :
            LET other == [request EXCEPT !.cookie = cookie]
            IN  other \in Requests => Contract!Decision(chain, policy, other) = result

\* As long as the catch-all is last, the order of registration decides nothing:
\* each credential belongs to one mechanism.  The exception is an API key that
\* also has the shape of a JWT.
OrderIrrelevant ==
    phase = "answered" /\ CatchAllLast(chain) /\ request.header # "api_jws" =>
        \A other \in Reorderings(chain) :
            Contract!Decision(other, policy, request) = result

\* A provider outage is never answered by a redirect into the login flow, which
\* would also clear the session cookie and so log out everybody whose request
\* met the outage.
OutageNeverLogsOut ==
    phase = "answered" /\ result = Err("redirect") =>
        request.cookie \in {"absent", "empty", "invalid_credential"}

-----------------------------------------------------------------------------
\* What a comment in the code says of the chain, checked as it stands.

\* api_token.rs: "the chain's outcome does not depend on registration order: a
\* prefixed token is unambiguously an API token".
PrefixSettlesOrder ==
    phase = "answered" /\ CatchAllLast(chain) =>
        \A other \in Reorderings(chain) :
            Contract!Decision(other, policy, request) = result
=============================================================================
