---------------------------- MODULE Authenticators ----------------------------
(***************************************************************************)
(* What the five mechanisms of src/mechanisms answer to one request.  A    *)
(* request is its shape plus what the outside world would say of what it   *)
(* carries:                                                                *)
(*   method    "GET" or another one                                        *)
(*   path      whether RedirectPolicy allows a return to it                *)
(*   header    the shape of the Authorization header                       *)
(*   grant     the X-Grant-Type header                                     *)
(*   known     "no", or how the API key ends as a static token permitted   *)
(*             for the scope: "ok", or "internal" if it cannot be converted  *)
(*   verify    verify_id_token() of the bearer token                       *)
(*   remote    the validator, or the token endpoint, asked about it        *)
(*   cookie    "absent", "empty", or verify_id_token() of the session: two *)
(*             good ones are sessions of two users                         *)
(*   public    AuthScope::is_public                                        *)
(*   login, password, fallback    how the mechanisms are configured        *)
(* The caches are not here: a hit answers "ok" like the call it saves.     *)
(***************************************************************************)

Bearers == {"jws", "opaque", "api_key", "api_jws"}
Headers == {"absent", "bare", "other", "basic", "basic_junk"} \cup Bearers
Grants == {"absent", "client_credentials", "password", "unknown"}

\* How a call to the outside ends: "internal" is an identity the application
\* cannot convert, or an endpoint that is not configured.
Ends == {"ok", "invalid_credential", "unsupported", "upstream", "internal"}

\* Cookies that verify, of two users.
Sessions == {"ok", "ok_other"}
Cookies == {"absent", "empty"} \cup Sessions \cup Ends

AnyRequest ==
    [method : {"GET", "POST"}, path : {"returnable", "unreturnable"},
     header : Headers, grant : Grants, known : {"no", "ok", "internal"},
     verify : Ends, remote : Ends, cookie : Cookies, public : BOOLEAN,
     login : BOOLEAN, password : BOOLEAN, fallback : BOOLEAN]

NotApplicable == [kind |-> "declined", value |-> "none"]
AnonymousVisit == [kind |-> "anonymous", value |-> "none"]
User(source) == [kind |-> "user", value |-> source]
Err(error) == [kind |-> "error", value |-> error]

\* AuthError::unauthenticated.
Unauthenticated == Err("unauthenticated")

\* AuthError::status.
Status(error) ==
    CASE error \in {"unauthenticated", "invalid_credential"} -> 401
      [] error = "malformed_credential" -> 400
      [] error = "redirect" -> 302
      [] error = "unsupported" -> 501
      [] error = "upstream" -> 503
      [] error = "internal" -> 500

\* Credential::from_request: a lone word without a scheme is no credential.
Credential(q) ==
    CASE q.header \in {"absent", "bare"} -> "none"
      [] q.header \in Bearers -> "bearer"
      [] q.header = "basic" -> "basic"
      [] q.header = "basic_junk" -> "malformed"
      [] q.header = "other" -> "other"

CredentialIsNone(q) == Credential(q) = "none"
PublicScope(q) == q.public

Concluded(end, source) == IF end = "ok" THEN User(source) ELSE Err(end)

-----------------------------------------------------------------------------
HasPrefix(q) == q.header \in {"api_key", "api_jws"}

\* Mutant: every bearer token is taken for a JWT.
IsCompactJws_Any(q) == q.header \in Bearers

IsCompactJws(q) == q.header \in {"jws", "api_jws"}

\* Mutant: a token that fails verification is left to the next mechanism.
Bearer_FallsThrough(q) ==
    IF Credential(q) = "bearer" /\ IsCompactJws(q) /\ q.verify = "ok"
    THEN User("bearer")
    ELSE NotApplicable

\* BearerAuthenticator::authenticate.
Bearer(q) ==
    IF Credential(q) = "bearer" /\ IsCompactJws(q)
    THEN Concluded(q.verify, "bearer")
    ELSE NotApplicable

\* Mutant: an unmatched key is left to the next mechanism.
ApiToken_FallsThrough(q) ==
    CASE ~(Credential(q) = "bearer" /\ HasPrefix(q)) -> NotApplicable
      [] HasPrefix(q) /\ q.known # "no" -> Concluded(q.known, "static")
      [] HasPrefix(q) /\ q.known = "no" /\ ~q.fallback -> NotApplicable
      [] HasPrefix(q) /\ q.known = "no" /\ q.fallback ->
             Concluded(q.remote, "validator")

\* ApiTokenAuthenticator::authenticate: the static list, then the validator.
\* Without one a bad key is an error, not somebody else's token.
ApiToken(q) ==
    CASE ~(Credential(q) = "bearer" /\ HasPrefix(q)) -> NotApplicable
      [] HasPrefix(q) /\ q.known # "no" -> Concluded(q.known, "static")
      [] HasPrefix(q) /\ q.known = "no" /\ ~q.fallback -> Err("invalid_credential")
      [] HasPrefix(q) /\ q.known = "no" /\ q.fallback ->
             Concluded(q.remote, "validator")

\* BasicAuthenticator::authenticate: the grant is chosen by X-Grant-Type.
Basic(q) ==
    CASE Credential(q) # "basic" -> NotApplicable
      [] Credential(q) = "basic" /\ q.grant \in {"absent", "client_credentials"} ->
             Concluded(q.remote, "client")
      [] Credential(q) = "basic" /\ q.grant = "password" ->
             IF q.password THEN Concluded(q.remote, "password")
                           ELSE Err("unsupported")
      [] Credential(q) = "basic" /\ q.grant = "unknown" ->
             Err("malformed_credential")

\* SessionAuthenticator::challenge: a GET is sent into the login flow, when
\* there is one and it accepts the path as a destination; anything else gets the
\* error itself.
Challenged(q, error) ==
    CASE ~(q.login /\ q.method = "GET") -> Err(error)
      [] q.login /\ q.method = "GET" /\ q.path = "returnable" -> Err("redirect")
      [] q.login /\ q.method = "GET" /\ q.path = "unreturnable" ->
             Err("malformed_credential")

\* Mutant: every failed verification is a re-login.
Session_AnyErrorChallenges(q) ==
    CASE q.cookie = "absent" ->
             IF CredentialIsNone(q) THEN Challenged(q, "unauthenticated") ELSE NotApplicable
      [] q.cookie = "empty" -> Challenged(q, "unauthenticated")
      [] q.cookie \in Sessions -> User(q.cookie)
      [] q.cookie \in Ends \ {"ok"} -> Challenged(q, q.cookie)

\* SessionAuthenticator::authenticate.
Session(q) ==
    CASE q.cookie = "absent" ->
             IF CredentialIsNone(q) THEN Challenged(q, "unauthenticated") ELSE NotApplicable
      [] q.cookie = "empty" -> Challenged(q, "unauthenticated")
      [] q.cookie \in Sessions -> User(q.cookie)
      [] q.cookie \in Ends \ {"ok"} ->
             IF Status(q.cookie) = 401 THEN Challenged(q, q.cookie) ELSE Err(q.cookie)

\* DisabledAuthenticator::authenticate, for an identity that converts.
Disabled(q) == User("disabled")

Names == {"bearer", "api_token", "basic", "session", "disabled"}

\* Authenticator::authenticate of the mechanism of that name.
Authenticate(m, q) ==
    CASE m = "bearer" -> Bearer(q)
      [] m = "api_token" -> ApiToken(q)
      [] m = "basic" -> Basic(q)
      [] m = "session" -> Session(q)
      [] m = "disabled" -> Disabled(q)
=============================================================================
