---------------------------- MODULE RemoteAnswers ----------------------------
(***************************************************************************)
(* What the introspection endpoint and the token endpoint may answer, and  *)
(* what the code makes of each answer: src/mechanisms/introspection.rs,    *)
(* the token and verification errors of src/oidc/error.rs, and the middle  *)
(* of the password grant.  A verdict is "claims", the AuthError it         *)
(* becomes, or "panic".                                                    *)
(***************************************************************************)

\* An answer of the introspection endpoint.  "none" is no JSON at all (no
\* answer, a status other than 2xx, an unreadable body), "value" is JSON but not
\* an object; the other fields are about an object.  active is "absent" also
\* when it is not a boolean, exp "unreadable" when it is not a u64, and
\* "overflow" when SystemTime cannot hold it.
Introspections ==
    [body : {"none", "value", "object"}, active : {"true", "false", "absent"},
     exp : {"absent", "unreadable", "seconds", "overflow"}, identified : BOOLEAN]

IsActive(response) == response.body = "object" /\ response.active = "true"
IsInactive(response) == response.body = "object" /\ response.active = "false"

\* Mutant: a missing `active' is read as false.
ClaimsFromResponse_AbsentIsFalse(response) ==
    CASE ~IsActive(response) ->
             IF response.body = "object" THEN "invalid_credential" ELSE "upstream"
      [] IsActive(response) /\ response.exp = "overflow" -> "panic"
      [] IsActive(response) /\ response.exp # "overflow" ->
             IF response.identified THEN "claims" ELSE "upstream"

\* IntrospectionValidator::validate and claims_from_response: the expiry is
\* computed before it is known whether anybody is identified, and overflows.
ClaimsFromResponse(response) ==
    CASE ~IsActive(response) ->
             IF IsInactive(response) THEN "invalid_credential" ELSE "upstream"
      [] IsActive(response) /\ response.exp = "overflow" -> "panic"
      [] IsActive(response) /\ response.exp # "overflow" ->
             IF response.identified THEN "claims" ELSE "upstream"

\* Whether there are claims and their expires_at is set.
ReportsExpiry(response) ==
    ClaimsFromResponse(response) = "claims" /\ response.exp = "seconds"

\* An answer of the token endpoint: the error, and whether an id_token came with
\* the tokens.  "other" is any other error code, "failed" no readable answer.
Refusals == {"invalid_grant", "invalid_client", "unauthorized_client"}
TokenErrors == {"none", "unsupported_grant_type", "other", "failed"} \cup Refusals
TokenResponses == [error : TokenErrors, id_token : BOOLEAN]

\* Mutant: any error the endpoint reports is a refusal.
TokenVerdict_AnyErrorRefuses(kind, response) ==
    CASE response.error = "none" ->
             IF kind = "password" /\ ~response.id_token THEN "upstream" ELSE "claims"
      [] response.error \in Refusals \cup {"other"} -> "invalid_credential"
      [] response.error = "unsupported_grant_type" -> "unsupported"
      [] response.error = "failed" -> "upstream"

\* From<RequestTokenError> for AuthError, and password_grant's look at the token.
TokenVerdict(kind, response) ==
    CASE response.error = "none" ->
             IF kind = "password" /\ ~response.id_token THEN "upstream" ELSE "claims"
      [] response.error \in Refusals -> "invalid_credential"
      [] response.error = "unsupported_grant_type" -> "unsupported"
      [] response.error \in {"other", "failed"} -> "upstream"

\* How verify_id_token() ends: the token is "rejected" (its time, audience, issuer
\* or signature, or it is malformed), of an "unsupported" kind, or "unchecked",
\* because the keys could not be refreshed.
IdTokens == {"good", "rejected", "unsupported", "unchecked"}

\* Mutant: whatever keeps the token from verifying is held against it.
IdTokenVerdict_AnyErrorRefuses(token) ==
    CASE token = "good" -> "claims"
      [] token \in {"rejected", "unchecked"} -> "invalid_credential"
      [] token = "unsupported" -> "unsupported"

\* From<ClaimsVerificationError> for AuthError, and From<DiscoveryError> for the
\* refresh.
IdTokenVerdict(token) ==
    CASE token = "good" -> "claims"
      [] token = "rejected" -> "invalid_credential"
      [] token = "unsupported" -> "unsupported"
      [] token = "unchecked" -> "upstream"
=============================================================================
