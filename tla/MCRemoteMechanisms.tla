-------------------------- MODULE MCRemoteMechanisms --------------------------
EXTENDS RemoteMechanisms, TLC

CONSTANTS s1, s2, c1, r1, r2

Ask(kind, scope) == [kind |-> kind, scope |-> scope, cred |-> c1]

\* A key asked for in two scopes; a pair under both grants.
MCKeys == {Ask("api_key", s1), Ask("api_key", s2)}
MCPairs == {Ask("client_credentials", s1), Ask("password", s1)}
MCAsks == MCKeys \cup MCPairs
MCRequests == {r1, r2}

\* No expiry, one that a slow answer outlives, one beyond the cap; for a grant
\* also one beyond the last Instant.
MCLives == [kind \in Kinds |->
                CASE kind = "api_key" -> {NoExpiry, 1, 7}
                  [] kind = "client_credentials" -> {NoExpiry, 20}
                  [] kind = "password" -> {1, 4}]

Symmetry == Permutations(MCRequests)
=============================================================================
