---------------------------- MODULE MCOidcAttempts ----------------------------
(***************************************************************************)
(* OidcProvider with a watch on the issuer's side: how long ago the last   *)
(* discovery request was sent (saturating at the interval).                *)
(***************************************************************************)
EXTENDS OidcProvider

CONSTANTS k1, r1, r2

MCKeys == {k1}
MCRequests == {r1, r2}

VARIABLE quiet

Sends == \E r \in Requests : pc[r] # "fetching" /\ pc'[r] = "fetching"

AInit == Init /\ quiet = 0      \* discover() has just asked

ANext ==
    \/ Move /\ quiet' = IF Sends THEN 0 ELSE quiet
    \/ /\ Tick \/ (age = MinRefreshInterval /\ UNCHANGED vars)
       /\ quiet' = IF quiet < MinRefreshInterval THEN quiet + 1 ELSE quiet

ASpec == AInit /\ [][ANext]_<<vars, quiet>>

\* The minimum interval "bounds how often a burst of verification failures can
\* hit the issuer's discovery endpoint": refresh() sends two discovery requests
\* only if the interval passed between them.
AttemptsSpaced == [][Sends => quiet = MinRefreshInterval]_<<vars, quiet>>
=============================================================================
