------------------------------ MODULE AuthChain ------------------------------
(***************************************************************************)
(* src/builder.rs, src/authenticator.rs and src/gateway.rs: the builder    *)
(* assembles an ordered chain; for each request the chain consults its     *)
(* mechanisms one await at a time until one claims it, and the gateway     *)
(* turns an unclaimed request into a challenge.  The mechanisms are a      *)
(* parameter; Gateway supplies the ones of this crate.                     *)
(***************************************************************************)
EXTENDS Naturals, Sequences

CONSTANTS
    Mechanisms, Requests, Declined, Anonymous, Challenge, None,
    Answer(_, _), IsPublic(_), NoCredential(_),
    MaxChain    \* bound on the number of authenticators registered

VARIABLES
    chain,      \* AuthChain::authenticators
    policy,     \* AuthChain::public_scope_policy
    phase,      \* where the builder, then the request in hand, is
    request,    \* the request in hand, None between two
    pos,        \* the authenticator the loop is at
    result      \* what the gateway returned for it, None before it did

vars == <<chain, policy, phase, request, pos, result>>

Policies == {"Optional", "AlwaysAnonymous"}
Phases == {"building", "refused", "idle", "received", "consulting", "answered"}

Init ==
    /\ chain = <<>>
    /\ policy = "Optional"
    /\ phase = "building"
    /\ request = None
    /\ pos = 1
    /\ result = None

-----------------------------------------------------------------------------
\* AuthnBuilder::with, and with_if when its condition holds.
With(m) ==
    /\ phase = "building"
    /\ Len(chain) < MaxChain
    /\ chain' = Append(chain, m)
    /\ UNCHANGED <<policy, phase, request, pos, result>>

\* AuthnBuilder::public_scope_policy.
SetPolicy(p) ==
    /\ phase = "building"
    /\ policy' = p
    /\ UNCHANGED <<chain, phase, request, pos, result>>

\* AuthnBuilder::build.
Build ==
    /\ phase = "building"
    /\ phase' = IF chain = <<>> THEN "refused" ELSE "idle"
    /\ UNCHANGED <<chain, policy, request, pos, result>>

\* AuthGateway::authenticate_with: the scope is resolved, the chain entered.
Receive(q) ==
    /\ phase = "idle"
    /\ request' = q
    /\ phase' = "received"
    /\ UNCHANGED <<chain, policy, pos, result>>

\* Mutant: a public scope is waved through whatever the credential.
Enter_IgnoresCredential ==
    /\ phase = "received"
    /\ IF IsPublic(request)
       THEN phase' = "answered" /\ result' = Anonymous
       ELSE phase' = "consulting" /\ UNCHANGED result
    /\ pos' = 1
    /\ UNCHANGED <<chain, policy, request>>

\* AuthChain::authenticate, up to its loop: the two ways a public scope is
\* anonymous at once.
Enter ==
    /\ phase = "received"
    /\ IF IsPublic(request) /\ (policy = "AlwaysAnonymous" \/ NoCredential(request))
       THEN phase' = "answered" /\ result' = Anonymous
       ELSE phase' = "consulting" /\ UNCHANGED result
    /\ pos' = 1
    /\ UNCHANGED <<chain, policy, request>>

\* Mutant: a mechanism that declines takes the next one with it.
Consult_SkipsOne ==
    /\ phase = "consulting"
    /\ pos <= Len(chain)
    /\ LET answer == Answer(chain[pos], request)
       IN  IF answer = Declined
           THEN pos' = pos + 2 /\ UNCHANGED <<phase, result>>
           ELSE phase' = "answered" /\ result' = answer /\ UNCHANGED pos
    /\ UNCHANGED <<chain, policy, request>>

\* One turn of the loop.  An error and a principal both end it.
Consult ==
    /\ phase = "consulting"
    /\ pos <= Len(chain)
    /\ LET answer == Answer(chain[pos], request)
       IN  IF answer = Declined
           THEN pos' = pos + 1 /\ UNCHANGED <<phase, result>>
           ELSE phase' = "answered" /\ result' = answer /\ UNCHANGED pos
    /\ UNCHANGED <<chain, policy, request>>

\* The loop ran out: anonymous on a public scope, else Outcome::NotApplicable,
\* which the gateway turns into Err(Unauthenticated).
Exhaust ==
    /\ phase = "consulting"
    /\ pos > Len(chain)
    /\ result' = IF IsPublic(request) THEN Anonymous ELSE Challenge
    /\ phase' = "answered"
    /\ UNCHANGED <<chain, policy, request, pos>>

\* The adapter renders the result and the next request may come.
Respond ==
    /\ phase = "answered"
    /\ phase' = "idle"
    /\ request' = None
    /\ pos' = 1
    /\ result' = None
    /\ UNCHANGED <<chain, policy>>

Next ==
    \/ \E m \in Mechanisms : With(m)
    \/ \E p \in Policies : SetPolicy(p)
    \/ Build
    \/ \E q \in Requests : Receive(q)
    \/ Enter
    \/ Consult
    \/ Exhaust
    \/ Respond

Spec == Init /\ [][Next]_vars

-----------------------------------------------------------------------------
TypeOK ==
    /\ chain \in Seq(Mechanisms)
    /\ policy \in Policies
    /\ phase \in Phases
    /\ request \in Requests \cup {None}
    /\ pos \in 1 .. Len(chain) + 1

Contract == INSTANCE ChainDecision WITH
    stage <- IF phase \in {"received", "consulting"} THEN "pending" ELSE phase

\* The loop with its early returns implements the one-step contract: the
\* earliest claimant decides, whatever was consulted before and after it.
ImplementsContract == Contract!CSpec
=============================================================================
