---------------------------- MODULE ChainDecision ----------------------------
(***************************************************************************)
(* What the gateway promises of one request, with no loop and no order of  *)
(* evaluation: the earliest registered mechanism that does not decline     *)
(* decides; a request nobody claims is anonymous on a public scope and     *)
(* challenged elsewhere.  AuthChain implements it.                         *)
(***************************************************************************)
EXTENDS Naturals, Sequences

CONSTANTS
    Mechanisms,       \* registered authenticators
    Requests,         \* requests, credential and scope included
    Declined,         \* Verdict::NotApplicable
    Anonymous,        \* Outcome::Anonymous
    Challenge,        \* Err(Unauthenticated) of an unclaimed request
    None,             \* no request, no result
    Answer(_, _),     \* what a mechanism answers to a request
    IsPublic(_),      \* AuthScope::is_public of the request's scope
    NoCredential(_)   \* Credential::is_none

VARIABLES chain, policy, stage, request, result

cvars == <<chain, policy, stage, request, result>>

Policies == {"Optional", "AlwaysAnonymous"}

\* A public scope that needs no mechanism to answer.
WavedThrough(p, q) ==
    IsPublic(q) /\ (p = "AlwaysAnonymous" \/ NoCredential(q))

\* The positions of the mechanisms that claim q.
Claimants(c, q) == {i \in 1 .. Len(c) : Answer(c[i], q) # Declined}

Earliest(S) == CHOOSE i \in S : \A j \in S : i <= j

Decision(c, p, q) ==
    IF WavedThrough(p, q) THEN Anonymous
    ELSE IF Claimants(c, q) # {} THEN Answer(c[Earliest(Claimants(c, q))], q)
    ELSE IF IsPublic(q) THEN Anonymous
    ELSE Challenge

CInit ==
    /\ chain = <<>>
    /\ policy = "Optional"
    /\ stage = "building"
    /\ request = None
    /\ result = None

Configure ==
    /\ stage = "building"
    /\ chain' \in Seq(Mechanisms)
    /\ policy' \in Policies
    /\ UNCHANGED <<stage, request, result>>

\* A gateway without mechanisms is refused.
Open ==
    /\ stage = "building"
    /\ stage' = IF chain = <<>> THEN "refused" ELSE "idle"
    /\ UNCHANGED <<chain, policy, request, result>>

Accept ==
    /\ stage = "idle"
    /\ request' \in Requests
    /\ stage' = "pending"
    /\ UNCHANGED <<chain, policy, result>>

Decide ==
    /\ stage = "pending"
    /\ result' = Decision(chain, policy, request)
    /\ stage' = "answered"
    /\ UNCHANGED <<chain, policy, request>>

Answered ==
    /\ stage = "answered"
    /\ stage' = "idle"
    /\ request' = None
    /\ result' = None
    /\ UNCHANGED <<chain, policy>>

CNext == Configure \/ Open \/ Accept \/ Decide \/ Answered

CSpec == CInit /\ [][CNext]_cvars
=============================================================================
