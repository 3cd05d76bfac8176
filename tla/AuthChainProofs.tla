--------------------------- MODULE AuthChainProofs ---------------------------
(***************************************************************************)
(* The chain implements its contract for every set of mechanisms, every    *)
(* way they answer, every length and order of the chain.                   *)
(***************************************************************************)
EXTENDS AuthChain, TLAPS

\* Everything the loop has passed declined, and a chain in service is not
\* empty: where the loop is tells all about who can still decide.
LoopInv ==
    /\ phase = "consulting" =>
        /\ ~Contract!WavedThrough(policy, request)
        /\ \A i \in 1 .. pos - 1 : Answer(chain[i], request) = Declined
    /\ phase = "building" => pos = 1

IInv == TypeOK /\ LoopInv

\* The earliest claimant is the one the loop is at, if everything before it
\* declined and it does not.
LEMMA LoopFindsEarliest ==
    ASSUME NEW c \in Seq(Mechanisms), NEW q, NEW i \in 1 .. Len(c),
           Answer(c[i], q) # Declined,
           \A j \in 1 .. i - 1 : Answer(c[j], q) = Declined
    PROVE  /\ Contract!Claimants(c, q) # {}
           /\ Contract!Earliest(Contract!Claimants(c, q)) = i
<1>1. i \in Contract!Claimants(c, q)
  BY DEF Contract!Claimants
<1>2. \A j \in Contract!Claimants(c, q) : j \in Nat /\ i <= j
  BY DEF Contract!Claimants
<1>3. \A k \in Contract!Claimants(c, q) :
        (\A j \in Contract!Claimants(c, q) : k <= j) => k = i
  BY <1>1, <1>2
<1> QED BY <1>1, <1>2, <1>3 DEF Contract!Earliest

\* The loop's invariant is inductive.
LEMMA ChainInductive == Spec => []IInv
<1>1. Init => IInv
  BY DEF Init, IInv, TypeOK, LoopInv, Policies, Phases
<1>2. IInv /\ [Next]_vars => IInv'
  <2> SUFFICES ASSUME IInv, [Next]_vars PROVE IInv'
    OBVIOUS
  <2> USE DEF IInv, TypeOK, LoopInv, Phases, Policies
  <2>1. ASSUME NEW m \in Mechanisms, With(m) PROVE IInv'
    BY <2>1 DEF With
  <2>2. ASSUME NEW p \in Policies, SetPolicy(p) PROVE IInv'
    BY <2>2 DEF SetPolicy
  <2>3. CASE Build
    BY <2>3 DEF Build
  <2>4. ASSUME NEW q \in Requests, Receive(q) PROVE IInv'
    BY <2>4 DEF Receive
  <2>5. CASE Enter
    BY <2>5 DEF Enter, Contract!WavedThrough
  <2>6. CASE Consult
    BY <2>6 DEF Consult, Contract!WavedThrough
  <2>7. CASE Exhaust
    BY <2>7 DEF Exhaust
  <2>8. CASE Respond
    BY <2>8 DEF Respond
  <2>9. CASE UNCHANGED vars
    BY <2>9 DEF vars, Contract!WavedThrough
  <2> QED BY <2>1, <2>2, <2>3, <2>4, <2>5, <2>6, <2>7, <2>8, <2>9 DEF Next
<1> QED BY <1>1, <1>2, PTL DEF Spec

\* The chain's state keeps its type, and the loop stays within the chain.
THEOREM ChainTypeCorrect == Spec => []TypeOK
<1>1. IInv => TypeOK
  BY DEF IInv
<1> QED BY <1>1, ChainInductive, PTL

\* Every step of builder, chain and gateway is one of the contract, or none.
LEMMA ChainSteps == IInv /\ [Next]_vars => [Contract!CNext]_(Contract!cvars)
<1> SUFFICES ASSUME IInv, [Next]_vars PROVE [Contract!CNext]_(Contract!cvars)
  OBVIOUS
<1> USE DEF IInv, TypeOK, Policies, Phases, Contract!cvars
<1>1. ASSUME NEW m \in Mechanisms, With(m) PROVE Contract!Configure
  BY <1>1 DEF With, Contract!Configure, Contract!Policies
<1>2. ASSUME NEW p \in Policies, SetPolicy(p) PROVE Contract!Configure
  BY <1>2 DEF SetPolicy, Contract!Configure, Contract!Policies
<1>3. CASE Build
  BY <1>3 DEF Build, Contract!Open, Contract!CNext
<1>4. ASSUME NEW q \in Requests, Receive(q) PROVE Contract!Accept
  BY <1>4 DEF Receive, Contract!Accept
<1>5. CASE Enter
  <2>1. CASE Contract!WavedThrough(policy, request)
    <3>1. Contract!Decide
      BY <1>5, <2>1 DEF Enter, Contract!WavedThrough, Contract!Decide, Contract!Decision
    <3> QED BY <3>1 DEF Contract!CNext
  <2>2. CASE ~Contract!WavedThrough(policy, request)
    BY <1>5, <2>2 DEF Enter, Contract!WavedThrough
  <2> QED BY <2>1, <2>2
<1>6. CASE Consult
  <2>1. CASE Answer(chain[pos], request) = Declined
    BY <1>6, <2>1 DEF Consult
  <2>2. CASE Answer(chain[pos], request) # Declined
    <3>1. /\ Contract!Claimants(chain, request) # {}
          /\ Contract!Earliest(Contract!Claimants(chain, request)) = pos
      BY <1>6, <2>2, LoopFindsEarliest DEF Consult, LoopInv
    <3>2. Contract!Decide
      BY <1>6, <2>2, <3>1 DEF Consult, LoopInv, Contract!Decide, Contract!Decision
    <3> QED BY <3>2 DEF Contract!CNext
  <2> QED BY <2>1, <2>2
<1>7. CASE Exhaust
  <2>1. Contract!Claimants(chain, request) = {}
    BY <1>7 DEF Exhaust, LoopInv, Contract!Claimants
  <2>2. Contract!Decide
    BY <1>7, <2>1 DEF Exhaust, LoopInv, Contract!Decide, Contract!Decision
  <2> QED BY <2>2 DEF Contract!CNext
<1>8. CASE Respond
  BY <1>8 DEF Respond, Contract!Answered, Contract!CNext
<1>9. CASE UNCHANGED vars
  BY <1>9 DEF vars
<1> QED BY <1>1, <1>2, <1>3, <1>4, <1>5, <1>6, <1>7, <1>8, <1>9
        DEF Next, Contract!CNext

\* Every behaviour of builder, chain and gateway is one of the contract: the
\* earliest mechanism that does not decline decides, a request nobody claims is
\* anonymous only on a public scope, and an empty chain serves nothing.
THEOREM ChainImplementsContract == Spec => ImplementsContract
<1>1. Init => Contract!CInit
  BY DEF Init, Contract!CInit
<1> QED BY <1>1, ChainSteps, ChainInductive, PTL DEF Spec, ImplementsContract, Contract!CSpec

\* An answer is the contract's decision about a request.
Decided ==
    /\ phase \in {"received", "consulting", "answered"} => request \in Requests
    /\ phase = "answered" => result = Contract!Decision(chain, policy, request)

\* What the gateway has answered is what the contract decides.
LEMMA ChainDecides == Spec => [](Decided /\ TypeOK)
<1>1. Init => Decided
  BY DEF Init, Decided
<1>2. ASSUME IInv, Decided, [Contract!CNext]_(Contract!cvars), IInv'
      PROVE  Decided'
  <2> USE DEF Decided, IInv, TypeOK, Phases
  <2>1. CASE Contract!Configure
    BY <1>2, <2>1 DEF Contract!Configure
  <2>2. CASE Contract!Open
    BY <1>2, <2>2 DEF Contract!Open
  <2>3. CASE Contract!Accept
    BY <1>2, <2>3 DEF Contract!Accept
  <2>4. CASE Contract!Decide
    <3>1. request \in Requests /\ UNCHANGED <<chain, policy, request>>
      BY <1>2, <2>4 DEF Contract!Decide
    <3>2. result' = Contract!Decision(chain, policy, request)
      BY <2>4 DEF Contract!Decide
    <3>3. Contract!Decision(chain, policy, request)' = Contract!Decision(chain, policy, request)
      BY <3>1 DEF Contract!Decision, Contract!WavedThrough, Contract!Claimants
    <3> QED BY <3>1, <3>2, <3>3
  <2>5. CASE Contract!Answered
    BY <1>2, <2>5 DEF Contract!Answered
  <2>6. CASE UNCHANGED Contract!cvars
    <3>1. UNCHANGED <<chain, policy, request, result>>
      BY <2>6 DEF Contract!cvars
    <3>2. Contract!Decision(chain, policy, request)' = Contract!Decision(chain, policy, request)
      BY <3>1 DEF Contract!Decision, Contract!WavedThrough, Contract!Claimants
    <3> QED BY <1>2, <2>6, <3>1, <3>2 DEF Contract!cvars
  <2> QED BY <1>2, <2>1, <2>2, <2>3, <2>4, <2>5, <2>6 DEF Contract!CNext
<1>3. IInv => TypeOK
  BY DEF IInv
<1> QED BY <1>1, <1>2, <1>3, ChainSteps, ChainInductive, PTL DEF Spec
=============================================================================
