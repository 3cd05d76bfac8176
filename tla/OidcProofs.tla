----------------------------- MODULE OidcProofs -----------------------------
(***************************************************************************)
(* The refresh discipline of OidcProvider, and the bound on the outage a   *)
(* key rotation causes, for every number of requests and keys, every       *)
(* positive debounce and every flight time.                                *)
(***************************************************************************)
EXTENDS OidcRotation, TLAPS

\* verify() ends in one of four verdicts.
LEMMA VerdictType ==
    ASSUME NEW t \in Token, NEW ks
    PROVE  Verdict(t, ks) \in {"rejected", "stale", "accepted"}
  BY DEF Verdict, Token, Forms

\* A refresh under way was begun on a snapshot that is old enough, and nobody
\* replaced that snapshot since.
FetchJustified ==
    \A r \in Requests : pc[r] \in Refreshing => age = MinRefreshInterval

IInv == TypeOK /\ SingleFlight /\ FetchJustified

\* One step of the provider preserves the invariant.
LEMMA ProviderStep == IInv /\ [Next]_vars => IInv'
<1> SUFFICES ASSUME IInv, [Next]_vars PROVE IInv'
  OBVIOUS
<1> USE ProviderAssumption
        DEF IInv, TypeOK, SingleFlight, FetchJustified, Goto, Forget, Pcs,
            Refreshing, Terminal
<1>1. ASSUME NEW r \in Requests, NEW t \in Token, Begin(r, t) PROVE IInv'
  BY <1>1 DEF Begin
<1>2. ASSUME NEW r \in Requests, Verify(r) PROVE IInv'
  <2>1. Verdict(token[r], snap) \in {"rejected", "stale", "accepted"}
    BY VerdictType
  <2> QED BY <1>2, <2>1 DEF Verify
<1>3. ASSUME NEW r \in Requests, Observe(r) PROVE IInv'
  BY <1>3 DEF Observe
<1>4. ASSUME NEW r \in Requests, Acquire(r) PROVE IInv'
  BY <1>4 DEF Acquire
<1>5. ASSUME NEW r \in Requests, IssuerAnswers(r) PROVE IInv'
  BY <1>5 DEF IssuerAnswers
<1>6. ASSUME NEW r \in Requests, FetchFails(r) PROVE IInv'
  BY <1>6 DEF FetchFails
<1>7. ASSUME NEW r \in Requests, Store(r) PROVE IInv'
  BY <1>7 DEF Store
<1>8. ASSUME NEW r \in Requests, Retry(r) PROVE IInv'
  <2>1. Verdict(token[r], snap) \in {"rejected", "stale", "accepted"}
    BY VerdictType
  <2> QED BY <1>8, <2>1 DEF Retry
<1>9. ASSUME NEW r \in Requests, Finish(r) PROVE IInv'
  BY <1>9 DEF Finish
<1>10. ASSUME NEW r \in Requests, Cancel(r) PROVE IInv'
  BY <1>10 DEF Cancel
<1>11. ASSUME NEW r \in Requests, Lapse(r) PROVE IInv'
  BY <1>11 DEF Lapse, Token, Forms
<1>12. ASSUME NEW ks \in SUBSET Keys, Rotate(ks) PROVE IInv'
  BY <1>12 DEF Rotate
<1>13. CASE Tick
  BY <1>13 DEF Tick
<1>14. CASE UNCHANGED vars
  BY <1>14 DEF vars
<1> QED BY <1>1, <1>2, <1>3, <1>4, <1>5, <1>6, <1>7, <1>8, <1>9, <1>10, <1>11,
           <1>12, <1>13, <1>14 DEF Next, Move, Local, Remote

\* discover() leaves the provider in a state of the invariant.
LEMMA ProviderInit == Init => IInv
  BY ProviderAssumption
     DEF Init, IInv, TypeOK, SingleFlight, FetchJustified, Token, Forms, Pcs,
         Refreshing

\* The inductive invariant of the provider.
LEMMA ProviderInductive == Spec => []IInv
<1> QED BY ProviderInit, ProviderStep, PTL DEF Spec

\* The provider's state keeps its type.
THEOREM ProviderTypeCorrect == Spec => []TypeOK
<1>1. IInv => TypeOK
  BY DEF IInv
<1> QED BY <1>1, ProviderInductive, PTL

\* There is one discovery request at a time, and it is the mutex holder's, for
\* any number of requests, failures and cancellations.
THEOREM ProviderSingleFlight == Spec => []SingleFlight
<1>1. IInv => SingleFlight
  BY DEF IInv
<1> QED BY <1>1, ProviderInductive, PTL

\* Snapshots are replaced at least the minimum interval apart.
THEOREM ProviderDebounced == Spec => RefreshesSpaced
<1>1. IInv => \A r \in Requests : Store(r) => age = MinRefreshInterval
  BY DEF IInv, FetchJustified, Store, Refreshing
<1> QED BY <1>1, ProviderInductive, PTL DEF RefreshesSpaced

-----------------------------------------------------------------------------
\* The answers in flight and the requests' stages, as KeySnapshot has them.
Offers == {answer[r] : r \in {q \in Requests : pc[q] = "answered"}}
Stages == [r \in Requests |-> Stage(pc[r])]

\* A verdict of verify() is the judgement of KeySnapshot.
LEMMA VerdictJudges ==
    ASSUME NEW r \in Requests, token[r] \in Token
    PROVE  /\ Snapshot!Misses(token[r]) <=> Verdict(token[r], snap) = "stale"
           /\ Snapshot!Judgement(r) =
                 IF Verdict(token[r], snap) = "stale" THEN "unknown_key"
                 ELSE Verdict(token[r], snap)
  BY DEF Verdict, Token, Forms, Snapshot!Misses, Snapshot!Judgement

\* Only the request that goes elsewhere changes its stage.
LEMMA GotoStage ==
    ASSUME TypeOK, NEW r \in Requests, NEW label, Goto(r, label)
    PROVE  /\ Stages[r] = Stage(pc[r])
           /\ Stages' = [Stages EXCEPT ![r] = Stage(label)]
           /\ Stage(label) = Stage(pc[r]) => Stages' = Stages
<1>1. \A q \in Requests : pc'[q] = IF q = r THEN label ELSE pc[q]
  BY DEF TypeOK, Goto
<1> QED BY <1>1 DEF Stages

\* A request that has no answer and gets none leaves the answers alone.
LEMMA OffersKept ==
    ASSUME TypeOK, NEW r \in Requests, NEW label, Goto(r, label),
           pc[r] # "answered", label # "answered", UNCHANGED answer
    PROVE  Offers' = Offers
<1>1. \A q \in Requests : pc'[q] = IF q = r THEN label ELSE pc[q]
  BY DEF TypeOK, Goto
<1> QED BY <1>1 DEF Offers

\* The holder of the mutex has the only answer in flight.
LEMMA OffersOfHolder ==
    ASSUME IInv, NEW r \in Requests, pc[r] \in Refreshing
    PROVE  Offers = IF pc[r] = "answered" THEN {answer[r]} ELSE {}
<1>1. \A q \in Requests : pc[q] \in Refreshing => q = r
  BY ProviderAssumption DEF IInv, SingleFlight
<1> QED BY <1>1 DEF Offers, Refreshing

\* When it moves on, there is none.
LEMMA OffersGone ==
    ASSUME IInv, NEW r \in Requests, NEW label, Goto(r, label),
           pc[r] \in Refreshing, label # "answered"
    PROVE  Offers' = {}
<1>1. \A q \in Requests : pc[q] \in Refreshing => q = r
  BY ProviderAssumption DEF IInv, SingleFlight
<1>2. \A q \in Requests : pc'[q] # "answered"
  BY <1>1 DEF IInv, TypeOK, Goto, Refreshing
<1> QED BY <1>2 DEF Offers

\* Every step of the provider is one of KeySnapshot, or none.
LEMMA ProviderSteps == IInv /\ [Next]_vars => [Snapshot!SNext]_(Snapshot!svars)
<1> SUFFICES ASSUME IInv, [Next]_vars PROVE [Snapshot!SNext]_(Snapshot!svars)
  OBVIOUS
<1>t. TypeOK /\ \A r \in Requests : token[r] \in Token /\ pc[r] \in Pcs
  BY DEF IInv, TypeOK
<1>1. ASSUME NEW r \in Requests, NEW t \in Token, Begin(r, t)
      PROVE  Snapshot!SNext
  <2>1. Offers' = Offers
    BY <1>1, <1>t, OffersKept DEF Begin
  <2>2. Stages[r] = "idle" /\ Stages' = [Stages EXCEPT ![r] = "pending"]
    BY <1>1, <1>t, GotoStage DEF Begin, Stage, Refreshing
  <2>3. Snapshot!Arrive(r)
    BY <1>1, <2>1, <2>2 DEF Begin, Snapshot!Arrive, Snapshot!Moves, Offers, Stages
  <2> QED BY <2>3 DEF Snapshot!SNext
<1>2. ASSUME NEW r \in Requests, Verify(r)
      PROVE  Snapshot!SNext
  <2> DEFINE verdict == Verdict(token[r], snap)
             to == IF verdict = "stale" THEN "refresh" ELSE verdict
  <2>0. verdict \in {"rejected", "stale", "accepted"} /\ Goto(r, to)
    BY <1>2, <1>t, VerdictType DEF Verify
  <2>1. Offers' = Offers
    BY <1>2, <1>t, <2>0, OffersKept DEF Verify
  <2>2. /\ Stages[r] = "pending"
        /\ Stages' = [Stages EXCEPT ![r] =
                        IF verdict = "stale" THEN "doubted" ELSE verdict]
    BY <1>2, <1>t, <2>0, GotoStage DEF Verify, Stage, Refreshing
  <2>3. CASE verdict = "stale"
    <3>1. Snapshot!Doubt(r)
      BY <1>2, <1>t, <2>1, <2>2, <2>3, VerdictJudges
         DEF Verify, Snapshot!Doubt, Snapshot!Moves, Offers, Stages
    <3> QED BY <3>1 DEF Snapshot!SNext
  <2>4. CASE verdict # "stale"
    <3>1. Snapshot!Settle(r)
      BY <1>2, <1>t, <2>1, <2>2, <2>4, VerdictJudges
         DEF Verify, Snapshot!Settle, Snapshot!Moves, Offers, Stages
    <3> QED BY <3>1 DEF Snapshot!SNext
  <2> QED BY <2>3, <2>4
<1>3. ASSUME NEW r \in Requests, Observe(r)
      PROVE  UNCHANGED Snapshot!svars
  <2> DEFINE to == IF age < MinRefreshInterval THEN "retry" ELSE "lock"
  <2>1. Goto(r, to) /\ Offers' = Offers
    BY <1>3, <1>t, OffersKept DEF Observe
  <2>2. Stages' = Stages
    BY <1>3, <1>t, <2>1, GotoStage DEF Observe, Stage, Refreshing
  <2> QED BY <1>3, <2>1, <2>2 DEF Observe, Snapshot!svars, Offers, Stages
<1>4. ASSUME NEW r \in Requests, Acquire(r)
      PROVE  UNCHANGED Snapshot!svars
  <2>1. PICK to \in {"fetching", "retry"} : Goto(r, to)
    BY <1>4 DEF Acquire
  <2>2. Offers' = Offers
    BY <1>4, <1>t, <2>1, OffersKept DEF Acquire
  <2>3. Stages' = Stages
    BY <1>4, <1>t, <2>1, GotoStage DEF Acquire, Stage, Refreshing
  <2> QED BY <1>4, <2>2, <2>3 DEF Acquire, Snapshot!svars, Offers, Stages
<1>5. ASSUME NEW r \in Requests, IssuerAnswers(r)
      PROVE  Snapshot!SNext
  <2>1. Stages' = Stages /\ Stages[r] = "doubted"
    BY <1>5, <1>t, GotoStage DEF IssuerAnswers, Stage, Refreshing
  <2>2. Offers = {} /\ age = MinRefreshInterval
    BY <1>5, OffersOfHolder DEF IssuerAnswers, Refreshing, IInv, FetchJustified
  <2>3. Offers' = {published}
    <3>1. \A q \in Requests : pc[q] \in Refreshing => q = r
      BY <1>5, ProviderAssumption DEF IInv, SingleFlight, IssuerAnswers, Refreshing
    <3>2. \A q \in Requests : pc'[q] = "answered" <=> q = r
      BY <1>5, <1>t, <3>1 DEF IssuerAnswers, TypeOK, Goto, Refreshing
    <3>3. answer'[r] = published
      BY <1>5, <1>t DEF IssuerAnswers, TypeOK
    <3> QED BY <3>2, <3>3 DEF Offers
  <2>4. Snapshot!Offer
    BY <1>5, <2>1, <2>2, <2>3
       DEF IssuerAnswers, Snapshot!Offer, Snapshot!Doubted, Offers, Stages
  <2> QED BY <2>4 DEF Snapshot!SNext
<1>6. ASSUME NEW r \in Requests, FetchFails(r)
      PROVE  Snapshot!SNext
  <2>1. Offers' = {}
    BY <1>6, OffersGone DEF FetchFails
  <2>2. Stages[r] = "doubted" /\ Stages' = [Stages EXCEPT ![r] = "unavailable"]
    BY <1>6, <1>t, GotoStage DEF FetchFails, Stage, Refreshing
  <2>3. age = MinRefreshInterval
    BY <1>6 DEF FetchFails, IInv, FetchJustified
  <2>4. Snapshot!Unavailable(r)
    BY <1>6, <2>1, <2>2, <2>3
       DEF FetchFails, Snapshot!Unavailable, Snapshot!Moves, Offers, Stages
  <2> QED BY <2>4 DEF Snapshot!SNext
<1>7. ASSUME NEW r \in Requests, Store(r)
      PROVE  Snapshot!SNext
  <2>1. Offers = {answer[r]} /\ Offers' = {}
    BY <1>7, OffersOfHolder, OffersGone DEF Store, Refreshing
  <2>2. Stages' = Stages
    BY <1>7, <1>t, GotoStage DEF Store, Stage, Refreshing
  <2>3. Snapshot!Learn
    BY <1>7, <2>1, <2>2 DEF Store, Snapshot!Learn, Offers, Stages
  <2> QED BY <2>3 DEF Snapshot!SNext
<1>8. ASSUME NEW r \in Requests, Retry(r)
      PROVE  Snapshot!SNext
  <2> DEFINE verdict == Verdict(token[r], snap)
             to == IF verdict = "stale" THEN "unknown_key" ELSE verdict
  <2>0. verdict \in {"rejected", "stale", "accepted"} /\ Goto(r, to)
    BY <1>8, <1>t, VerdictType DEF Retry
  <2>1. Offers' = Offers
    BY <1>8, <1>t, <2>0, OffersKept DEF Retry
  <2>2. Stages[r] = "doubted" /\ Stages' = [Stages EXCEPT ![r] = to]
    BY <1>8, <1>t, <2>0, GotoStage DEF Retry, Stage, Refreshing
  <2>3. Snapshot!Judgement(r) = to
    BY <1>t, VerdictJudges
  <2>4. Snapshot!Settle(r)
    BY <1>8, <2>1, <2>2, <2>3
       DEF Retry, Snapshot!Settle, Snapshot!Moves, Offers, Stages
  <2> QED BY <2>4 DEF Snapshot!SNext
<1>9. ASSUME NEW r \in Requests, Finish(r)
      PROVE  Snapshot!SNext
  <2>1. Offers' = Offers
    BY <1>9, <1>t, OffersKept DEF Finish, Terminal
  <2>2. Stages[r] \in Terminal /\ Stages' = [Stages EXCEPT ![r] = "idle"]
    BY <1>9, <1>t, GotoStage DEF Finish, Terminal, Stage, Refreshing
  <2>3. Snapshot!Finish(r)
    BY <1>9, <2>1, <2>2
       DEF Finish, Terminal, Snapshot!Finish, Snapshot!Moves, Snapshot!Judged,
           Offers, Stages
  <2> QED BY <2>3 DEF Snapshot!SNext
<1>10. ASSUME NEW r \in Requests, Cancel(r)
       PROVE  Snapshot!SNext
  <2>1. Offers' \in {Offers, {}}
    <3>1. CASE pc[r] \in Refreshing
      BY <1>10, <3>1, OffersGone DEF Cancel
    <3>2. CASE pc[r] = "lock"
      <4>1. \A q \in Requests : pc'[q] = "answered" <=> pc[q] = "answered"
        BY <1>10, <1>t, <3>2 DEF Cancel, TypeOK, Goto
      <4>2. \A q \in Requests : pc[q] = "answered" => answer'[q] = answer[q]
        BY <1>10, <1>t, <3>2 DEF Cancel, TypeOK, Forget
      <4> QED BY <4>1, <4>2 DEF Offers
    <3> QED BY <1>10, <3>1, <3>2 DEF Cancel
  <2>2. Stages[r] = "doubted" /\ Stages' = [Stages EXCEPT ![r] = "idle"]
    BY <1>10, <1>t, GotoStage DEF Cancel, Stage, Refreshing
  <2>3. Snapshot!Leave(r)
    BY <1>10, <2>1, <2>2
       DEF Cancel, Snapshot!Leave, Snapshot!Moves, Offers, Stages
  <2> QED BY <2>3 DEF Snapshot!SNext
<1>11. ASSUME NEW r \in Requests, Lapse(r)
       PROVE  Snapshot!SNext
  <2>1. Stages[r] \in {"pending", "doubted"}
    BY <1>11, <1>t DEF Lapse, Pcs, Terminal, Stage, Stages, Refreshing
  <2>2. Snapshot!Lapse(r)
    BY <1>11, <2>1 DEF Lapse, Snapshot!Lapse, Stage, Stages
  <2> QED BY <2>2 DEF Snapshot!SNext
<1>12. ASSUME NEW ks \in SUBSET Keys, Rotate(ks)
       PROVE  Snapshot!SNext
  <2>1. Snapshot!Rotate
    BY <1>12 DEF Rotate, Snapshot!Rotate, Stage
  <2> QED BY <2>1 DEF Snapshot!SNext
<1>13. CASE Tick
  <2>1. Snapshot!Pass
    BY <1>13 DEF Tick, Snapshot!Pass, Stage
  <2> QED BY <2>1 DEF Snapshot!SNext
<1>14. CASE UNCHANGED vars
  BY <1>14 DEF vars, Snapshot!svars, Stage
<1> QED BY <1>1, <1>2, <1>3, <1>4, <1>5, <1>6, <1>7, <1>8, <1>9, <1>10, <1>11,
           <1>12, <1>13, <1>14 DEF Next, Move, Local, Remote

\* Through the mutex, the debounce and the second look, failures and dropped
\* clients: tokens are judged as KeySnapshot says, and snapshots follow the issuer.
THEOREM ProviderFollowsIssuer == Spec => FollowsIssuer
<1>1. Init => Snapshot!SInit
  <2> SUFFICES ASSUME Init PROVE Snapshot!SInit
    OBVIOUS
  <2>1. Offers = {}
    BY DEF Init, Offers
  <2>2. Stages = [r \in Requests |-> "idle"]
    BY DEF Init, Stages, Stage, Refreshing
  <2> QED BY <2>1, <2>2 DEF Init, Snapshot!SInit, Offers, Stages, Token, Forms
<1> QED BY <1>1, ProviderSteps, ProviderInductive, PTL
        DEF Spec, FollowsIssuer, Snapshot!SSpec

-----------------------------------------------------------------------------
MeasuresOK ==
    /\ standing \in [Keys -> 0 .. Horizon]
    /\ flight \in [Requests -> 0 .. MaxFlight]
    /\ trusted \in [Requests -> BOOLEAN]

\* Only a published key has been published for a while.
Unpublished == \A k \in Keys \ published : standing[k] = 0

\* What an answer in flight lacks was published while it was in flight.
AnswerLag ==
    \A r \in Requests : pc[r] = "answered" =>
        \A k \in published \ answer[r] : standing[k] <= flight[r]

\* What a young snapshot lacks was published no earlier than its answer.
SnapshotLag ==
    age < MinRefreshInterval =>
        \A k \in published \ snap : standing[k] <= age + MaxFlight

\* A trusted request's key has been published for the whole horizon, and once
\* the refresh is behind the request the snapshot has the key.
TrustJustified ==
    \A r \in Requests : trusted[r] =>
        /\ token[r].key \in published
        /\ standing[token[r].key] = Horizon
        /\ pc[r] = "lock" /\ ~same[r] => token[r].key \in snap
        /\ pc[r] = "retry" => token[r].key \in snap

RInv ==
    /\ IInv
    /\ MeasuresOK
    /\ Unpublished
    /\ AnswerLag
    /\ SnapshotLag
    /\ TrustJustified
    /\ OutageBounded

\* The keys a store() brings in include every key published for the horizon.
LEMMA StoredIsFresh ==
    ASSUME MinRefreshInterval > 0, RInv,
           NEW r \in Requests, pc[r] = "answered",
           NEW k \in published, standing[k] = Horizon
    PROVE  k \in answer[r]
<1>1. k \in Keys /\ flight[r] \in 0 .. MaxFlight
  BY DEF RInv, IInv, TypeOK, MeasuresOK
<1>2. k \notin answer[r] => standing[k] <= flight[r]
  BY DEF RInv, AnswerLag
<1> QED BY <1>1, <1>2, ProviderAssumption, FlightAssumption DEF Horizon

\* A snapshot the debounce protects has every key published for the horizon.
LEMMA YoungIsFresh ==
    ASSUME RInv, age < MinRefreshInterval,
           NEW k \in published, standing[k] = Horizon
    PROVE  k \in snap
<1>1. age \in Nat
  BY ProviderAssumption DEF RInv, IInv, TypeOK
<1>2. k \notin snap => standing[k] <= age + MaxFlight
  BY DEF RInv, SnapshotLag
<1> QED BY <1>1, <1>2, ProviderAssumption, FlightAssumption DEF Horizon

\* Every move of the provider keeps the measures typed.
LEMMA MoveTyped ==
    ASSUME RInv, RMove
    PROVE  MeasuresOK'
<1>1. published' \in SUBSET Keys
  BY DEF RMove, Move, Local, Remote, RInv, IInv, TypeOK, Begin, Verify, Observe, Acquire,
         IssuerAnswers, FetchFails, Store, Retry, Finish, Cancel, Lapse, Rotate
<1>2. standing' \in [Keys -> 0 .. Horizon]
  BY <1>1, ProviderAssumption, FlightAssumption
     DEF RMove, RInv, MeasuresOK, Horizon
<1>3. flight' \in [Requests -> 0 .. MaxFlight]
  BY FlightAssumption DEF RMove, RInv, MeasuresOK
<1>4. trusted' \in [Requests -> BOOLEAN]
  <2>1. \A r \in Requests : trusted[r] \in BOOLEAN
    BY DEF RInv, MeasuresOK
  <2> QED BY <2>1, Zenon DEF RMove
<1> QED BY <1>2, <1>3, <1>4 DEF MeasuresOK

\* Time keeps everything: it only makes keys and answers older.
LEMMA TimeStep ==
    ASSUME RInv, RTick
    PROVE  RInv'
<1> USE ProviderAssumption, FlightAssumption
<1>1. UNCHANGED <<published, snap, holder, pc, token, same, answer>>
  BY DEF RTick, Tick, vars
<1>2. age \in 0 .. MinRefreshInterval
      /\ age' = IF age < MinRefreshInterval THEN age + 1 ELSE age
  BY DEF RTick, Tick, vars, RInv, IInv, TypeOK
<1>3. IInv'
  BY ProviderStep DEF RInv, RTick, Next, vars
<1>4. MeasuresOK'
  BY DEF RInv, MeasuresOK, RTick, Horizon
<1>5. \A k \in Keys : /\ standing'[k] <= standing[k] + 1
                      /\ standing[k] = Horizon => standing'[k] = Horizon
  BY DEF RInv, MeasuresOK, RTick, Horizon
<1>6. AnswerLag'
  BY <1>1, <1>5 DEF RInv, IInv, TypeOK, MeasuresOK, AnswerLag, RTick, Horizon
<1>7. SnapshotLag'
  BY <1>1, <1>2, <1>4, <1>5 DEF RInv, IInv, TypeOK, MeasuresOK, SnapshotLag, Horizon
<1>8. TrustJustified'
  BY <1>1, <1>5 DEF RInv, IInv, TypeOK, Token, TrustJustified, RTick
<1>9. OutageBounded'
  BY <1>1 DEF RInv, OutageBounded, RTick
<1>10. Unpublished'
  BY <1>1 DEF RInv, Unpublished, RTick
<1> QED BY <1>3, <1>4, <1>6, <1>7, <1>8, <1>9, <1>10 DEF RInv

\* What a move does to the measures, request by request and key by key.
LEMMA MoveMeasures ==
    ASSUME RInv, RMove
    PROVE  /\ \A k \in published' : k \in Keys /\ standing'[k] = standing[k]
           /\ \A r \in Requests : pc'[r] = "answered" => flight'[r] = flight[r]
           /\ \A r \in Requests : trusted'[r] =>
                  \/ /\ pc[r] = "idle" /\ pc'[r] = "verify"
                     /\ standing[token'[r].key] = Horizon
                  \/ /\ pc[r] # "idle" /\ trusted[r]
                     /\ token[r].key \in published'
<1>1. published' \in SUBSET Keys
  BY DEF RMove, Move, Local, Remote, RInv, IInv, TypeOK, Begin, Verify, Observe, Acquire,
         IssuerAnswers, FetchFails, Store, Retry, Finish, Cancel, Lapse, Rotate
<1> QED BY <1>1 DEF RMove

\* Every move of the provider preserves the invariant.
LEMMA MoveStep ==
    ASSUME MinRefreshInterval > 0, RInv, RMove
    PROVE  RInv'
<1> DEFINE Rest == AnswerLag /\ SnapshotLag /\ TrustJustified /\ OutageBounded
<1>a. IInv' /\ IInv
  BY ProviderStep DEF RInv, RMove, Next
<1>b. MeasuresOK'
  BY MoveTyped
<1>c. Unpublished'
  BY DEF RMove, Unpublished
<1>d. Horizon \in Nat /\ Horizon > 0
  BY ProviderAssumption, FlightAssumption DEF Horizon
<1>e. \A k \in Keys : standing[k] = Horizon => k \in published
  BY <1>d DEF RInv, Unpublished
<1>0. SUFFICES Rest'
  BY <1>a, <1>b, <1>c DEF RInv
<1> USE <1>a, MoveMeasures
        DEF RInv, IInv, TypeOK, AnswerLag, SnapshotLag, TrustJustified, OutageBounded,
            Goto, Forget
<1>1. ASSUME NEW r \in Requests, NEW t \in Token, Begin(r, t) PROVE Rest'
  BY <1>1, <1>e DEF Begin, Token
<1>2. ASSUME NEW r \in Requests, Verify(r) PROVE Rest'
  <2>1. Verdict(token[r], snap) \in {"rejected", "stale", "accepted"}
    BY VerdictType
  <2> QED BY <1>2, <2>1 DEF Verify
<1>3. ASSUME NEW r \in Requests, Observe(r) PROVE Rest'
  BY <1>3, YoungIsFresh DEF Observe
<1>4. ASSUME NEW r \in Requests, Acquire(r) PROVE Rest'
  BY <1>4, YoungIsFresh DEF Acquire
<1>5. ASSUME NEW r \in Requests, IssuerAnswers(r) PROVE Rest'
  BY <1>5 DEF IssuerAnswers
<1>6. ASSUME NEW r \in Requests, FetchFails(r) PROVE Rest'
  BY <1>6 DEF FetchFails
<1>7. ASSUME NEW r \in Requests, Store(r) PROVE Rest'
  <2>1. AnswerLag'
    BY <1>7 DEF Store
  <2>2. SnapshotLag'
    <3>1. \A k \in published \ answer[r] : standing[k] <= flight[r]
      BY <1>7 DEF Store
    <3>2. flight[r] \in 0 .. MaxFlight /\ standing \in [Keys -> 0 .. Horizon]
      BY DEF MeasuresOK
    <3>3. \A k \in published \ answer[r] : standing[k] <= 0 + MaxFlight
      BY <3>1, <3>2, <1>d, FlightAssumption
    <3> QED BY <1>7, <3>3 DEF Store
  <2>3. TrustJustified'
    <3>1. \A k \in published : standing[k] = Horizon => k \in snap'
      BY <1>7, StoredIsFresh DEF Store
    <3> QED BY <1>7, <3>1 DEF Store
  <2>4. OutageBounded'
    BY <1>7 DEF Store
  <2> QED BY <2>1, <2>2, <2>3, <2>4
<1>8. ASSUME NEW r \in Requests, Retry(r) PROVE Rest'
  <2>1. /\ Verdict(token[r], snap) \in {"rejected", "stale", "accepted"}
        /\ Verdict(token[r], snap) = "stale" => token[r].key \notin snap
    BY VerdictType DEF Verdict, Token, Forms
  <2>2. AnswerLag' /\ SnapshotLag' /\ TrustJustified'
    BY <1>8, <2>1 DEF Retry
  <2>3. OutageBounded'
    BY <1>8, <2>1 DEF Retry
  <2> QED BY <2>2, <2>3
<1>9. ASSUME NEW r \in Requests, Finish(r) PROVE Rest'
  BY <1>9 DEF Finish
<1>10. ASSUME NEW r \in Requests, Cancel(r) PROVE Rest'
  BY <1>10 DEF Cancel
<1>11. ASSUME NEW r \in Requests, Lapse(r) PROVE Rest'
  BY <1>11 DEF Lapse
<1>12. ASSUME NEW ks \in SUBSET Keys, Rotate(ks) PROVE Rest'
  <2>1. \A k \in ks \ published : standing'[k] = 0
    BY <1>12 DEF Rotate, Unpublished
  <2>2. AnswerLag'
    BY <1>12, <2>1, FlightAssumption DEF Rotate, MeasuresOK
  <2>3. SnapshotLag'
    BY <1>12, <2>1, ProviderAssumption, FlightAssumption DEF Rotate
  <2>4. TrustJustified' /\ OutageBounded'
    BY <1>12 DEF Rotate
  <2> QED BY <2>2, <2>3, <2>4
<1> QED BY <1>1, <1>2, <1>3, <1>4, <1>5, <1>6, <1>7, <1>8, <1>9, <1>10, <1>11,
           <1>12 DEF RMove, Move, Local, Remote

\* A key that had been published for the debounce plus one flight when the
\* request began, and stays published, is never reported as unknown, whatever
\* the number of requests and however rotations, failures and cancellations
\* interleave.
THEOREM RotationOutageBounded ==
    ASSUME MinRefreshInterval > 0
    PROVE  RSpec => []OutageBounded
<1>1. RInit => RInv
  <2> SUFFICES ASSUME RInit PROVE RInv
    OBVIOUS
  <2>1. IInv
    BY ProviderInit DEF RInit
  <2>2. MeasuresOK /\ Unpublished
    BY ProviderAssumption, FlightAssumption
       DEF RInit, MeasuresOK, Unpublished, Horizon
  <2>3. AnswerLag /\ SnapshotLag /\ TrustJustified /\ OutageBounded
    BY DEF RInit, Init, AnswerLag, SnapshotLag, TrustJustified, OutageBounded
  <2> QED BY <2>1, <2>2, <2>3 DEF RInv
<1>2. RInv /\ [RMove \/ RTick]_rvars => RInv'
  <2> SUFFICES ASSUME RInv, [RMove \/ RTick]_rvars PROVE RInv'
    OBVIOUS
  <2>1. CASE RMove
    BY <2>1, MoveStep
  <2>2. CASE RTick
    BY <2>2, TimeStep
  <2>3. CASE UNCHANGED rvars
    BY <2>3 DEF rvars, vars, RInv, IInv, TypeOK, SingleFlight, FetchJustified,
                MeasuresOK, Unpublished, AnswerLag, SnapshotLag,
                TrustJustified, OutageBounded
  <2> QED BY <2>1, <2>2, <2>3
<1>3. RInv => OutageBounded
  BY DEF RInv
<1> QED BY <1>1, <1>2, <1>3, PTL DEF RSpec

\* Watching the provider does not change what it does: with the measures and the
\* bounded flight it takes no step it would not take without, so that what is
\* proved of Spec holds next to the bound on outages.
THEOREM RotationIsProvider == RSpec => Spec /\ FollowsIssuer
<1>1. RInit => Init
  BY DEF RInit
<1>2. [RMove \/ RTick]_rvars => [Next]_vars
  BY DEF RMove, RTick, rvars, Next
<1>3. RSpec => Spec
  BY <1>1, <1>2, PTL DEF RSpec, Spec
<1> QED BY <1>3, ProviderFollowsIssuer
=============================================================================
