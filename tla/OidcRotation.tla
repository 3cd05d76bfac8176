----------------------------- MODULE OidcRotation -----------------------------
(***************************************************************************)
(* How long a key rotation can cost a client its valid token.  OidcProvider *)
(* with a measure of time: how long each key has been published without a  *)
(* gap, how long each discovery answer has been in flight, and which       *)
(* requests present a key that was published long enough before they       *)
(* began.  The measures watch the provider; the one assumption they add is *)
(* that no answer is in flight for longer than MaxFlight.                  *)
(***************************************************************************)
EXTENDS OidcProvider

CONSTANT MaxFlight

ASSUME FlightAssumption == MaxFlight \in Nat

VARIABLES standing, flight, trusted

rvars == <<vars, standing, flight, trusted>>

\* The debounce plus the flight: a snapshot stored just before the debounce
\* began may hold keys read one flight earlier.
Horizon == MinRefreshInterval + MaxFlight

RInit ==
    /\ Init
    /\ standing = [k \in Keys |-> 0]
    /\ flight = [r \in Requests |-> 0]
    /\ trusted = [r \in Requests |-> FALSE]

RMove ==
    /\ Move
    /\ standing' = [k \in Keys |-> IF k \in published' THEN standing[k] ELSE 0]
    /\ flight' = [r \in Requests |-> IF pc'[r] = "answered" THEN flight[r] ELSE 0]
    /\ trusted' = [r \in Requests |->
                     IF pc[r] = "idle"
                     THEN pc'[r] = "verify" /\ standing[token'[r].key] = Horizon
                     ELSE pc'[r] # "idle" /\ trusted[r] /\ token[r].key \in published']

RTick ==
    /\ Tick \/ (age = MinRefreshInterval /\ UNCHANGED vars)
    /\ \A r \in Requests : pc[r] = "answered" => flight[r] < MaxFlight
    /\ standing' = [k \in Keys |->
                      IF k \in published /\ standing[k] < Horizon
                      THEN standing[k] + 1 ELSE standing[k]]
    /\ flight' = [r \in Requests |->
                    IF pc[r] = "answered" THEN flight[r] + 1 ELSE 0]
    /\ UNCHANGED trusted

RSpec == RInit /\ [][RMove \/ RTick]_rvars

\* The executor polls every ready request, and time passes.  The mutex is FIFO
\* (tokio's is), so a request that stays in its queue while it keeps being
\* released is served: strong fairness of Acquire.
RFairSpec ==
    /\ RSpec
    /\ \A r \in Requests : WF_vars(Local(r)) /\ SF_vars(Acquire(r))
    /\ WF_rvars(RTick)

\* No outage outlasts the debounce: a key that had been published for the
\* minimum interval plus one flight when the request began, and stays
\* published, is never reported as unknown.  The routes to that report are the
\* debounce, another request's refresh that answered before the rotation, and
\* the request's own fetch; each is bounded by the age of the snapshot.
OutageBounded ==
    \A r \in Requests : pc[r] = "unknown_key" => ~trusted[r]
=============================================================================
