----------------------------- MODULE KeySnapshot -----------------------------
(***************************************************************************)
(* What an OidcProvider promises about the keys it verifies with, with no  *)
(* mutex, no queue and no second look: a token is judged at one moment, by *)
(* the one snapshot there is then; the issuer is asked only while a        *)
(* request misses a key and the snapshot is old enough, one question at a  *)
(* time; and a snapshot is replaced by an answer given after it was taken, *)
(* so that snapshots follow the issuer and never go back.  OidcProvider    *)
(* implements it.                                                          *)
(***************************************************************************)
EXTENDS Naturals

CONSTANTS
    Requests,
    Token,              \* records with a form and a key
    Keys,
    MinRefreshInterval  \* OidcConfig::min_refresh_interval

VARIABLES
    published,  \* the keys the issuer serves now
    snap,       \* the keys tokens are judged by
    age,        \* of the snapshot, up to the interval
    offers,     \* the answers of the issuer on their way
    stage,      \* how far each request is
    token       \* what each request presents

svars == <<published, snap, age, offers, stage, token>>

Judged == {"accepted", "rejected", "unknown_key", "unavailable"}
Doubted == {r \in Requests : stage[r] = "doubted"}

SInit ==
    /\ published \in SUBSET Keys
    /\ snap = published
    /\ age = 0
    /\ offers = {}
    /\ stage = [r \in Requests |-> "idle"]
    /\ token \in [Requests -> Token]

\* A token that may be good, were its key known.
Misses(t) == t.form \in {"valid", "lapsed"} /\ t.key \notin snap

\* What a request may be told now.
Judgement(r) ==
    IF Misses(token[r]) THEN "unknown_key"
    ELSE IF token[r].form = "valid" THEN "accepted"
    ELSE "rejected"

Moves(r, from, to) ==
    /\ stage[r] \in from
    /\ stage' = [stage EXCEPT ![r] = to]

Arrive(r) ==
    /\ Moves(r, {"idle"}, "pending")
    /\ \E t \in Token : token' = [token EXCEPT ![r] = t]
    /\ UNCHANGED <<published, snap, age, offers>>

\* A request misses a key and may wait for a newer snapshot.
Doubt(r) ==
    /\ Moves(r, {"pending"}, "doubted")
    /\ Misses(token[r])
    /\ UNCHANGED <<published, snap, age, offers, token>>

\* Only a request that has been through the doubt may be told the key is unknown.
Settle(r) ==
    /\ Moves(r, IF Misses(token[r]) THEN {"doubted"} ELSE {"pending", "doubted"},
                Judgement(r))
    /\ UNCHANGED <<published, snap, age, offers, token>>

\* The issuer is asked, and answers with what it serves now.
Offer ==
    /\ Doubted # {}
    /\ age = MinRefreshInterval
    /\ offers = {}
    /\ offers' = {published}
    /\ UNCHANGED <<published, snap, age, stage, token>>

\* The answer becomes the snapshot.
Learn ==
    /\ snap' \in offers
    /\ age' = 0
    /\ offers' = {}
    /\ UNCHANGED <<published, stage, token>>

\* The issuer cannot be asked, or its answer is no good.
Unavailable(r) ==
    /\ Moves(r, {"doubted"}, "unavailable")
    /\ age = MinRefreshInterval
    /\ offers' = {}
    /\ UNCHANGED <<published, snap, age, token>>

\* A client leaves, and the answer it was waiting for with it.
Leave(r) ==
    /\ Moves(r, {"doubted"}, "idle")
    /\ offers' \in {offers, {}}
    /\ UNCHANGED <<published, snap, age, token>>

Finish(r) ==
    /\ Moves(r, Judged, "idle")
    /\ UNCHANGED <<published, snap, age, offers, token>>

Lapse(r) ==
    /\ stage[r] \in {"pending", "doubted"}
    /\ token[r].form = "valid"
    /\ token' = [token EXCEPT ![r].form = "lapsed"]
    /\ UNCHANGED <<published, snap, age, offers, stage>>

Rotate ==
    /\ published' \in SUBSET Keys
    /\ UNCHANGED <<snap, age, offers, stage, token>>

Pass ==
    /\ age < MinRefreshInterval
    /\ age' = age + 1
    /\ UNCHANGED <<published, snap, offers, stage, token>>

SNext ==
    \/ Rotate
    \/ Pass
    \/ Offer
    \/ Learn
    \/ \E r \in Requests :
        \/ Arrive(r)
        \/ Doubt(r)
        \/ Settle(r)
        \/ Unavailable(r)
        \/ Leave(r)
        \/ Finish(r)
        \/ Lapse(r)

SSpec == SInit /\ [][SNext]_svars
=============================================================================
