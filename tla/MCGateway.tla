------------------------------ MODULE MCGateway ------------------------------
EXTENDS Adapters

MCRegistered == {"bearer", "api_token", "basic", "session"}

\* The fields a header has no use for are pinned.
Carrying(headers, grants, known, verify, remote, password, fallback) ==
    [header : headers, grant : grants, known : known, verify : verify,
     remote : remote, password : password, fallback : fallback,
     method : {"GET"}, path : {"returnable"}, public : BOOLEAN, login : BOOLEAN,
     cookie : {"absent", "empty", "ok", "ok_other", "invalid_credential", "upstream"}]
    \cup
    [header : headers, grant : grants, known : known, verify : verify,
     remote : remote, password : password, fallback : fallback,
     method : {"POST"}, path : {"returnable"}, public : {FALSE}, login : {TRUE},
     cookie : {"absent", "invalid_credential"}]
    \cup
    [header : headers, grant : grants, known : known, verify : verify,
     remote : remote, password : password, fallback : fallback,
     method : {"GET"}, path : {"unreturnable"}, public : {FALSE}, login : {TRUE},
     cookie : {"absent"}]

Unclaimed ==
    Carrying({"absent", "bare", "other", "basic_junk", "opaque"}, {"absent"},
             {"no"}, {"ok"}, {"ok"}, {FALSE}, {FALSE})
IdTokens ==
    Carrying({"jws"}, {"absent"}, {"no"}, {"ok", "invalid_credential", "upstream"},
             {"ok"}, {FALSE}, {FALSE})
ApiKeys ==
    LET Keys(known, remote, fallback) ==
            Carrying({"api_key", "api_jws"}, {"absent"}, known, {"invalid_credential"},
                     remote, {FALSE}, fallback)
    IN  Keys({"no", "ok", "internal"}, {"ok"}, {FALSE})
        \cup Keys({"no"}, {"ok", "invalid_credential"}, {TRUE})
Pairs ==
    LET Basics(grants, remote, password) ==
            Carrying({"basic"}, grants, {"no"}, {"ok"}, remote, password, {FALSE})
    IN  Basics(Grants, {"ok", "invalid_credential"}, {TRUE})
        \cup Basics({"password"}, {"ok"}, {FALSE})

MCRequests == Unclaimed \cup IdTokens \cup ApiKeys \cup Pairs

Reads(session, value) == [session |-> session, value |-> value]
Pair(form, ascii, raw, decoded) ==
    [form |-> form, ascii |-> ascii, raw |-> raw, decoded |-> decoded]
Plain(reading) == Pair("plain", TRUE, reading, reading)

\* A request as clients send it, with one line of each header at most.
OnTheWire(q) ==
    [lines |-> IF q.header = "absent" THEN <<>> ELSE <<q.header>>,
     pairs |-> IF q.cookie = "absent" THEN <<>> ELSE <<Plain(Reads(TRUE, q.cookie))>>,
     rest  |-> q]

\* Repeated lines and pairs: unreadable ones, pairs with an encoded name or an
\* encoded value, and a session on a line that is not ASCII.
UpToTwo(S) == {<<>>} \cup {<<a>> : a \in S} \cup {<<a, b>> : a, b \in S}
Mine == Reads(TRUE, "ok")
Theirs == Reads(TRUE, "ok_other")
Junk == Reads(TRUE, "invalid_credential")
Preference == Reads(FALSE, "ok")
SomePairs ==
    {Plain(r) : r \in {Mine, Theirs, Junk, Preference}}
    \cup {Pair("encoded", TRUE, Preference, Theirs), Pair("encoded", TRUE, Junk, Theirs),
          Pair("plain", FALSE, Theirs, Theirs), Pair("plain", FALSE, Preference, Preference),
          Pair("undecodable", TRUE, Junk, Junk)}
    \cup {Pair(form, TRUE, Preference, Preference) : form \in UnparsableForms}
Visits ==
    {q \in Unclaimed : /\ q.method = "GET" /\ q.path = "returnable" /\ q.login
                       /\ q.header = "absent" /\ q.cookie = "absent"}
Awkward ==
    [lines : UpToTwo({"jws", "other", "unreadable"}), pairs : {<<>>}, rest : Visits]
    \cup
    [lines : {<<>>, <<"jws">>}, pairs : UpToTwo(SomePairs), rest : Visits]

Ordinary(requests) == {OnTheWire(q) : q \in requests}
ApiKeyWires == Ordinary(ApiKeys)
MCWires == Ordinary(MCRequests) \cup Awkward
=============================================================================
