------------------------------ MODULE LoginFlow ------------------------------
(***************************************************************************)
(* src/oidc/login.rs with src/oidc/session.rs, src/cookie.rs and           *)
(* src/mechanisms/session.rs: the authorization-code login seen from one   *)
(* browser.  The server keeps no state between two requests of a login;    *)
(* everything travels in two cookies of a jar that all tabs share, so a    *)
(* response decides with the cookies its request was sent with and writes  *)
(* into the jar as it is when the response arrives.                        *)
(*                                                                         *)
(* An attempt is one run of authorize() and names all it gives rise to:    *)
(* the secrets (csrf, nonce, PKCE verifier) in the protection cookie, the  *)
(* authorization code the provider issues for it, and the ID token that    *)
(* code is worth, which is the value of the session cookie.                *)
(*                                                                         *)
(* The browser, its user and the identity provider are external.           *)
(***************************************************************************)
EXTENDS Naturals

CONSTANTS
    Tabs,
    Attempts,           \* bound: attempts that something still refers to
    SessionCookie,      \* the name LoginFlow writes the session under
    ScopeCookie,        \* the name SessionAuthenticator reads it under
    ProtectionCookie,
    None

ASSUME LoginAssumption ==
    /\ None \notin Attempts
    /\ ProtectionCookie \notin {SessionCookie, ScopeCookie}

VARIABLES
    jar,    \* the attempt each cookie comes from
    tab,    \* what each tab is doing
    spent,  \* codes the token endpoint has taken
    dead    \* ID tokens that have expired

vars == <<jar, tab, spent, dead>>

Cookies == {SessionCookie, ScopeCookie, ProtectionCookie}
Value == Attempts \cup {None}

\* Between authorize() and the end of complete(); "failed" holds a callback URL.
LoggingIn == {"at_idp", "denied", "returned", "exchanging", "verifying", "failed"}

\* sent: the session cookie of the request in flight; login: the attempt of the
\* tab; before: the session that was in the jar when it began.
Tab ==
    [at : {"idle", "landed"}, sent : {None}, login : {None}, before : {None}]
    \cup [at : {"visiting"}, sent : Value, login : {None}, before : {None}]
    \cup [at : LoggingIn, sent : {None}, login : Attempts, before : Value]

Blank == [at |-> "idle", sent |-> None, login |-> None, before |-> None]
Visiting(session) == [Blank EXCEPT !.at = "visiting", !.sent = session]

Init ==
    /\ jar = [c \in Cookies |-> None]
    /\ tab = [t \in Tabs |-> Blank]
    /\ spent = {}
    /\ dead = {}

-----------------------------------------------------------------------------
Become(t, state) == tab' = [tab EXCEPT ![t] = state]
Goto(t, place) == tab' = [tab EXCEPT ![t].at = place]

Unused(a) ==
    /\ \A c \in Cookies : jar[c] # a
    /\ \A t \in Tabs : a \notin {tab[t].sent, tab[t].login, tab[t].before}

\* Mutant: the session in place survives the start of a login.
Authorize_KeepsSession(t) ==
    \E a \in Attempts :
        /\ Unused(a)
        /\ jar' = [jar EXCEPT ![ProtectionCookie] = a]
        /\ Become(t, [Blank EXCEPT !.at = "at_idp", !.login = a,
                                   !.before = jar[SessionCookie]])
        /\ spent' = spent \ {a}
        /\ dead' = dead \ {a}

\* LoginFlow::authorize, for a destination the policy accepts, and the browser
\* following it: new random secrets, and a clear of the session cookie.
Authorize(t) ==
    \E a \in Attempts :
        /\ Unused(a)
        /\ jar' = [jar EXCEPT ![ProtectionCookie] = a, ![SessionCookie] = None]
        /\ Become(t, [Blank EXCEPT !.at = "at_idp", !.login = a,
                                   !.before = jar[SessionCookie]])
        /\ spent' = spent \ {a}
        /\ dead' = dead \ {a}

\* The tab asks for a protected page.
Visit(t) ==
    /\ tab[t].at # "visiting"
    /\ Become(t, Visiting(jar[ScopeCookie]))
    /\ UNCHANGED <<jar, spent, dead>>

\* The user asks for the application's own login route, signed in or not.
Begin(t) ==
    /\ tab[t].at \in {"idle", "landed", "denied", "failed"}
    /\ Authorize(t)

\* SessionAuthenticator::authenticate: the ID token verifies.
Admit(t) ==
    /\ tab[t].at = "visiting"
    /\ tab[t].sent # None
    /\ tab[t].sent \notin dead
    /\ Become(t, [Blank EXCEPT !.at = "landed"])
    /\ UNCHANGED <<jar, spent, dead>>

\* The same, with no cookie or a token that fails with 401.
Challenge(t) ==
    /\ tab[t].at = "visiting"
    /\ tab[t].sent \in dead \cup {None}
    /\ Authorize(t)

\* The same, with a token that could not be verified: 503, no cookies.
Unavailable(t) ==
    /\ tab[t].at = "visiting"
    /\ tab[t].sent # None
    /\ Become(t, Blank)
    /\ UNCHANGED <<jar, spent, dead>>

\* The user signs in at the provider, which sends the tab back with a code.
SignIn(t) ==
    /\ tab[t].at = "at_idp"
    /\ Goto(t, "returned")
    /\ UNCHANGED <<jar, spent, dead>>

\* The user declines: a CallbackParams::Failure, refused whatever the cookies.
Deny(t) ==
    /\ tab[t].at = "at_idp"
    /\ Goto(t, "denied")
    /\ UNCHANGED <<jar, spent, dead>>

\* Mutant: the cookie is SameSite=Strict and so withheld on the way back.
SentToCallback_Strict == None

\* CookieSettings::protection: SameSite=Lax, which a cross-site top-level
\* navigation carries.
SentToCallback == jar[ProtectionCookie]

\* Mutant: what the callback brings is taken for the token itself.
Accept_SkipsExchange(t) ==
    /\ tab[t].at = "returned"
    /\ SentToCallback = tab[t].login
    /\ Goto(t, "verifying")
    /\ UNCHANGED <<jar, spent, dead>>

\* LoginFlow::complete, up to the call of the token endpoint: the state matches
\* the protection cookie.
Accept(t) ==
    /\ tab[t].at = "returned"
    /\ SentToCallback = tab[t].login
    /\ Goto(t, "exchanging")
    /\ UNCHANGED <<jar, spent, dead>>

\* The same: no protection cookie, or that of another attempt.
Refuse(t) ==
    /\ tab[t].at = "returned"
    /\ SentToCallback # tab[t].login
    /\ Goto(t, "failed")
    /\ UNCHANGED <<jar, spent, dead>>

\* The token endpoint takes the code, once, and answers with an ID token.
Exchange(t) ==
    /\ tab[t].at = "exchanging"
    /\ tab[t].login \notin spent
    /\ spent' = spent \cup {tab[t].login}
    /\ Goto(t, "verifying")
    /\ UNCHANGED <<jar, dead>>

\* Mutant: tokens are kept by code, so that a reload of the callback completes.
ExchangeFails_ReusesAnswer(t) ==
    /\ tab[t].at = "exchanging"
    /\ spent' \in {spent, spent \cup {tab[t].login}}
    /\ Goto(t, IF tab[t].login \in spent THEN "verifying" ELSE "failed")
    /\ UNCHANGED <<jar, dead>>

\* request_async() fails: the code was spent before, or the answer is lost after
\* the endpoint took the code.
ExchangeFails(t) ==
    /\ tab[t].at = "exchanging"
    /\ spent' \in {spent, spent \cup {tab[t].login}}
    /\ Goto(t, "failed")
    /\ UNCHANGED <<jar, dead>>

\* No ID token in the answer, verify_id_token() fails, or encode() does.
VerifyFails(t) ==
    /\ tab[t].at = "verifying"
    /\ Goto(t, "failed")
    /\ UNCHANGED <<jar, spent, dead>>

\* Mutant: the protection cookie is left to expire.
Complete_KeepsProtection(t) ==
    /\ tab[t].at = "verifying"
    /\ tab[t].login \notin dead
    /\ jar' = [jar EXCEPT ![SessionCookie] = tab[t].login]
    /\ Become(t, Visiting(jar'[ScopeCookie]))
    /\ UNCHANGED <<spent, dead>>

\* The rest of complete(): LoginComplete, and the tab following it to the
\* destination.
Complete(t) ==
    /\ tab[t].at = "verifying"
    /\ tab[t].login \notin dead
    /\ jar' = [jar EXCEPT ![SessionCookie] = tab[t].login, ![ProtectionCookie] = None]
    /\ Become(t, Visiting(jar'[ScopeCookie]))
    /\ UNCHANGED <<spent, dead>>

-----------------------------------------------------------------------------
\* The callback URL is requested again: a reload of the error page, or a copy of
\* the tab while the first request may still be under way.
Replay(t, u) ==
    /\ tab[t].at \in {"exchanging", "verifying", "failed"}
    /\ \/ u = t /\ tab[t].at = "failed"
       \/ tab[u].at = "idle"
    /\ Become(u, [tab[t] EXCEPT !.at = "returned"])
    /\ UNCHANGED <<jar, spent, dead>>

\* A cookie reaches its max_age.
Expire(c) ==
    /\ jar[c] # None
    /\ jar' = [jar EXCEPT ![c] = None]
    /\ UNCHANGED <<tab, spent, dead>>

\* An ID token expires.
Lapse(a) ==
    /\ a \in spent \ dead
    /\ dead' = dead \cup {a}
    /\ UNCHANGED <<jar, tab, spent>>

Served(t) == Admit(t) \/ Challenge(t) \/ Unavailable(t)
Exchanged(t) == Exchange(t) \/ ExchangeFails(t)
Verified(t) == Complete(t) \/ VerifyFails(t)

Next ==
    \/ \E t \in Tabs :
        \/ Visit(t)
        \/ Begin(t)
        \/ Served(t)
        \/ SignIn(t)
        \/ Deny(t)
        \/ Accept(t)
        \/ Refuse(t)
        \/ Exchanged(t)
        \/ Verified(t)
        \/ \E u \in Tabs : Replay(t, u)
    \/ \E c \in Cookies : Expire(c)
    \/ \E a \in Attempts : Lapse(a)

Spec == Init /\ [][Next]_vars

\* The server and the browser do their part; the user may stop at any point.
FairSpec ==
    /\ Spec
    /\ \A t \in Tabs :
        /\ WF_vars(Served(t))
        /\ WF_vars(Accept(t) \/ Refuse(t))
        /\ WF_vars(Exchanged(t))
        /\ WF_vars(Verified(t))

-----------------------------------------------------------------------------
\* Besides the types: only tokens the endpoint gave out get into the jar.
TypeOK ==
    /\ jar \in [Cookies -> Value]
    /\ tab \in [Tabs -> Tab]
    /\ spent \in SUBSET Attempts
    /\ dead \in SUBSET spent
    /\ jar[SessionCookie] \in spent \cup {None}

\* "A failed attempt cannot leave the previous identity in place": from its
\* beginning, and through every replay, a login keeps the session it found out
\* of the jar, whatever the other tabs do.
FailedLoginLeavesNothing ==
    \A t \in Tabs :
        tab[t].before # None => jar[SessionCookie] # tab[t].before

\* "The protection cookie is single-use": secrets that have earned a session are
\* not in the jar next to it, so that its callback cannot be run again.
SecretsDieWithLogin ==
    jar[SessionCookie] # None => jar[ProtectionCookie] # jar[SessionCookie]

Verifying(a) == \E t \in Tabs : tab[t].at = "verifying" /\ tab[t].login = a

\* Where SessionLife has an attempt.
Life(a) ==
    IF jar[SessionCookie] = a THEN "session"
    ELSE IF a \notin spent THEN "unspent"
    ELSE IF Verifying(a) THEN "verifying"
    ELSE "over"

Session == INSTANCE SessionLife WITH life <- [a \in Attempts |-> Life(a)]

\* Through reloads, copies of a callback, failures after the code was spent and
\* other tabs' logins, an attempt becomes the session at most once, there is one
\* session, and none comes back.
SessionOnce == Session!LSpec

\* A user who comes back after an error, does not always walk away half-way and
\* signs in within the life of the protection cookie; a provider and a network
\* that work now and then.
Cooperative ==
    /\ \A t \in Tabs :
        /\ SF_vars(tab[t].at # "landed" /\ Visit(t))
        /\ SF_vars(SignIn(t)) /\ SF_vars(Accept(t))
        /\ SF_vars(Exchange(t))
        /\ SF_vars(Complete(t))
        /\ SF_vars(Admit(t)) /\ SF_vars(Challenge(t))
    /\ <>[][jar[ProtectionCookie] # None =>
              ~Expire(ProtectionCookie)]_vars

\* The login round trip ends: who asks for a page is admitted to one at last,
\* through challenge, sign-in, callback and return, and never sent round in
\* circles.
EveryVisitLands ==
    Cooperative => \A t \in Tabs : tab[t].at = "visiting" ~> tab[t].at = "landed"
=============================================================================
