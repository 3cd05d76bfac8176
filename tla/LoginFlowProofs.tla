--------------------------- MODULE LoginFlowProofs ---------------------------
(***************************************************************************)
(* Proofs about LoginFlow, for any number of tabs and attempts, whatever   *)
(* the names of the cookies.                                               *)
(***************************************************************************)
EXTENDS LoginFlow, TLAPS

\* What keeps an old session from coming back: a token that complete() is about
\* to hand out is spent, is verified in one tab only, and is neither in the jar
\* nor the session some login found there.
Fresh(t) ==
    tab[t].at = "verifying" =>
        /\ tab[t].login \in spent
        /\ tab[t].login # jar[SessionCookie]
        /\ \A u \in Tabs :
            /\ tab[t].login # tab[u].before
            /\ u # t /\ tab[u].at = "verifying" => tab[u].login # tab[t].login

\* The inductive invariant.
Inv ==
    /\ TypeOK
    /\ FailedLoginLeavesNothing
    /\ \A t \in Tabs : tab[t].before \in spent \cup {None}
    /\ \A t \in Tabs : Fresh(t)

-----------------------------------------------------------------------------
USE DEF Value, Tab, LoggingIn, Cookies

\* A browser that has done nothing yet.
LEMMA InitInv == Init => Inv
BY LoginAssumption DEF Init, Inv, TypeOK, Blank, FailedLoginLeavesNothing, Fresh

\* A step that leaves the jar and the token endpoint alone, and whose tabs keep
\* or forget what they carry and only then stop verifying, is harmless.
LEMMA TabStep ==
    ASSUME Inv, tab' \in [Tabs -> Tab], UNCHANGED <<jar, spent>>,
           dead' \in SUBSET spent,
           \A t \in Tabs :
               /\ tab'[t].before # None => \E u \in Tabs : tab'[t].before = tab[u].before
               /\ tab'[t].at = "verifying" =>
                      tab[t].at = "verifying" /\ tab'[t].login = tab[t].login
    PROVE  Inv'
<1>1. TypeOK'
  BY DEF Inv, TypeOK
<1>2. FailedLoginLeavesNothing'
  BY DEF Inv, FailedLoginLeavesNothing
<1>3. \A t \in Tabs : tab'[t].before \in spent' \cup {None}
  BY DEF Inv
<1>4. ASSUME NEW t \in Tabs PROVE Fresh(t)'
  <2>1. SUFFICES ASSUME tab'[t].at = "verifying" PROVE Fresh(t)'
    BY DEF Fresh
  <2>2. tab[t].at = "verifying" /\ tab'[t].login = tab[t].login
    BY <2>1
  <2>3. /\ tab[t].login \in spent
        /\ tab[t].login # jar[SessionCookie]
        /\ \A u \in Tabs :
            /\ tab[t].login # tab[u].before
            /\ u # t /\ tab[u].at = "verifying" => tab[u].login # tab[t].login
    BY <2>2 DEF Inv, Fresh
  <2>4. tab[t].login # None
    BY <2>3, LoginAssumption DEF Inv, TypeOK
  <2>5. \A u \in Tabs : tab[t].login # tab'[u].before
    BY <2>3, <2>4
  <2>6. \A u \in Tabs :
          u # t /\ tab'[u].at = "verifying" => tab'[u].login # tab[t].login
    BY <2>3
  <2> QED
    BY <2>2, <2>3, <2>5, <2>6 DEF Fresh
<1> QED
  BY <1>1, <1>2, <1>3, <1>4 DEF Inv

\* A new attempt takes the session out of the jar, and nothing that is being
\* verified is that session.
LEMMA AuthorizeInv ==
    ASSUME Inv, NEW t \in Tabs, Authorize(t)
    PROVE  Inv'
<1> PICK a \in Attempts :
        /\ Unused(a)
        /\ jar' = [jar EXCEPT ![ProtectionCookie] = a, ![SessionCookie] = None]
        /\ tab' = [tab EXCEPT ![t] =
                     [Blank EXCEPT !.at = "at_idp", !.login = a,
                                   !.before = jar[SessionCookie]]]
        /\ spent' = spent \ {a}
        /\ dead' = dead \ {a}
  BY DEF Authorize, Become
<1>1. /\ jar \in [Cookies -> Value]
      /\ tab \in [Tabs -> Tab]
      /\ jar'[SessionCookie] = None
      /\ jar[SessionCookie] # a
      /\ \A u \in Tabs : a \notin {tab[u].login, tab[u].before}
  BY LoginAssumption DEF Inv, TypeOK, Unused
<1>2. tab'[t] = [at |-> "at_idp", sent |-> None, login |-> a,
                 before |-> jar[SessionCookie]]
  BY <1>1 DEF Blank
<1>3. TypeOK'
  <2>1. jar' \in [Cookies -> Value]
    BY <1>1
  <2>2. tab' \in [Tabs -> Tab]
    <3>1. jar[SessionCookie] \in Value
      BY <1>1
    <3>2. [at |-> "at_idp", sent |-> None, login |-> a,
           before |-> jar[SessionCookie]] \in Tab
      BY <3>1
    <3> QED
      BY <1>1, <1>2, <3>2
  <2> QED
    BY <2>1, <2>2, <1>1 DEF Inv, TypeOK
<1>4. FailedLoginLeavesNothing'
  BY <1>1 DEF FailedLoginLeavesNothing
<1>5. \A u \in Tabs : tab'[u].before \in spent' \cup {None}
  BY <1>1, <1>2 DEF Inv, TypeOK
<1>6. ASSUME NEW u \in Tabs PROVE Fresh(u)'
  BY <1>1, <1>2, LoginAssumption DEF Inv, TypeOK, Fresh
<1> QED
  BY <1>3, <1>4, <1>5, <1>6 DEF Inv

\* Every step of the login keeps the invariant.
LEMMA NextInv == Inv /\ [Next]_vars => Inv'
<1> SUFFICES ASSUME Inv, [Next]_vars PROVE Inv'
  OBVIOUS
<1>t. /\ jar \in [Cookies -> Value]
      /\ tab \in [Tabs -> Tab]
      /\ spent \in SUBSET Attempts
      /\ dead \in SUBSET spent
  BY DEF Inv, TypeOK
<1>1. ASSUME NEW t \in Tabs, Visit(t) PROVE Inv'
  <2>1. jar[ScopeCookie] \in Value
    BY <1>t
  <2> QED
    BY <1>1, <1>t, <2>1, TabStep DEF Visit, Become, Visiting, Blank
<1>2. ASSUME NEW t \in Tabs, Begin(t) PROVE Inv'
  BY <1>2, AuthorizeInv DEF Begin
<1>3. ASSUME NEW t \in Tabs, Served(t) PROVE Inv'
  <2>1. CASE Admit(t)
    BY <2>1, <1>t, TabStep DEF Admit, Become, Blank
  <2>2. CASE Challenge(t)
    BY <2>2, AuthorizeInv DEF Challenge
  <2>3. CASE Unavailable(t)
    BY <2>3, <1>t, TabStep DEF Unavailable, Become, Blank
  <2> QED
    BY <1>3, <2>1, <2>2, <2>3 DEF Served
<1>4. ASSUME NEW t \in Tabs, SignIn(t) \/ Deny(t) \/ Accept(t) \/ Refuse(t) PROVE Inv'
  BY <1>4, <1>t, TabStep DEF SignIn, Deny, Accept, Refuse, Goto
<1>5. ASSUME NEW t \in Tabs, Exchange(t) PROVE Inv'
  <2>1. /\ tab' = [tab EXCEPT ![t].at = "verifying"]
        /\ spent' = spent \cup {tab[t].login}
        /\ tab[t].at = "exchanging" /\ tab[t].login \notin spent
        /\ UNCHANGED <<jar, dead>>
    BY <1>5 DEF Exchange, Goto
  <2>2. tab[t].login \in Attempts /\ tab'[t] = [tab[t] EXCEPT !.at = "verifying"]
    BY <2>1, <1>t
  <2>3. TypeOK'
    BY <2>1, <2>2, <1>t DEF Inv, TypeOK
  <2>4. \A u \in Tabs : tab'[u].before = tab[u].before /\ tab'[u].login = tab[u].login
    BY <2>1, <2>2, <1>t
  <2>5. ASSUME NEW u \in Tabs PROVE Fresh(u)'
    BY <2>1, <2>2, <2>4, <1>t, LoginAssumption DEF Inv, TypeOK, Fresh
  <2> QED
    BY <2>1, <2>3, <2>4, <2>5 DEF Inv, FailedLoginLeavesNothing
<1>6. ASSUME NEW t \in Tabs, ExchangeFails(t) PROVE Inv'
  <2>1. /\ tab' = [tab EXCEPT ![t].at = "failed"]
        /\ spent \subseteq spent' /\ spent' \subseteq Attempts
        /\ UNCHANGED <<jar, dead>>
    BY <1>6, <1>t DEF ExchangeFails, Goto
  <2>2. tab' \in [Tabs -> Tab]
    BY <1>6, <2>1, <1>t DEF ExchangeFails
  <2>3. \A u \in Tabs :
          /\ tab'[u].before = tab[u].before /\ tab'[u].login = tab[u].login
          /\ tab'[u].at = "verifying" => tab[u].at = "verifying"
    BY <2>1, <1>t
  <2> QED
    BY <2>1, <2>2, <2>3, <1>t DEF Inv, TypeOK, FailedLoginLeavesNothing, Fresh
<1>7. ASSUME NEW t \in Tabs, Complete(t) PROVE Inv'
  <2>1. /\ tab[t].at = "verifying"
        /\ jar' = [jar EXCEPT ![SessionCookie] = tab[t].login,
                              ![ProtectionCookie] = None]
        /\ tab' = [tab EXCEPT ![t] = Visiting(jar'[ScopeCookie])]
        /\ UNCHANGED <<spent, dead>>
    BY <1>7 DEF Complete, Become
  <2>2. /\ jar'[SessionCookie] = tab[t].login
        /\ jar' \in [Cookies -> Value]
        /\ jar'[ScopeCookie] \in Value
    BY <2>1, <1>t, LoginAssumption
  <2>3. tab'[t] = [at |-> "visiting", sent |-> jar'[ScopeCookie],
                   login |-> None, before |-> None]
    BY <2>1, <1>t DEF Visiting, Blank
  <2>4. \A u \in Tabs \ {t} : tab'[u] = tab[u]
    BY <2>1, <1>t
  <2>5. TypeOK'
    <3>1. tab[t].login \in spent
      BY <2>1 DEF Inv, Fresh
    <3>2. tab' \in [Tabs -> Tab]
      <4>1. tab'[t] \in Tab
        BY <2>2, <2>3
      <4> QED
        BY <2>1, <1>t, <4>1
    <3> QED
      BY <2>1, <2>2, <3>1, <3>2, <1>t DEF Inv, TypeOK
  <2>6. FailedLoginLeavesNothing'
    BY <2>1, <2>2, <2>3, <2>4 DEF Inv, FailedLoginLeavesNothing, Fresh
  <2>7. ASSUME NEW u \in Tabs PROVE Fresh(u)'
    BY <2>1, <2>2, <2>3, <2>4, <1>t, LoginAssumption DEF Inv, TypeOK, Fresh
  <2>8. \A u \in Tabs : tab'[u].before \in spent' \cup {None}
    <3>1. \A u \in Tabs : tab[u].before \in spent \cup {None}
      BY DEF Inv
    <3>2. tab'[t].before = None /\ spent' = spent
      BY <2>1, <2>3
    <3> QED
      BY <2>4, <3>1, <3>2
  <2> QED
    BY <2>5, <2>6, <2>7, <2>8 DEF Inv
<1>8. ASSUME NEW t \in Tabs, VerifyFails(t) PROVE Inv'
  BY <1>8, <1>t, TabStep DEF VerifyFails, Goto
<1>9. ASSUME NEW t \in Tabs, NEW u \in Tabs, Replay(t, u) PROVE Inv'
  BY <1>9, <1>t, TabStep DEF Replay, Become
<1>10. ASSUME NEW c \in Cookies, Expire(c) PROVE Inv'
  BY <1>10, LoginAssumption
  DEF Expire, Inv, TypeOK, FailedLoginLeavesNothing, Fresh
<1>11. ASSUME NEW a \in Attempts, Lapse(a) PROVE Inv'
  BY <1>11, <1>t, TabStep DEF Lapse
<1>12. CASE UNCHANGED vars
  BY <1>12 DEF vars, Inv, TypeOK, FailedLoginLeavesNothing, Fresh
<1> QED
  BY <1>1, <1>2, <1>3, <1>4, <1>5, <1>6, <1>7, <1>8, <1>9, <1>10, <1>11, <1>12
  DEF Next, Exchanged, Verified

-----------------------------------------------------------------------------
\* So it always holds.
LEMMA SpecInv == Spec => []Inv
BY InitInv, NextInv, PTL DEF Spec

\* The jar, the tabs and the token endpoint keep their types, and no session
\* cookie holds a token the endpoint did not give out.
THEOREM LoginTypeCorrect == Spec => []TypeOK
<1>1. Inv => TypeOK
  BY DEF Inv
<1> QED
  BY <1>1, SpecInv, PTL

\* The comment in authorize() is right: however many tabs log in at once, a
\* login never ends, or fails, with the session it began with.
THEOREM LoginLeavesNothing == Spec => []FailedLoginLeavesNothing
<1>1. Inv => FailedLoginLeavesNothing
  BY DEF Inv
<1> QED
  BY <1>1, SpecInv, PTL

\* So is the one in complete(): the secrets are never in the jar together with
\* the session they earned.
THEOREM LoginSecretsDie == Spec => []SecretsDieWithLogin
<1>1. Init => SecretsDieWithLogin
  BY DEF Init, SecretsDieWithLogin
<1>2. Inv /\ SecretsDieWithLogin /\ [Next]_vars => SecretsDieWithLogin'
  <2> SUFFICES ASSUME Inv, SecretsDieWithLogin, [Next]_vars
               PROVE  SecretsDieWithLogin'
    OBVIOUS
  <2>t. jar \in [Cookies -> Value]
    BY DEF Inv, TypeOK
  <2>1. ASSUME NEW t \in Tabs, Authorize(t) PROVE SecretsDieWithLogin'
    BY <2>1, <2>t, LoginAssumption DEF Authorize, SecretsDieWithLogin
  <2>2. ASSUME NEW t \in Tabs, Complete(t) PROVE SecretsDieWithLogin'
    BY <2>2, <2>t, LoginAssumption DEF Complete, Inv, TypeOK, SecretsDieWithLogin
  <2>3. ASSUME NEW c \in Cookies, Expire(c) PROVE SecretsDieWithLogin'
    BY <2>3, <2>t, LoginAssumption DEF Expire, SecretsDieWithLogin
  <2>4. ASSUME UNCHANGED jar PROVE SecretsDieWithLogin'
    BY <2>4 DEF SecretsDieWithLogin
  <2> QED
    BY <2>1, <2>2, <2>3, <2>4
    DEF Next, vars, Visit, Begin, Served, Admit, Challenge, Unavailable, SignIn, Deny,
        Accept, Refuse, Exchanged, Exchange, ExchangeFails, Verified, VerifyFails,
        Replay, Lapse
<1> QED
  BY <1>1, <1>2, SpecInv, PTL DEF Spec
-----------------------------------------------------------------------------
\* An attempt is at one stage of its life: the session and what is being verified
\* have been redeemed, and nothing is both.
LEMMA OneStage ==
    ASSUME Inv, NEW a \in Attempts
    PROVE  /\ jar[SessionCookie] = a => a \in spent /\ ~Verifying(a)
           /\ Verifying(a) => a \in spent
  BY LoginAssumption DEF Inv, TypeOK, Fresh, Verifying

\* Moves that change neither the session, nor what has been redeemed, nor what is
\* being verified are none of SessionLife's.
LEMMA LifeKept ==
    ASSUME jar'[SessionCookie] = jar[SessionCookie], spent' = spent,
           \A a \in Attempts : Verifying(a)' = Verifying(a)
    PROVE  UNCHANGED [a \in Attempts |-> Life(a)]
  BY DEF Life

\* A tab that changes without verifying before or after changes nothing that is
\* being verified.
LEMMA TabVerifies ==
    ASSUME tab \in [Tabs -> Tab], NEW t \in Tabs, NEW state,
           tab' = [tab EXCEPT ![t] = state], NEW a \in Attempts
    PROVE  /\ tab'[t] = state
           /\ tab[t].at # "verifying" /\ state.at # "verifying" =>
                  Verifying(a)' = Verifying(a)
           /\ a # tab[t].login /\ state.at # "verifying" =>
                  Verifying(a)' = Verifying(a)
  BY DEF Verifying

\* A tab that stops verifying was the only one to verify its attempt.
LEMMA StopsVerifying ==
    ASSUME Inv, NEW t \in Tabs, tab[t].at = "verifying",
           NEW state, state.at # "verifying", tab' = [tab EXCEPT ![t] = state],
           NEW a, a = tab[t].login
    PROVE  ~Verifying(a)'
  BY DEF Inv, TypeOK, Fresh, Verifying

\* A token nobody waits for any longer is never the session.
LEMMA DropStep ==
    ASSUME Inv, NEW t \in Tabs, tab[t].at = "verifying", UNCHANGED <<jar, spent>>,
           NEW state, state.at # "verifying", tab' = [tab EXCEPT ![t] = state]
    PROVE  \E a \in Attempts : Session!Drop(a)
<1>t. tab \in [Tabs -> Tab]
  BY DEF Inv, TypeOK
<1>1. PICK a \in Attempts : a = tab[t].login /\ Verifying(a)
  BY <1>t DEF Verifying
<1>2. Life(a) = "verifying" /\ Life(a)' = "over"
  BY <1>1, OneStage, StopsVerifying DEF Life
<1>v. \A b \in Attempts \ {a} : Verifying(b)' = Verifying(b)
  BY <1>t, <1>1, TabVerifies
<1>3. \A b \in Attempts \ {a} : Life(b)' = Life(b)
  BY <1>v DEF Life
<1>4. Session!Drop(a)
  BY <1>2, <1>3 DEF Session!Drop, Session!Move
<1> QED BY <1>4

\* A new login ends the session there is.
LEMMA StartStep ==
    ASSUME Inv, NEW t \in Tabs, Authorize(t), tab[t].at # "verifying"
    PROVE  \E a \in Attempts : Session!Start(a)
<1>1. PICK a \in Attempts :
        /\ Unused(a)
        /\ jar' = [jar EXCEPT ![ProtectionCookie] = a, ![SessionCookie] = None]
        /\ tab' = [tab EXCEPT ![t] =
                     [Blank EXCEPT !.at = "at_idp", !.login = a,
                                   !.before = jar[SessionCookie]]]
        /\ spent' = spent \ {a}
  BY DEF Authorize, Become
<1>t. jar \in [Cookies -> Value] /\ tab \in [Tabs -> Tab]
  BY DEF Inv, TypeOK
<1>2. /\ jar'[SessionCookie] = None
      /\ jar[SessionCookie] # a
      /\ \A u \in Tabs : tab[u].login # a
  BY <1>1, <1>t, LoginAssumption DEF Unused
<1>p. PICK state : state.at = "at_idp" /\ tab' = [tab EXCEPT ![t] = state]
  BY <1>1 DEF Blank
<1>3. \A b \in Attempts : Verifying(b)' = Verifying(b)
  BY <1>p, <1>t, TabVerifies
<1>4. ~Verifying(a)
  BY <1>2 DEF Verifying
<1>5. Life(a) \in {"unspent", "over"} /\ Life(a)' = "unspent"
  BY <1>1, <1>2, <1>4, LoginAssumption DEF Life
<1>6. \A b \in Attempts \ {a} :
        Life(b)' = IF Life(b) = "session" THEN "over" ELSE Life(b)
  BY <1>1, <1>2, <1>3, OneStage, LoginAssumption DEF Life
<1>7. Session!Start(a)
  BY <1>5, <1>6 DEF Session!Start, Session!Supersede
<1> QED BY <1>7

\* A code that has been redeemed cannot be redeemed again.
LEMMA RedeemStep ==
    ASSUME Inv, NEW t \in Tabs, Exchange(t)
    PROVE  \E a \in Attempts : Session!Redeem(a)
<1>t. tab \in [Tabs -> Tab]
  BY DEF Inv, TypeOK
<1>0. PICK a \in Attempts : a = tab[t].login
  BY <1>t DEF Exchange
<1>1. /\ a \notin spent
      /\ spent' = spent \cup {a} /\ jar' = jar
      /\ \A u \in Tabs : tab'[u].login = tab[u].login
      /\ \A u \in Tabs : tab'[u].at = IF u = t THEN "verifying" ELSE tab[u].at
  BY <1>0, <1>t DEF Exchange, Goto
<1>2. Verifying(a)' /\ \A b \in Attempts \ {a} : Verifying(b)' = Verifying(b)
  BY <1>0, <1>1 DEF Verifying
<1>3. jar[SessionCookie] # a
  BY <1>1, OneStage
<1>4. Life(a) = "unspent" /\ Life(a)' = "verifying"
  BY <1>1, <1>2, <1>3 DEF Life
<1>5. \A b \in Attempts \ {a} : Life(b)' = Life(b)
  BY <1>1, <1>2 DEF Life
<1>6. Session!Redeem(a)
  BY <1>4, <1>5 DEF Session!Redeem, Session!Move
<1> QED BY <1>6

\* One that was spent for nothing is spent.
LEMMA BurnStep ==
    ASSUME Inv, NEW t \in Tabs, ExchangeFails(t)
    PROVE  \/ UNCHANGED [a \in Attempts |-> Life(a)]
           \/ \E a \in Attempts : Session!Burn(a)
<1>t. tab \in [Tabs -> Tab]
  BY DEF Inv, TypeOK
<1>0. PICK a \in Attempts : a = tab[t].login
  BY <1>t DEF ExchangeFails
<1>1. /\ jar' = jar
      /\ spent' \in {spent, spent \cup {a}}
      /\ \A u \in Tabs : tab'[u].login = tab[u].login
      /\ \A u \in Tabs : tab'[u].at = IF u = t THEN "failed" ELSE tab[u].at
      /\ tab[t].at = "exchanging"
  BY <1>0, <1>t DEF ExchangeFails, Goto
<1>2. \A b \in Attempts : Verifying(b)' = Verifying(b)
  BY <1>1 DEF Verifying
<1>3. CASE spent' = spent
  BY <1>1, <1>2, <1>3, LifeKept
<1>4. CASE spent' = spent \cup {a} /\ a \notin spent
  <2>1. jar[SessionCookie] # a /\ ~Verifying(a)
    BY <1>1, <1>4, OneStage
  <2>2. Life(a) = "unspent" /\ Life(a)' = "over"
    BY <1>1, <1>2, <1>4, <2>1 DEF Life
  <2>3. \A b \in Attempts \ {a} : Life(b)' = Life(b)
    BY <1>1, <1>2, <1>4 DEF Life
  <2>4. Session!Burn(a)
    BY <2>2, <2>3 DEF Session!Burn, Session!Move
  <2> QED BY <2>4
<1> QED BY <1>1, <1>3, <1>4

\* The token that is verified becomes the session, and the one before is over.
LEMMA EarnStep ==
    ASSUME Inv, NEW t \in Tabs, Complete(t)
    PROVE  \E a \in Attempts : Session!Earn(a)
<1> DEFINE landing == Visiting(jar'[ScopeCookie])
<1>t. jar \in [Cookies -> Value] /\ tab \in [Tabs -> Tab]
  BY DEF Inv, TypeOK
<1>0. PICK a \in Attempts : a = tab[t].login /\ Verifying(a)
  BY <1>t DEF Complete, Verifying
<1>1. /\ tab[t].at = "verifying"
      /\ jar'[SessionCookie] = a /\ spent' = spent
      /\ tab' = [tab EXCEPT ![t] = landing]
      /\ landing.at # "verifying"
  BY <1>0, <1>t, LoginAssumption DEF Complete, Become, Visiting, Blank
<1>2. \A b \in Attempts \ {a} : Verifying(b)' = Verifying(b)
  BY <1>0, <1>1, <1>t, TabVerifies
<1>3. Life(a) = "verifying" /\ Life(a)' = "session"
  BY <1>0, <1>1, OneStage DEF Life
<1>4. \A b \in Attempts \ {a} :
        Life(b)' = IF Life(b) = "session" THEN "over" ELSE Life(b)
  BY <1>1, <1>2, OneStage DEF Life
<1>5. Session!Earn(a)
  BY <1>3, <1>4 DEF Session!Earn, Session!Supersede
<1> QED BY <1>5

\* A cookie that reaches its max_age ends a session, or is none.
LEMMA ClearStep ==
    ASSUME Inv, NEW c \in Cookies, Expire(c)
    PROVE  \/ UNCHANGED [a \in Attempts |-> Life(a)]
           \/ \E a \in Attempts : Session!Clear(a)
<1>t. jar \in [Cookies -> Value]
  BY DEF Inv, TypeOK
<1>1. spent' = spent /\ \A b \in Attempts : Verifying(b)' = Verifying(b)
  BY DEF Expire, Verifying
<1>2. CASE c # SessionCookie
  BY <1>1, <1>2, <1>t, LifeKept DEF Expire
<1>3. CASE c = SessionCookie
  <2>1. PICK a \in Attempts : a = jar[SessionCookie] /\ jar'[SessionCookie] = None
    BY <1>3, <1>t DEF Expire
  <2>2. Life(a) = "session" /\ Life(a)' = "over"
    BY <1>1, <2>1, OneStage, LoginAssumption DEF Life
  <2>3. \A b \in Attempts \ {a} : Life(b)' = Life(b)
    BY <1>1, <2>1, LoginAssumption DEF Life
  <2>4. Session!Clear(a)
    BY <2>2, <2>3 DEF Session!Clear, Session!Move
  <2> QED BY <2>4
<1> QED BY <1>2, <1>3

\* Every step of the login is one of SessionLife, or none.
LEMMA LifeSteps == Inv /\ [Next]_vars => [Session!LNext]_[a \in Attempts |-> Life(a)]
<1> SUFFICES ASSUME Inv, [Next]_vars
             PROVE  [Session!LNext]_[a \in Attempts |-> Life(a)]
  OBVIOUS
<1> USE DEF Session!LNext
<1>t. tab \in [Tabs -> Tab]
  BY DEF Inv, TypeOK
\* A step of a tab that is not verifying and does not begin to.
<1>0. ASSUME NEW t \in Tabs, NEW state, tab[t].at # "verifying",
             state.at # "verifying", tab' = [tab EXCEPT ![t] = state],
             UNCHANGED <<jar, spent>>
      PROVE  UNCHANGED [a \in Attempts |-> Life(a)]
  BY <1>0, <1>t, TabVerifies, LifeKept
<1>1. ASSUME NEW t \in Tabs, Visit(t)
      PROVE  [Session!LNext]_[a \in Attempts |-> Life(a)]
  <2> DEFINE state == Visiting(jar[ScopeCookie])
  <2>1. state.at # "verifying" /\ tab' = [tab EXCEPT ![t] = state]
        /\ UNCHANGED <<jar, spent>>
    BY <1>1 DEF Visit, Become, Visiting, Blank
  <2>2. CASE tab[t].at = "verifying"
    BY <2>1, <2>2, DropStep
  <2>3. CASE tab[t].at # "verifying"
    BY <1>0, <2>1, <2>3
  <2> QED BY <2>2, <2>3
<1>2. ASSUME NEW t \in Tabs, Begin(t)
      PROVE  Session!LNext
  BY <1>2, StartStep DEF Begin
<1>3. ASSUME NEW t \in Tabs, Admit(t) \/ Unavailable(t)
      PROVE  UNCHANGED [a \in Attempts |-> Life(a)]
  BY <1>3, <1>0 DEF Admit, Unavailable, Become, Blank
<1>4. ASSUME NEW t \in Tabs, Challenge(t)
      PROVE  Session!LNext
  BY <1>4, StartStep DEF Challenge
<1>5. ASSUME NEW t \in Tabs, SignIn(t) \/ Deny(t) \/ Accept(t) \/ Refuse(t)
      PROVE  UNCHANGED [a \in Attempts |-> Life(a)]
  <2>1. PICK place \in {"returned", "denied", "exchanging", "failed"} :
          tab' = [tab EXCEPT ![t] = [tab[t] EXCEPT !.at = place]]
    BY <1>5 DEF SignIn, Deny, Accept, Refuse, Goto
  <2>2. [tab[t] EXCEPT !.at = place].at # "verifying"
    BY <1>t
  <2> QED BY <1>5, <1>0, <2>1, <2>2 DEF SignIn, Deny, Accept, Refuse
<1>6. ASSUME NEW t \in Tabs, Exchanged(t)
      PROVE  [Session!LNext]_[a \in Attempts |-> Life(a)]
  BY <1>6, RedeemStep, BurnStep DEF Exchanged
<1>7. ASSUME NEW t \in Tabs, Complete(t)
      PROVE  Session!LNext
  BY <1>7, EarnStep
<1>8. ASSUME NEW t \in Tabs, VerifyFails(t)
      PROVE  Session!LNext
  <2> DEFINE state == [tab[t] EXCEPT !.at = "failed"]
  <2>1. state.at # "verifying"
    BY <1>8, <1>t DEF VerifyFails
  <2> QED BY <1>8, <2>1, DropStep DEF VerifyFails, Goto
<1>9. ASSUME NEW t \in Tabs, NEW u \in Tabs, Replay(t, u)
      PROVE  UNCHANGED [a \in Attempts |-> Life(a)]
  <2> DEFINE state == [tab[t] EXCEPT !.at = "returned"]
  <2>1. state.at # "verifying" /\ tab[u].at # "verifying"
    BY <1>9, <1>t DEF Replay
  <2> QED BY <1>9, <1>0, <2>1 DEF Replay, Become
<1>10. ASSUME NEW c \in Cookies, Expire(c)
       PROVE  [Session!LNext]_[a \in Attempts |-> Life(a)]
  BY <1>10, ClearStep
<1>11. ASSUME NEW a \in Attempts, Lapse(a)
       PROVE  UNCHANGED [b \in Attempts |-> Life(b)]
  BY <1>11, LifeKept DEF Lapse, Verifying
<1>12. CASE UNCHANGED vars
  BY <1>12, LifeKept DEF vars, Verifying
<1> QED
  BY <1>1, <1>2, <1>3, <1>4, <1>5, <1>6, <1>7, <1>8, <1>9, <1>10, <1>11, <1>12
  DEF Next, Served, Verified

\* However many tabs, replays, lost answers and logins at once: a code is redeemed
\* once, its token becomes the session at most once, there is one session, and one
\* that is over never comes back.
THEOREM LoginOnce == Spec => SessionOnce
<1>1. Init => Session!LInit
  BY LoginAssumption DEF Init, Session!LInit, Life
<1> QED
  BY <1>1, LifeSteps, SpecInv, PTL DEF Spec, SessionOnce, Session!LSpec
=============================================================================
