----------------------------- MODULE SessionLife -----------------------------
(***************************************************************************)
(* What becomes of a login attempt, with no cookies, tabs or callbacks:    *)
(* its code is good once; what the code earned becomes the session at most *)
(* once; there is one session at a time, and one that has been replaced,   *)
(* cleared or superseded by another login never comes back.  LoginFlow     *)
(* implements it.                                                          *)
(***************************************************************************)
CONSTANT Attempts

VARIABLE life   \* how far each attempt has come

\* unspent: its code has not been redeemed; verifying: its ID token is being
\* looked at; session: it is the user's session; over: nothing can come of it.
Lives == {"unspent", "verifying", "session", "over"}

LInit == life = [a \in Attempts |-> "unspent"]

\* a moves on, and whatever session there was is over.
Supersede(a, to) ==
    life' = [b \in Attempts |->
                IF b = a THEN to
                ELSE IF life[b] = "session" THEN "over"
                ELSE life[b]]

Move(a, to) == life' = [life EXCEPT ![a] = to]

\* A new login, under a name nothing refers to, ends the session there is.
Start(a) == life[a] \in {"unspent", "over"} /\ Supersede(a, "unspent")

\* The code is taken, and its ID token comes back, or does not.
Redeem(a) == life[a] = "unspent" /\ Move(a, "verifying")
Burn(a) == life[a] = "unspent" /\ Move(a, "over")

\* Verification fails, or nobody waits for it any longer.
Drop(a) == life[a] = "verifying" /\ Move(a, "over")

\* The token has been verified: it is the session.
Earn(a) == life[a] = "verifying" /\ Supersede(a, "session")

\* The session cookie goes.
Clear(a) == life[a] = "session" /\ Move(a, "over")

LNext ==
    \E a \in Attempts :
        Start(a) \/ Redeem(a) \/ Burn(a) \/ Drop(a) \/ Earn(a) \/ Clear(a)

LSpec == LInit /\ [][LNext]_life
=============================================================================
