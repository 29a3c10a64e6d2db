------------------------------ MODULE SignIns -------------------------------
(***************************************************************************)
(* What refresh tokens promise: a sign-in has one current refresh token;   *)
(* exchanging it makes another one current; a sign-in that is over stays   *)
(* over, and no token is ever current twice.  Any number of sign-ins can   *)
(* end in a step (a password change ends all of a user's and starts one).  *)
(***************************************************************************)
EXTENDS Naturals

CONSTANT Ids   \* tokens, 0 not among them; a sign-in is named by its first one

VARIABLES
  current,  \* the refresh token of each sign-in that works, 0 when there is none
  taken     \* the tokens ever issued

Live == {f \in Ids : current[f] # 0}

\* The table once the sign-ins `over` ended and sign-in f has token t.
With(over, f, t) ==
  [g \in Ids |-> IF g = f THEN t ELSE IF g \in over THEN 0 ELSE current[g]]

SignIn(over, t) ==
  /\ t \notin taken
  /\ current' = With(over, t, t)
  /\ taken' = taken \cup {t}

Exchange(over, f, t) ==
  /\ f \in Live \ over
  /\ t \notin taken
  /\ current' = With(over, f, t)
  /\ taken' = taken \cup {t}

End(over) ==
  /\ current' = [g \in Ids |-> IF g \in over THEN 0 ELSE current[g]]
  /\ UNCHANGED taken

Init == current = [f \in Ids |-> 0] /\ taken = {}

Next ==
  \E over \in SUBSET Live :
    \/ \E t \in Ids : SignIn(over, t)
    \/ \E f, t \in Ids : Exchange(over, f, t)
    \/ End(over)

Spec == Init /\ [][Next]_<<current, taken>>
=============================================================================
