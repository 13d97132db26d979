------------------------- MODULE ResolutionRegister -------------------------
(***************************************************************************)
(* What the two resolution writers together promise the readers of         *)
(* forecast_resolutions: a contract is unresolved, then perhaps guessed    *)
(* from a weather observation, and from the first official result on it    *)
(* shows a result the exchange published, never a guess again.             *)
(***************************************************************************)
CONSTANTS Tickers, Sides
VARIABLES
  published,   \* the results the exchange has finalized a market with
  register     \* the resolution row of a contract

registerVars == <<published, register>>
Unresolved == [basis |-> "NONE"]
Resolved(basis, side) == [basis |-> basis, side |-> side]
Rows == {Unresolved} \cup
        [basis : {"PROVISIONAL", "CONFIRMED"}, side : Sides]

RegisterInit ==
  /\ published = [t \in Tickers |-> {}]
  /\ register = [t \in Tickers |-> Unresolved]

Publish(t, side) ==
  /\ published' = [published EXCEPT ![t] = @ \cup {side}]
  /\ UNCHANGED register

Guess(t, side) ==
  /\ register[t] = Unresolved
  /\ register' = [register EXCEPT ![t] = Resolved("PROVISIONAL", side)]
  /\ UNCHANGED published

Confirm(t, side) ==
  /\ side \in published[t]
  /\ register' = [register EXCEPT ![t] = Resolved("CONFIRMED", side)]
  /\ UNCHANGED published

RegisterNext == \E t \in Tickers, side \in Sides :
  Publish(t, side) \/ Guess(t, side) \/ Confirm(t, side)

RegisterSpec == RegisterInit /\ [][RegisterNext]_registerVars
=============================================================================
