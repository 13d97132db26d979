--------------------------- MODULE WeightRegister ---------------------------
(***************************************************************************)
(* What the training of challengers, the requests to promote them and the  *)
(* epochs of learning promise whoever reads the weights in production:     *)
(* they are the baseline's until a challenger somebody asked for has been  *)
(* cleared in this epoch and put to use; they change for those of another  *)
(* one in the same way; and only a redeploy brings the baseline's back.    *)
(***************************************************************************)
EXTENDS Naturals

CONSTANTS Candidates, Standard

VARIABLES
  epoch,     \* the learning epoch of this build
  asked,     \* candidates somebody has asked to promote, ever
  cleared,   \* those that were found fit in this epoch
  used       \* whose weights are in production

weightsVars == <<epoch, asked, cleared, used>>

WeightsInit == epoch = 0 /\ asked = {} /\ cleared = {} /\ used = Standard

AskFor(c) ==
  /\ asked' = asked \cup {c}
  /\ UNCHANGED <<epoch, cleared, used>>

Clear(c) ==
  /\ c \in asked /\ cleared' = cleared \cup {c}
  /\ UNCHANGED <<epoch, asked, used>>

PutToUse(c) ==
  /\ c \in cleared /\ used' = c
  /\ UNCHANGED <<epoch, asked, cleared>>

Redeploy ==
  /\ epoch' = epoch + 1 /\ cleared' = {} /\ used' = Standard
  /\ UNCHANGED asked

WeightsNext ==
  \/ \E c \in Candidates : AskFor(c) \/ Clear(c) \/ PutToUse(c)
  \/ Redeploy

WeightsSpec == WeightsInit /\ [][WeightsNext]_weightsVars
=============================================================================
