----------------------------- MODULE MC_Alerts -----------------------------
(* Instances of Incidents for TLC. *)
EXTENDS Incidents
=============================================================================
