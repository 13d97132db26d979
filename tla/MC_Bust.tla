------------------------------ MODULE MC_Bust ------------------------------
(* An instance of Watermarks for TLC.                                      *)
EXTENDS Watermarks
=============================================================================
