---------------------------- MODULE MC_Firewall ----------------------------
(* Instances of Firewall for TLC. *)
EXTENDS Firewall

\* every market is known to resolve at the second tick of the second day
MCExpiry == [t \in Tickers |-> 3]
\* resolution_at is not in forecast_contracts: an adopted position
MCExpiryUnknown == [t \in Tickers |-> 0]
MCExpirySoon == [t \in Tickers |-> 1]
MCLoss == {-2}
MCAmounts == {-2, 1}
=============================================================================
