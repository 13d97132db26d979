---------------------------- MODULE SingleFlight ----------------------------
(***************************************************************************)
(* What the slot of a provider promises whoever asks for a forecast: one   *)
(* thread at a time asks the provider, and after one that failed nobody    *)
(* does for a while.  No cache, no lock and no waiting: a thread that may  *)
(* not ask does nothing.                                                   *)
(***************************************************************************)
EXTENDS Naturals

CONSTANTS
  Threads,   \* those that ask
  Pause      \* ticks that nobody asks after a failure

VARIABLES
  flying,    \* the threads that are asking
  since,     \* ticks since somebody's request failed, as far as Pause
  restarts   \* processes there were before this one

flightVars == <<flying, since, restarts>>

FlightInit == flying = {} /\ since = Pause /\ restarts = 0

TakesOff(t) ==
  /\ flying = {} /\ since = Pause
  /\ flying' = {t}
  /\ UNCHANGED <<since, restarts>>

Fails(t) ==
  /\ t \in flying /\ since' = 0
  /\ UNCHANGED <<flying, restarts>>

Lands(t) ==
  /\ t \in flying /\ flying' = flying \ {t}
  /\ UNCHANGED <<since, restarts>>

TimePasses ==
  /\ since < Pause /\ since' = since + 1
  /\ UNCHANGED <<flying, restarts>>

\* a new process has asked nobody
StartsAnew ==
  /\ flying' = {} /\ since' = Pause /\ restarts' = restarts + 1

FlightNext ==
  \/ \E t \in Threads : TakesOff(t) \/ Fails(t) \/ Lands(t)
  \/ TimePasses \/ StartsAnew

FlightSpec == FlightInit /\ [][FlightNext]_flightVars
=============================================================================
