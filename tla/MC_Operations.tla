--------------------------- MODULE MC_Operations ---------------------------
(***************************************************************************)
(* What runs beside the trading: Release, Incidents, Sentinel and          *)
(* Forecasts, each on small instances.  A behaviour has one focus: only    *)
(* the module in focus moves, and where two kinds of trouble at once would *)
(* merely multiply states the focus admits one of them.                    *)
(***************************************************************************)
EXTENDS Release, Incidents, Sentinel, Forecasts

CONSTANTS p1, p2, f1, f2
VARIABLE focus

vars == <<releaseVars, incidentsVars, sentinelVars, forecastsVars, focus>>

TwoChecks == <<"entries_allowed", "entry_stall">>

Init ==
  /\ ReleaseInit /\ IncidentsInit /\ SentinelInit /\ ForecastsInit
  /\ focus \in {"releases", "conditions", "two syncers", "two incidents", "sentinel",
                "forecasts"}
  /\ answering => focus = "forecasts"

\* deploys and two audits, or conditions that change during an attempt
ReleaseStep(A) ==
  /\ focus \in {"releases", "conditions"} /\ A
  /\ focus = "releases" => bad' \subseteq {"incident"} /\ (bad' # bad => attempt.at = "idle")
  /\ focus = "conditions" => deploys' = 0 /\ audit'[p2].at = "idle"
  /\ UNCHANGED <<incidentsVars, sentinelVars, forecastsVars, focus>>

Mild(f) == recorded'[f] = 0 /\ \A i \in DOMAIN events' :
                                 events'[i].print = f => events'[i].severity = 1
Absent(f) == \A i \in DOMAIN events' : events'[i].print # f
\* two syncers and one incident, or one syncer and two incidents
IncidentsStep(A) ==
  /\ focus \in {"two syncers", "two incidents"} /\ A
  /\ focus = "two syncers" => Mild(f1) /\ Mild(f2) /\ Absent(f2)
  /\ focus = "two incidents" => syncer'[p2].at = "idle" /\ expired' = 0 /\ Mild(f2)
  /\ UNCHANGED <<releaseVars, sentinelVars, forecastsVars, focus>>

SentinelStep(A) ==
  /\ focus = "sentinel" /\ A
  /\ UNCHANGED <<releaseVars, incidentsVars, forecastsVars, focus>>

ForecastsStep(A) ==
  /\ focus = "forecasts" /\ A
  /\ UNCHANGED <<releaseVars, incidentsVars, sentinelVars, focus>>

Next ==
  \/ ReleaseStep(ReleaseNext) \/ IncidentsStep(IncidentsNext) \/ SentinelStep(SentinelNext)
  \/ ForecastsStep(ForecastsNext)

\* a process goes on with its sync, the daemon with its pass, and its threads
\* with their fetches; and Telegram does not fail for ever
Works(p) ==
  \/ IncidentsStep(Sync(p)) \/ (p = p1 /\ SentinelStep(PassStep))
  \/ ForecastsStep(Asks(IF p = p1 THEN "monitor" ELSE "main"))

Spec ==
  /\ Init /\ [][Next]_vars
  /\ WF_vars(Works(p1)) /\ WF_vars(Works(p2))
  /\ WF_vars(SentinelStep(Tick) \/ ForecastsStep(ForecastTick))
  /\ \A k \in Keys : SF_vars(SentinelStep(Sends(k)))

\* the type invariants of the modules
OperationsTypeOK == ReleaseTypeOK /\ IncidentsTypeOK /\ SentinelTypeOK /\ ForecastsTypeOK
=============================================================================
