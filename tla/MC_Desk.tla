------------------------------ MODULE MC_Desk ------------------------------
(***************************************************************************)
(* What decides whether a desk trades and how much, each on a small        *)
(* instance: its halts (Firewall), the lane's row and the release gate     *)
(* (Readiness), the tuned parameters (Tuning), and the strategy engine's   *)
(* choice on one market (Admission).  A behaviour has one focus: only the  *)
(* module in focus moves.                                                  *)
(***************************************************************************)
EXTENDS Firewall, Readiness, Tuning, Admission

CONSTANTS daemon, hourly, daily
VARIABLE focus

otherVars == <<readinessVars, tuningVars, admissionVars>>
deskVars == <<vars, otherVars, focus>>

-----------------------------------------------------------------------------
(* Instances.                                                              *)

\* every market is known to resolve at the second tick of the second day
MCExpiry == [t \in Tickers |-> 3]
MCAmounts == {-2, 1}
MCLimit == [s \in Series |-> 1]

\* an afternoon's market, and all that may be said of it
Plain ==
  [yes |-> 50, no |-> 52, gfs |-> 80, ecmwf |-> 80, blend |-> 80, mode |-> "HIGH", bin |-> FALSE,
   projected |-> TRUE, headroom |-> 3, spread |-> 2, minutes |-> 300, depth |-> 10, room |-> 500,
   certainty |-> 100, sameEvent |-> FALSE, proven |-> FALSE, trouble |-> "none"]
Cold == [Plain EXCEPT !.yes = 42, !.no = 62, !.gfs = 15, !.ecmwf = 15, !.blend = 15, !.headroom = -3]

\* prices of both sides against the probability
Priced ==
  {[Plain EXCEPT !.yes = yes, !.no = no, !.gfs = q, !.ecmwf = q, !.blend = q, !.mode = mode,
                 !.headroom = IF q >= 50 THEN 3 ELSE -3] :
     yes \in {0, 15, 30, 50, 72, 86}, no \in {0, 15, 30, 52, 72}, q \in {5, 24, 65, 97},
     mode \in {"HIGH", "TEMP"}}
\* what decides the size
Dimensioned ==
  {[Plain EXCEPT !.yes = yes, !.gfs = q, !.ecmwf = q, !.blend = q, !.depth = depth, !.room = room,
                 !.certainty = certainty, !.proven = proven] :
     yes \in {34, 41, 58}, q \in {75, 92, 99}, depth \in {0, 3, 15}, room \in {40, 2000},
     certainty \in {30, 130}, proven \in BOOLEAN}
\* models that differ, and one thing that stands against an entry
Divided ==
  {[Plain EXCEPT !.gfs = gfs, !.ecmwf = 95, !.blend = blend] :
     gfs \in {20, 30, 60, 80}, blend \in {60, 95}}
Troubled ==
  {[m EXCEPT !.trouble = trouble] : m \in {Plain, Cold},
     trouble \in {"blacklisted", "no forecast", "ambiguous", "chaos", "cooling", "held", "deployed",
                  "crowded", "stale forecast", "stale quotes", "foreign"}}
  \cup UNION {{[m EXCEPT !.minutes = 30], [m EXCEPT !.minutes = 9000], [m EXCEPT !.spread = 15],
               [m EXCEPT !.spread = 25], [m EXCEPT !.headroom = 0], [m EXCEPT !.bin = TRUE],
               [m EXCEPT !.projected = FALSE], [m EXCEPT !.sameEvent = TRUE], [m EXCEPT !.room = 0]} :
                m \in {Plain, Cold, [Plain EXCEPT !.mode = "TEMP"]}}
MCTurns == {Plain, Cold}
MCMarkets == MCTurns \cup Priced \cup Dimensioned \cup Divided \cup Troubled

-----------------------------------------------------------------------------
Foci == {"firewall", "gate", "lane", "promotion", "tuning", "market"}

DeskInit ==
  /\ Init /\ ReadinessInit /\ TuningInit /\ AdmissionInit
  /\ focus \in Foci
  /\ market # Plain => focus = "market"
  /\ (\A p \in Traders : target[p] = CHOOSE t \in Tickers : TRUE) \/ focus = "firewall"

\* from the second fill on, the watchdog asks no more
FirewallStep ==
  /\ focus = "firewall" /\ Next
  /\ orders' > 1 => \A w \in Watchers : pc'[w] = "idle"
  /\ UNCHANGED <<otherVars, focus>>

\* entries in a cycle after an audit; or the row alone, with a loop that may end;
\* or promotions while the loop rests
ReadinessStep ==
  /\ focus \in {"gate", "lane", "promotion"} /\ ReadinessNext
  /\ focus = "gate" =>
       /\ promotion' = promotion /\ row'.shows \in {"UNKNOWN", "OPERATIONAL"}
       /\ \A p \in Loops : loop'[p].at # "dead" /\ (audits' # audits => loop[p].at = "idle")
  /\ focus = "lane" => audits' = audits /\ moves' = moves
  /\ focus = "promotion" => loop' = loop
  /\ UNCHANGED <<vars, tuningVars, admissionVars, focus>>

\* what happens after a write was lost or failed is of no interest
TuningStep ==
  /\ focus = "tuning" /\ TuningNext
  /\ apart \/ soak.at # "idle"
  /\ UNCHANGED <<vars, readinessVars, admissionVars, focus>>

MarketStep ==
  /\ focus = "market" /\ AdmissionNext
  /\ UNCHANGED <<vars, readinessVars, tuningVars, focus>>


\* the tuning is over once a write was lost or all of its bounds are reached
TuningEnds == focus = "tuning" /\ (apart => Len(mutations) = MaxMutations) /\ UNCHANGED deskVars

DeskNext == FirewallStep \/ ReadinessStep \/ TuningStep \/ MarketStep \/ TuningEnds
DeskSpec == DeskInit /\ [][DeskNext]_deskVars

\* the type invariants of the modules; those out of focus stand still
DeskTypeOK ==
  /\ focus = "firewall" => TypeOK
  /\ focus \in {"gate", "lane", "promotion"} => ReadinessTypeOK
  /\ focus = "tuning" => TuningTypeOK
  /\ focus = "market" => AdmissionTypeOK

\* What the lane's row and the gate say is so: the gate's refusals have their
\* reason, and a promoted build has passed where it runs.
LaneIsShownAsItIs == RefusalsAreGrounded /\ []PromotionIsHosted

\* The log of mutations tells what is in force, and a soak pass takes back all of it.
TuningIsLogged == [](\A k \in Keys : LogTellsValue(k)) /\ PassRestores

\* What is chosen on a market is worth its price; the market of another focus
\* stands still.
MarketChoicesAreSound == focus = "market" => ChoicesAreSound
=============================================================================
