---------------------------- MODULE MC_Learning ----------------------------
(***************************************************************************)
(* Which markets the system knows of, what it learns from them and how     *)
(* that comes to be used: Universe, Outcomes, Cerebro and Promotion, each  *)
(* on small instances.  A behaviour has one focus: only the module in      *)
(* focus moves, and where two kinds of trouble at once would merely        *)
(* multiply states the focus admits one of them.                           *)
(***************************************************************************)
EXTENDS Universe, Outcomes, Cerebro, Promotion

CONSTANTS p1, p2, t1, t2, m2
VARIABLE focus

vars == <<universeVars, outcomesVars, cerebroVars, promotionVars, focus>>

\* t2 never finalizes, and closes first
VoidClosesFirst == [t \in Tickers |-> IF t = t2 THEN 1 ELSE 2]

\* two markets of one event, and a market of another
MCEventOf == <<1, 1, 2>>

Init ==
  /\ UniverseInit /\ OutcomesInit /\ CerebroInit /\ PromotionInit
  /\ focus \in {"two scanners", "slips", "hours",
                "outcomes", "queue", "race", "sessions", "redeploys"}
  /\ \A m \in Listings : closeAt[m] # 1 => m = 1 /\ focus = "hours"

\* two processes and an early close; or one process, and faults, or the clock
UniverseStep(A) ==
  /\ focus \in {"two scanners", "slips", "hours"} /\ A
  /\ focus # "two scanners" => pass'[p2] = NoPass
  /\ focus # "slips" => slips' = 0
  /\ focus # "hours" => hour' = 0 /\ moved' = 0 /\ settledRows' = {}
  /\ focus = "two scanners" => over' \subseteq {1} /\ open' \subseteq {1, 2} /\ (over' # {} => 2 \in open')
  /\ focus = "slips" => over' = {} /\ 2 \notin open'
  /\ focus = "hours" => open' \subseteq {1}
  /\ UNCHANGED <<outcomesVars, cerebroVars, promotionVars, focus>>

OutcomesStep(A) ==
  /\ focus = "outcomes" /\ A
  /\ UNCHANGED <<universeVars, cerebroVars, promotionVars, focus>>

\* one thread and two experiments, or two threads and one experiment
CerebroStep(A) ==
  /\ focus \in {"queue", "race"} /\ A
  /\ focus = "queue" => cycle'[p2] = cycle[p2]
  /\ focus = "race" => \A r \in Reviews : insight'[r] = "none"
  /\ UNCHANGED <<universeVars, outcomesVars, promotionVars, focus>>

\* two sessions and two challengers; or one of each, with deaths and epochs
PromotionStep(A) ==
  /\ focus \in {"sessions", "redeploys"} /\ A
  /\ focus = "sessions" => epoch' = 0 /\ deaths' = 0 /\ (model'[m2].standing # "none" => model'[m2].passed)
  /\ focus = "redeploys" => session'[p2] = session[p2] /\ model'[m2] = model[m2]
  /\ UNCHANGED <<universeVars, outcomesVars, cerebroVars, focus>>

Next ==
  \/ UniverseStep(UniverseNext) \/ OutcomesStep(OutcomesNext) \/ CerebroStep(CerebroNext) \/ PromotionStep(PromotionNext)

\* every process goes on with its pass, its sweep, or its cycle
Works(p) == UniverseStep(PassOn(p)) \/ OutcomesStep(Sweep(p)) \/ CerebroStep(CycleStep(p))

Spec == Init /\ [][Next]_vars /\ WF_vars(Works(p1)) /\ WF_vars(Works(p2))

\* the type invariants of the modules
LearningTypeOK == UniverseTypeOK /\ OutcomesTypeOK /\ CerebroTypeOK /\ PromotionTypeOK
=============================================================================
