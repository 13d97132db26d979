----------------------------- MODULE MC_Sources -----------------------------
(***************************************************************************)
(* What an entry rests on: the positions of the broker session (Broker),   *)
(* the observations of a station (Watermarks), the rails between what a    *)
(* sweep reads and the order it sends (Entries), what a contract says      *)
(* (Contracts) and the paper account (Paper), each on a small instance.    *)
(* A behaviour has one focus: only the module in focus moves, on what the  *)
(* focus admits.                                                           *)
(***************************************************************************)
EXTENDS Broker, Watermarks, Entries, Contracts, Paper

VARIABLE focus

allVars == <<brokerVars, watermarksVars, entriesVars, contractsVars, paperVars, focus>>

\* two strikes of one day's high, and the low of that day
MCFamily == <<"high", "high", "low">>
MCSlot   == <<"high1", "high1", "low1">>
MCRegion == <<"south", "south", "south">>
MCAxis   == <<1, 1, -1>>

Init ==
  /\ BrokerInit /\ WatermarksInit /\ EntriesInit /\ ContractsInit /\ PaperInit
  /\ focus \in {"broker", "overwrites", "turns", "slots", "families", "ladder", "paper"}
  /\ focus \notin {"slots", "families"} => cash = 1200
  /\ titled => focus = "ladder"

BrokerStep ==
  /\ focus = "broker" /\ BrokerNext
  /\ UNCHANGED <<watermarksVars, entriesVars, contractsVars, paperVars, focus>>

\* two threads on one rainy day; or the monitor alone, with the forecast sync
\* and a restart, as the day turns
WatermarksStep ==
  /\ focus \in {"overwrites", "turns"} /\ WatermarksNext
  /\ focus = "overwrites" => /\ today' = 1 /\ carried' = NoCopy /\ busts' = {} /\ deaths' = 0
                             /\ \A i \in DOMAIN reports' : reports'[i].rain = 1
  /\ focus = "turns" => /\ writer'["main"] = Down
                        /\ \A i \in DOMAIN reports' : reports'[i].rain = 0
                        /\ Cardinality(busts') <= 1
  /\ UNCHANGED <<brokerVars, entriesVars, contractsVars, paperVars, focus>>

\* the two strikes; or a high and the low, which lean against each other
EntriesStep ==
  /\ focus \in {"slots", "families"} /\ EntriesNext
  /\ LET kept == IF focus = "slots" THEN {1, 2} ELSE {1, 3} IN
     /\ HeldIn(positions') \subseteq kept
     /\ \A o \in offers' : /\ o.market \in kept /\ o.price = 40
                           /\ o.conviction = (IF o.side = "NO" THEN "ultra" ELSE "base")
  /\ UNCHANGED <<brokerVars, watermarksVars, contractsVars, paperVars, focus>>

LadderStep ==
  /\ focus = "ladder" /\ ContractsNext
  /\ UNCHANGED <<brokerVars, watermarksVars, entriesVars, paperVars, focus>>

PaperStep ==
  /\ focus = "paper" /\ PaperNext
  /\ UNCHANGED <<brokerVars, watermarksVars, entriesVars, contractsVars, focus>>

\* a ladder's day comes to its end
LadderEnds == focus = "ladder" /\ due /\ past /\ UNCHANGED allVars

Next ==
  BrokerStep \/ WatermarksStep \/ EntriesStep \/ LadderStep \/ PaperStep \/ LadderEnds
Spec == Init /\ [][Next]_allVars

\* the type invariants of the modules; those out of focus stand still
SourcesTypeOK ==
  /\ focus = "broker" => BrokerTypeOK
  /\ focus \in {"overwrites", "turns"} => WatermarksTypeOK
  /\ focus \in {"slots", "families"} => EntriesTypeOK
  /\ focus = "ladder" => ContractsTypeOK
  /\ focus = "paper" => PaperTypeOK
=============================================================================
